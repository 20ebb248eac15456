--------------------------- MODULE SessionProofs ---------------------------
(***************************************************************************)
(* Proofs about the memory of a session (SessionMemory), for any requests, *)
(* limits, sizes, workers and number of cohorts.                           *)
(*                                                                         *)
(* The payload arenas (MemoryInv): every arena has its own generations,    *)
(* its writer only appends, and a cohort ends by moving all generations by *)
(* the stride.  So a handle names its payload and no other, in its own     *)
(* cohort and later.                                                       *)
(*                                                                         *)
(* The budget (BudgetInv, ExtentsInv): what is used is the sum of what the *)
(* requests of the cohort were charged, what they have written is at most  *)
(* that, request by request, and the extents of host KV lie one behind the *)
(* other.  So whatever the budget accepts is carried out.  The sums and    *)
(* the folds of a recycled cohort run over sets of indices; what they      *)
(* compute is shown by a least counterexample.                             *)
(***************************************************************************)
EXTENDS SessionMemory, FiniteSetTheorems, SequenceTheorems, WellFoundedInduction, TLAPS

\* A set of numbers has a least one.
LEMMA LeastNumber ==
    ASSUME NEW S \in SUBSET Nat, S # {}
    PROVE  \E x \in S : \A y \in S : x <= y
<1>1. \E x \in S : \A y \in S : ~(<<y, x>> \in OpToRel(<, Nat))
  BY NatLessThanWellFounded, WFMin, Zenon
<1>2. PICK x \in S : \A y \in S : ~(<<y, x>> \in OpToRel(<, Nat)) BY <1>1
<1>3. \A y \in S : y \in Nat /\ x \in Nat BY <1>2
<1>4. \A y \in S : ~(y < x) BY <1>2, <1>3 DEF OpToRel
<1>5. \A y \in S : x <= y BY <1>3, <1>4
<1> QED BY <1>2, <1>5

\* The element a fold over a set takes next, the sum of w over every set of D as
\* a recursive function, and the subsets of at most n elements.
Pick(s) == CHOOSE y \in s : TRUE
Added(w, f, D) == [s \in D |-> IF s = {} THEN 0 ELSE w[Pick(s)] + f[s \ {Pick(s)}]]
UpTo(S, n) == {s \in SUBSET S : Cardinality(s) <= n}

\* That recursive function exists: were there sizes without one, the least of
\* them would be one more than a size that has one.
LEMMA SumExists ==
    ASSUME NEW S, IsFiniteSet(S), NEW w
    PROVE  \E f : f = Added(w, f, SUBSET S)
<1> DEFINE Bad == {n \in Nat : ~ \E f : f = Added(w, f, UpTo(S, n))}
<1> HIDE DEF Bad
<1>1. Bad = {}
  <2>1. SUFFICES ASSUME Bad # {} PROVE FALSE OBVIOUS
  <2>2. Bad \in SUBSET Nat BY DEF Bad
  <2>3. PICK x \in Bad : \A y \in Bad : x <= y BY <2>1, <2>2, LeastNumber
  <2>4. x \in Nat BY <2>2, <2>3
  <2>5. CASE x = 0
    <3>1. \A s \in UpTo(S, 0) : s = {}
      <4>1. TAKE s \in UpTo(S, 0)
      <4>2. IsFiniteSet(s) /\ s \subseteq S BY FS_Subset DEF UpTo
      <4>3. Cardinality(s) \in Nat /\ Cardinality(s) <= 0 BY <4>2, FS_CardinalityType DEF UpTo
      <4> QED BY <4>2, <4>3, FS_EmptySet
    <3>2. [s \in UpTo(S, 0) |-> 0] = Added(w, [s \in UpTo(S, 0) |-> 0], UpTo(S, 0))
      BY <3>1, Zenon DEF Added
    <3> QED BY <2>3, <2>5, <3>2, Zenon DEF Bad
  <2>6. CASE x # 0
    <3>1. x - 1 \in Nat /\ x - 1 < x BY <2>4, <2>6
    <3>2. x - 1 \notin Bad BY <2>3, <2>4, <3>1
    <3>3. PICK f : f = Added(w, f, UpTo(S, x - 1)) BY <3>1, <3>2 DEF Bad
    <3> DEFINE g == [s \in UpTo(S, x) |->
                       IF s \in UpTo(S, x - 1) THEN f[s]
                       ELSE w[Pick(s)] + f[s \ {Pick(s)}]]
    <3> HIDE DEF g
    <3>4. \A s \in UpTo(S, x) : s # {} => s \ {Pick(s)} \in UpTo(S, x - 1)
      <4>1. SUFFICES ASSUME NEW s \in UpTo(S, x), s # {} PROVE s \ {Pick(s)} \in UpTo(S, x - 1)
        OBVIOUS
      <4>2. IsFiniteSet(s) /\ s \subseteq S BY FS_Subset DEF UpTo
      <4>3. Pick(s) \in s BY <4>1, Zenon DEF Pick
      <4>4. Cardinality(s \ {Pick(s)}) = Cardinality(s) - 1 BY <4>2, <4>3, FS_RemoveElement
      <4>5. Cardinality(s) \in Nat /\ Cardinality(s) <= x BY <4>2, FS_CardinalityType DEF UpTo
      <4>6. Cardinality(s \ {Pick(s)}) <= x - 1 BY <2>4, <4>4, <4>5
      <4> QED BY <4>2, <4>6 DEF UpTo
    <3>5. UpTo(S, x - 1) \subseteq UpTo(S, x)
      <4>1. SUFFICES ASSUME NEW s \in UpTo(S, x - 1) PROVE s \in UpTo(S, x) OBVIOUS
      <4>2. IsFiniteSet(s) /\ s \subseteq S BY FS_Subset DEF UpTo
      <4>3. Cardinality(s) \in Nat /\ Cardinality(s) <= x - 1 BY <4>2, FS_CardinalityType DEF UpTo
      <4> QED BY <2>4, <4>2, <4>3 DEF UpTo
    <3>6. \A s \in UpTo(S, x - 1) : g[s] = f[s] BY <3>5 DEF g
    <3>7. \A s \in UpTo(S, x - 1) : f[s] = IF s = {} THEN 0 ELSE w[Pick(s)] + f[s \ {Pick(s)}]
      BY <3>3, Zenon DEF Added
    <3>8. {} \in UpTo(S, x - 1) BY <3>1, FS_EmptySet DEF UpTo
    <3>9. \A s \in UpTo(S, x) : g[s] = IF s = {} THEN 0 ELSE w[Pick(s)] + g[s \ {Pick(s)}]
      <4>1. SUFFICES ASSUME NEW s \in UpTo(S, x)
                     PROVE g[s] = IF s = {} THEN 0 ELSE w[Pick(s)] + g[s \ {Pick(s)}]
        OBVIOUS
      <4>2. CASE s = {} BY <3>6, <3>7, <3>8, <4>2
      <4>3. CASE s # {} 
        <5>1. g[s \ {Pick(s)}] = f[s \ {Pick(s)}] BY <3>4, <3>6, <4>3
        <5>2. g[s] = w[Pick(s)] + f[s \ {Pick(s)}] BY <3>7, <4>3 DEF g
        <5> QED BY <4>3, <5>1, <5>2
      <4> QED BY <4>2, <4>3
    <3>10. g = [s \in UpTo(S, x) |-> g[s]] BY Zenon DEF g
    <3>11. g = Added(w, g, UpTo(S, x)) BY <3>9, <3>10, Zenon DEF Added
    <3> QED BY <2>3, <3>11 DEF Bad
  <2> QED BY <2>5, <2>6
<1>2. Cardinality(S) \in Nat BY FS_CardinalityType
<1>3. PICK f : f = Added(w, f, UpTo(S, Cardinality(S))) BY <1>1, <1>2 DEF Bad
<1>4. UpTo(S, Cardinality(S)) = SUBSET S BY FS_Subset DEF UpTo
<1> QED BY <1>3, <1>4

\* A sum of natural numbers is one.
LEMMA SumOfNaturals ==
    ASSUME NEW S, IsFiniteSet(S), NEW w, \A i \in S : w[i] \in Nat,
           NEW f, f = Added(w, f, SUBSET S)
    PROVE  f[S] \in Nat
<1> DEFINE Bad == {n \in Nat : \E s \in SUBSET S : Cardinality(s) = n /\ f[s] \notin Nat}
<1> HIDE DEF Bad
<1>1. /\ f[{}] = 0
      /\ \A s \in SUBSET S : s # {} => f[s] = w[Pick(s)] + f[s \ {Pick(s)}]
  <2>1. \A s \in SUBSET S : f[s] = IF s = {} THEN 0 ELSE w[Pick(s)] + f[s \ {Pick(s)}]
    BY Zenon DEF Added
  <2>2. {} \in SUBSET S OBVIOUS
  <2> QED BY <2>1, <2>2, Zenon
<1>2. Bad = {}
  <2>1. SUFFICES ASSUME Bad # {} PROVE FALSE OBVIOUS
  <2>2. Bad \in SUBSET Nat BY DEF Bad
  <2>3. PICK n \in Bad : \A y \in Bad : n <= y BY <2>1, <2>2, LeastNumber
  <2>4. PICK s \in SUBSET S : Cardinality(s) = n /\ f[s] \notin Nat BY <2>3 DEF Bad
  <2>5. s # {}
    <3>1. SUFFICES ASSUME s = {} PROVE FALSE OBVIOUS
    <3>2. f[s] = 0 BY <1>1, <3>1, Zenon
    <3> QED BY <2>4, <3>2
  <2>6. Pick(s) \in s BY <2>5, Zenon DEF Pick
  <2>7. IsFiniteSet(s) BY FS_Subset
  <2>8. Cardinality(s \ {Pick(s)}) = n - 1 BY <2>4, <2>6, <2>7, FS_RemoveElement
  <2>9. n - 1 \in Nat
    <3>1. IsFiniteSet(s \ {Pick(s)}) BY <2>7, FS_RemoveElement
    <3>2. Cardinality(s \ {Pick(s)}) \in Nat BY <3>1, FS_CardinalityType
    <3> QED BY <2>8, <3>2
  <2>10. n \in Nat /\ n - 1 \notin Bad BY <2>2, <2>3, <2>9
  <2>11. f[s \ {Pick(s)}] \in Nat BY <2>8, <2>9, <2>10 DEF Bad
  <2>12. f[s] = w[Pick(s)] + f[s \ {Pick(s)}] BY <1>1, <2>5, Zenon
  <2> QED BY <2>4, <2>6, <2>11, <2>12
<1>3. Cardinality(S) \in Nat BY FS_CardinalityType
<1> QED BY <1>2, <1>3 DEF Bad

-----------------------------------------------------------------------------
\* What handles, attachments and records of the registry are made of.
HandleShapes == [arena : Arenas, generation : Nat, lo : Nat, hi : Nat]
AttachmentShapes == [generation : Nat, head : Nat]
RecordShapes == [shape : Shapes, drafts : Nat, targets : Nat, count : Int, finished : BOOLEAN,
                 output : HandleShapes]

\* The registry, the attachments, the extents and the handles have their types;
\* the HostKV allocators and the budget are whatever they are.
MemoryShape ==
    /\ registry = [records |-> registry.records, used |-> registry.used,
                   cohort |-> registry.cohort, state |-> registry.state]
    /\ registry.records \in Seq(RecordShapes)
    /\ registry.cohort \in Nat \ {0}
    /\ engine \in [Arenas -> AttachmentShapes]
    /\ worker \in [DraftArenas -> AttachmentShapes]
    /\ segment \in [Arenas -> Nat]
    /\ handles = [live |-> handles.live, retired |-> handles.retired]
    /\ handles.live \in SUBSET HandleShapes
    /\ handles.retired \in SUBSET HandleShapes

\* A WORK names records of the cohort, and none is out while the cohort retires
\* (CohortRecycler.progress waits for them).
SentWork ==
    /\ \A x \in sent : /\ x = [role |-> x.role, worker |-> x.worker, batch |-> x.batch,
                               at |-> x.at, stage |-> x.stage]
                       /\ x.batch \in SUBSET Records
    /\ registry.state = "retiring" => sent = {}

\* An arena is in the cohort's generation of its own name space, on both sides:
\* the Engine recycles every attachment and a worker attaches again with its
\* generation.
Namespaces ==
    /\ \A a \in Arenas : engine[a].generation = FirstGeneration(a) + 2 * (registry.cohort - 1)
    /\ \A a \in DraftArenas : worker[a].generation = engine[a].generation

\* The writer of an arena has published all it wrote.
HeadsPublished ==
    /\ \A a \in EngineArenas : engine[a].head = segment[a]
    /\ \A a \in DraftArenas : worker[a].head = segment[a]

\* Handles of one arena do not overlap.
Apart(hs) ==
    \A h \in hs : \A g \in hs :
        (g # h /\ g.arena = h.arena) => g.hi <= h.lo \/ h.hi <= g.lo

\* All handles lie below, or all above, the extent of their arena.
Below(hs, extent) == \A h \in hs : h.lo <= h.hi /\ h.hi <= extent[h.arena]
Above(hs, extent) == \A h \in hs : extent[h.arena] <= h.lo /\ h.lo <= h.hi

\* The handles of the cohort: of its generation, published, and apart.
LiveHandles ==
    /\ \A h \in handles.live : /\ h.generation = engine[h.arena].generation
                               /\ h.lo <= h.hi /\ h.hi <= segment[h.arena]
    /\ Apart(handles.live)

\* The others are of the generation of an earlier cohort of their arena.
RetiredHandles ==
    \A h \in handles.retired :
        h.generation <= FirstGeneration(h.arena) + 2 * (registry.cohort - 2)

\* The inductive invariant of the payload arenas.
MemoryInv == MemoryShape /\ SentWork /\ Namespaces /\ HeadsPublished /\ LiveHandles /\ RetiredHandles

\* The four kinds of arenas, their name spaces and first generations.
LEMMA ArenaFacts ==
    /\ \A a \in DraftArenas : /\ a \in Arenas /\ a \notin EngineArenas
                              /\ a[1] \in {"proposals", "snapshots"} /\ a[2] \in DraftIds
                              /\ FirstGeneration(a) = a[2] + 1
    /\ \A a \in EngineArenas : /\ a \in Arenas /\ a \notin DraftArenas
                               /\ a[1] \in {"tokens", "configs"} /\ a[2] = -1
                               /\ FirstGeneration(a) = 1
    /\ <<"tokens", -1>> \in EngineArenas /\ <<"configs", -1>> \in EngineArenas
    /\ \A a \in Arenas : FirstGeneration(a) \in Nat \ {0}
    /\ \A a, b \in Arenas : a[1] = b[1] /\ a[2] = b[2] => a = b
<1>1. \A a \in DraftArenas : a[1] \in {"proposals", "snapshots"} /\ a[2] \in DraftIds
  BY DEF DraftArenas
<1>2. \A a \in EngineArenas : a[1] \in {"tokens", "configs"} /\ a[2] = -1
  BY DEF EngineArenas
<1>3. /\ \A a \in DraftArenas : a \notin EngineArenas
      /\ \A a \in EngineArenas : a \notin DraftArenas
  BY <1>1, <1>2
<1>4. \A a \in DraftArenas : FirstGeneration(a) = a[2] + 1
  BY <1>1 DEF FirstGeneration
<1>5. \A a \in EngineArenas : FirstGeneration(a) = 1
  BY <1>2 DEF FirstGeneration
<1>6. <<"tokens", -1>> \in EngineArenas /\ <<"configs", -1>> \in EngineArenas
  BY DEF EngineArenas
<1>7. \A a \in Arenas : FirstGeneration(a) \in Nat \ {0}
  <2>1. \A a \in DraftArenas : a[2] \in Nat BY <1>1, MemoryAssumption
  <2> QED BY <1>4, <1>5, <2>1 DEF Arenas
<1>8. \A a, b \in Arenas : a[1] = b[1] /\ a[2] = b[2] => a = b
  BY DEF Arenas, EngineArenas, DraftArenas
<1> QED BY <1>1, <1>2, <1>3, <1>4, <1>5, <1>6, <1>7, <1>8 DEF Arenas

-----------------------------------------------------------------------------
\* What a request writes has a size (TokenBytes, ConfigBytes, ProposalBytes).
LEMMA SizesAreNatural ==
    /\ \A shape \in Shapes : /\ TokenBytes(shape.prompt) \in Nat /\ TokenBytes(shape.new) \in Nat
                             /\ ConfigBytes(shape) \in Nat
                             /\ ProposalBytes(shape.depth) \in Nat
  BY MemoryAssumption DEF TokenBytes, ConfigBytes, ProposalBytes

\* The fold that DraftBytes takes over the proposals of a batch is such a
\* recursive function.
LEMMA ProposalFold ==
    ASSUME NEW x, IsFiniteSet(x.batch), NEW w,
           \A i \in x.batch : w[i] = ProposalBytes(registry.records[i].shape.depth)
    PROVE  \E f : /\ f = Added(w, f, SUBSET x.batch)
                  /\ MapThenSumSet(LAMBDA i : ProposalBytes(registry.records[i].shape.depth), x.batch)
                       = f[x.batch]
<1> DEFINE Step(f) == [s \in SUBSET x.batch |->
                IF s = {} THEN 0
                ELSE ProposalBytes(registry.records[CHOOSE y \in s : TRUE].shape.depth)
                       + f[s \ {CHOOSE y \in s : TRUE}]]
           f0 == CHOOSE f : f = Step(f)
<1>1. MapThenSumSet(LAMBDA i : ProposalBytes(registry.records[i].shape.depth), x.batch) = f0[x.batch]
  BY Zenon DEF MapThenSumSet, MapThenFoldSet
<1>2. \A f : Step(f) = Added(w, f, SUBSET x.batch)
  <2>1. \A s \in SUBSET x.batch : s # {} =>
          w[Pick(s)] = ProposalBytes(registry.records[CHOOSE y \in s : TRUE].shape.depth)
    <3>1. TAKE s \in SUBSET x.batch
    <3>2. HAVE s # {}
    <3>3. Pick(s) \in s BY <3>2, Zenon DEF Pick
    <3>4. Pick(s) \in x.batch BY <3>3
    <3> QED BY <3>4, Zenon DEF Pick
  <2>2. TAKE f
  <2>3. \A s \in SUBSET x.batch :
          (IF s = {} THEN 0
           ELSE ProposalBytes(registry.records[CHOOSE y \in s : TRUE].shape.depth)
                  + f[s \ {CHOOSE y \in s : TRUE}])
            = (IF s = {} THEN 0 ELSE w[Pick(s)] + f[s \ {Pick(s)}])
    <3>1. TAKE s \in SUBSET x.batch
    <3>2. CASE s = {} BY <3>2, Zenon
    <3>3. CASE s # {}
      <4>1. w[Pick(s)] = ProposalBytes(registry.records[Pick(s)].shape.depth)
        BY <2>1, <3>3, Zenon DEF Pick
      <4>2. Pick(s) = CHOOSE y \in s : TRUE BY Zenon DEF Pick
      <4> QED BY <3>3, <4>1, <4>2, Zenon
    <3> QED BY <3>2, <3>3
  <2> QED BY <2>3, Zenon DEF Added
<1>3. \E f : f = Step(f) BY <1>2, SumExists, Zenon
<1> HIDE DEF Step
<1>4. f0 = Step(f0) BY <1>3, Zenon
<1>5. f0 = Added(w, f0, SUBSET x.batch) BY <1>2, <1>4, Zenon
<1> HIDE DEF f0
<1> QED BY <1>1, <1>5

\* The proposals of a batch have a size together.
LEMMA ProposalSum ==
    ASSUME NEW x, IsFiniteSet(x.batch),
           \A i \in x.batch : ProposalBytes(registry.records[i].shape.depth) \in Nat
    PROVE  MapThenSumSet(LAMBDA i : ProposalBytes(registry.records[i].shape.depth), x.batch) \in Nat
<1> DEFINE w == [i \in x.batch |-> ProposalBytes(registry.records[i].shape.depth)]
<1>1. \A i \in x.batch : /\ w[i] = ProposalBytes(registry.records[i].shape.depth)
                          /\ w[i] \in Nat
  OBVIOUS
<1> HIDE DEF w
<1>2. PICK f : /\ f = Added(w, f, SUBSET x.batch)
               /\ MapThenSumSet(LAMBDA i : ProposalBytes(registry.records[i].shape.depth), x.batch)
                    = f[x.batch]
  BY <1>1, ProposalFold, Zenon
<1>3. f[x.batch] \in Nat BY <1>1, <1>2, SumOfNaturals, Zenon
<1> QED BY <1>2, <1>3, Zenon

\* DraftPublisher.reserve moves a head forward, never back.
LEMMA DraftBytesNatural ==
    ASSUME MemoryShape, NEW x \in sent, x.batch \in SUBSET Records, NEW name
    PROVE  DraftBytes(x, name) \in Nat
<1>1. registry.records \in Seq(RecordShapes) /\ Len(registry.records) \in Nat BY DEF MemoryShape
<1>2. IsFiniteSet(x.batch)
  <2>1. IsFiniteSet(1 .. Len(registry.records)) BY <1>1, FS_Interval
  <2> QED BY <2>1, FS_Subset DEF Records
<1>3. Cardinality(x.batch) \in Nat BY <1>2, FS_CardinalityType
<1>4. \A i \in x.batch : ProposalBytes(registry.records[i].shape.depth) \in Nat
  <2>1. TAKE i \in x.batch
  <2>2. registry.records[i] \in RecordShapes BY <1>1 DEF Records
  <2> QED BY <2>2, SizesAreNatural DEF RecordShapes
<1>5. CASE name = "snapshots" BY <1>3, <1>5 DEF DraftBytes, SnapshotBytes
<1>6. CASE name # "snapshots"
  <2>1. MapThenSumSet(LAMBDA i : ProposalBytes(registry.records[i].shape.depth), x.batch) \in Nat
    BY <1>2, <1>4, ProposalSum, Zenon
  <2> QED BY <1>6, <2>1, Zenon DEF DraftBytes
<1> QED BY <1>5, <1>6

\* The session starts in its first cohort, with empty arenas.
LEMMA MemoryStarts == InitMemory => MemoryInv
<1> SUFFICES ASSUME InitMemory PROVE MemoryInv OBVIOUS
<1>1. \A a \in DraftArenas : a \in Arenas BY ArenaFacts
<1>2. \A a \in Arenas : FirstGeneration(a) \in Nat BY ArenaFacts
<1>3. MemoryShape BY <1>1, <1>2 DEF InitMemory, MemoryShape, AttachmentShapes
<1>4. SentWork BY DEF InitMemory, SentWork
<1>5. Namespaces BY <1>1, <1>2 DEF InitMemory, Namespaces
<1>6. HeadsPublished BY ArenaFacts DEF InitMemory, HeadsPublished
<1>7. LiveHandles /\ RetiredHandles BY DEF InitMemory, LiveHandles, RetiredHandles, Apart
<1> QED BY <1>3, <1>4, <1>5, <1>6, <1>7 DEF MemoryInv
-----------------------------------------------------------------------------
\* Handles behind the published extent are apart from those below it.
LEMMA HandlesAdded ==
    ASSUME NEW live \in SUBSET HandleShapes, NEW more \in SUBSET HandleShapes,
           NEW extent \in [Arenas -> Nat],
           Below(live, extent), Above(more, extent), Apart(live), Apart(more)
    PROVE  Apart(live \cup more)
<1>1. SUFFICES ASSUME NEW h \in live \cup more, NEW g \in live \cup more,
                      g # h, g.arena = h.arena
               PROVE  g.hi <= h.lo \/ h.hi <= g.lo
  BY DEF Apart
<1>2. h \in HandleShapes /\ g \in HandleShapes OBVIOUS
<1>3. /\ h.arena \in Arenas /\ h.lo \in Nat /\ h.hi \in Nat /\ g.lo \in Nat /\ g.hi \in Nat
      /\ extent[h.arena] \in Nat
  BY <1>2 DEF HandleShapes
<1>4. CASE h \in live /\ g \in live BY <1>1, <1>4 DEF Apart
<1>5. CASE h \in more /\ g \in more BY <1>1, <1>5 DEF Apart
<1>6. CASE h \in live /\ g \in more
  <2>1. h.hi <= extent[h.arena] /\ extent[h.arena] <= g.lo BY <1>1, <1>6 DEF Below, Above
  <2> QED BY <1>3, <2>1
<1>7. CASE h \in more /\ g \in live
  <2>1. g.hi <= extent[h.arena] /\ extent[h.arena] <= h.lo BY <1>1, <1>7 DEF Below, Above
  <2> QED BY <1>3, <2>1
<1> QED BY <1>4, <1>5, <1>6, <1>7

\* RequestRegistry.admit: the prompt, its output region and the configuration lie
\* behind the published extents, one behind the other.
LEMMA AdmitKeeps ==
    ASSUME MemoryInv, NEW shape \in Shapes, Admit(shape)
    PROVE  MemoryInv'
<1> DEFINE t == <<"tokens", -1>>
           c == <<"configs", -1>>
           prompt == Handle(t, engine[t], TokenBytes(shape.prompt))
           output == ReservedOutput(engine[t], prompt, shape.new)
           config == Handle(c, engine[c], ConfigBytes(shape))
           entry == [shape |-> shape, drafts |-> 0, targets |-> 0, count |-> 0,
                     finished |-> FALSE, output |-> output]
           np == TokenBytes(shape.prompt)
           no == TokenBytes(shape.new)
           nc == ConfigBytes(shape)
<1>1. t \in Arenas /\ c \in Arenas /\ t # c /\ t \in EngineArenas /\ c \in EngineArenas BY ArenaFacts
<1>2. np \in Nat /\ no \in Nat /\ nc \in Nat BY SizesAreNatural
<1>3. engine[t] \in AttachmentShapes /\ engine[c] \in AttachmentShapes
  BY <1>1 DEF MemoryInv, MemoryShape
<1>4. /\ prompt = [arena |-> t, generation |-> engine[t].generation,
                   lo |-> engine[t].head, hi |-> engine[t].head + np]
      /\ output = [arena |-> t, generation |-> engine[t].generation,
                   lo |-> engine[t].head + np, hi |-> engine[t].head + np + no]
      /\ config = [arena |-> c, generation |-> engine[c].generation,
                   lo |-> engine[c].head, hi |-> engine[c].head + nc]
  BY <1>3 DEF Handle, ReservedOutput, AttachmentShapes
<1> HIDE DEF prompt, output, config, np, no, nc, t, c
<1>5. prompt \in HandleShapes /\ output \in HandleShapes /\ config \in HandleShapes
  BY <1>1, <1>2, <1>3, <1>4 DEF HandleShapes, AttachmentShapes
<1>6. entry \in RecordShapes BY <1>5 DEF RecordShapes
<1> HIDE DEF entry
<1>7. /\ registry.records \in Seq(RecordShapes) /\ Len(registry.records) \in Nat
      /\ registry = [records |-> registry.records, used |-> registry.used,
                     cohort |-> registry.cohort, state |-> registry.state]
      /\ registry.cohort \in Nat \ {0}
  BY DEF MemoryInv, MemoryShape
<1>8. CASE /\ registry' = [registry EXCEPT !.state = "poisoned"]
           /\ UNCHANGED <<hostkv, segment, engine, handles, worker, done, sent>>
  <2>1. /\ registry'.records = registry.records /\ registry'.cohort = registry.cohort
        /\ registry'.state = "poisoned"
        /\ registry' = [records |-> registry'.records, used |-> registry'.used,
                        cohort |-> registry'.cohort, state |-> registry'.state]
    BY <1>7, <1>8
  <2>2. MemoryShape' BY <1>7, <1>8, <2>1 DEF MemoryInv, MemoryShape
  <2>3. SentWork' BY <1>8, <2>1 DEF MemoryInv, SentWork, Records
  <2>4. Namespaces' /\ HeadsPublished' /\ LiveHandles' /\ RetiredHandles'
    BY <1>8, <2>1 DEF MemoryInv, Namespaces, HeadsPublished, LiveHandles, RetiredHandles
  <2> QED BY <2>2, <2>3, <2>4 DEF MemoryInv
<1>9. CASE /\ registry' = [registry EXCEPT !.records = Append(@, entry),
                                           !.used = Charge(@, Cost(shape))]
           /\ engine' = [engine EXCEPT ![t].head = output.hi, ![c].head = config.hi]
           /\ segment' = [segment EXCEPT ![t] = output.hi, ![c] = config.hi]
           /\ handles' = [handles EXCEPT !.live = @ \cup {prompt, output, config}]
           /\ registry.state = "open"
           /\ UNCHANGED <<worker, done, sent>>
  <2>1. /\ registry'.records = Append(registry.records, entry)
        /\ registry'.cohort = registry.cohort /\ registry'.state = registry.state
        /\ registry' = [records |-> registry'.records, used |-> registry'.used,
                        cohort |-> registry'.cohort, state |-> registry'.state]
    BY <1>7, <1>9
  <2>2. /\ registry'.records \in Seq(RecordShapes)
        /\ Len(registry'.records) = Len(registry.records) + 1
    BY <1>6, <1>7, <2>1
  <2>3. /\ engine \in [Arenas -> AttachmentShapes] /\ segment \in [Arenas -> Nat]
        /\ worker \in [DraftArenas -> AttachmentShapes]
        /\ handles = [live |-> handles.live, retired |-> handles.retired]
        /\ handles.live \in SUBSET HandleShapes
        /\ handles.retired \in SUBSET HandleShapes
    BY DEF MemoryInv, MemoryShape
  <2>4. /\ output.hi \in Nat /\ config.hi \in Nat BY <1>5 DEF HandleShapes
  <2>5. engine' \in [Arenas -> AttachmentShapes]
    <3>1. /\ [engine[t] EXCEPT !.head = output.hi] \in AttachmentShapes
          /\ [engine[c] EXCEPT !.head = config.hi] \in AttachmentShapes
      BY <1>3, <2>4 DEF AttachmentShapes
    <3>2. engine' = [engine EXCEPT ![t] = [engine[t] EXCEPT !.head = output.hi],
                                   ![c] = [engine[c] EXCEPT !.head = config.hi]]
      BY <1>1, <1>9, <2>3
    <3> QED BY <2>3, <3>1, <3>2
  <2>6. /\ segment' \in [Arenas -> Nat]
        /\ segment'[t] = output.hi /\ segment'[c] = config.hi
        /\ \A a \in Arenas : a # t /\ a # c => segment'[a] = segment[a]
    BY <1>1, <1>9, <2>3, <2>4
  <2>7. /\ \A a \in Arenas : engine'[a].generation = engine[a].generation
        /\ engine'[t].head = output.hi /\ engine'[c].head = config.hi
        /\ \A a \in Arenas : a # t /\ a # c => engine'[a] = engine[a]
    <3>1. /\ \A a \in Arenas : a # t /\ a # c => engine'[a] = engine[a]
          /\ engine'[t] = [engine[t] EXCEPT !.head = output.hi]
          /\ engine'[c] = [engine[c] EXCEPT !.head = config.hi]
      BY <1>1, <1>9, <2>3
    <3> QED BY <1>3, <3>1 DEF AttachmentShapes
  <2>8. /\ handles'.live = handles.live \cup {prompt, output, config}
        /\ handles'.retired = handles.retired
        /\ handles' = [live |-> handles'.live, retired |-> handles'.retired]
    BY <1>9, <2>3
  <2>9. MemoryShape'
    BY <1>5, <1>7, <1>9, <2>1, <2>2, <2>3, <2>5, <2>6, <2>8 DEF MemoryShape
  <2>10. SentWork'
    <3>1. Records \subseteq Records' BY <1>7, <2>2 DEF Records
    <3> QED BY <1>9, <2>1, <3>1 DEF MemoryInv, SentWork
  <2>11. Namespaces'
    <3>1. \A a \in DraftArenas : a \in Arenas BY ArenaFacts
    <3>2. \A a \in Arenas : engine[a].generation = FirstGeneration(a) + 2 * (registry.cohort - 1)
      BY DEF MemoryInv, Namespaces
    <3>3. \A a \in DraftArenas : worker[a].generation = engine[a].generation
      BY DEF MemoryInv, Namespaces
    <3>4. \A a \in Arenas : engine'[a].generation = FirstGeneration(a) + 2 * (registry'.cohort - 1)
      BY <2>1, <2>7, <3>2
    <3>5. \A a \in DraftArenas : worker'[a].generation = engine'[a].generation
      BY <1>9, <2>7, <3>1, <3>3
    <3> QED BY <3>4, <3>5 DEF Namespaces
  <2>12. HeadsPublished'
    <3>1. \A a \in EngineArenas : engine'[a].head = segment'[a]
      <4>1. TAKE a \in EngineArenas
      <4>2. a \in Arenas /\ engine[a].head = segment[a]
        BY ArenaFacts DEF MemoryInv, HeadsPublished
      <4> QED BY <2>6, <2>7, <4>2
    <3>2. \A a \in DraftArenas : worker'[a].head = segment'[a]
      <4>1. TAKE a \in DraftArenas
      <4>2. a \in Arenas /\ a # t /\ a # c BY <1>1, ArenaFacts
      <4> QED BY <1>9, <2>6, <4>2 DEF MemoryInv, HeadsPublished
    <3> QED BY <3>1, <3>2 DEF HeadsPublished
  <2>13. /\ segment[t] = engine[t].head /\ segment[c] = engine[c].head
         /\ engine[t].head \in Nat /\ engine[c].head \in Nat
    BY <1>1, <1>3 DEF MemoryInv, HeadsPublished, AttachmentShapes
  <2>14. \A h \in handles'.live : /\ h.generation = engine'[h.arena].generation
                                  /\ h.lo <= h.hi /\ h.hi <= segment'[h.arena]
    <3>1. SUFFICES ASSUME NEW h \in handles'.live
                   PROVE  /\ h.generation = engine'[h.arena].generation
                          /\ h.lo <= h.hi /\ h.hi <= segment'[h.arena]
      OBVIOUS
    <3>2. CASE h = prompt BY <1>1, <1>2, <1>4, <2>6, <2>7, <2>13, <3>2
    <3>3. CASE h = output BY <1>1, <1>2, <1>4, <2>6, <2>7, <2>13, <3>3
    <3>4. CASE h = config BY <1>1, <1>2, <1>4, <2>6, <2>7, <2>13, <3>4
    <3>5. CASE h \in handles.live
      <4>1. /\ h.arena \in Arenas /\ h.lo \in Nat /\ h.hi \in Nat BY <2>3, <3>5 DEF HandleShapes
      <4>2. /\ h.generation = engine[h.arena].generation
            /\ h.lo <= h.hi /\ h.hi <= segment[h.arena]
        BY <3>5 DEF MemoryInv, LiveHandles
      <4>3. segment[h.arena] \in Nat /\ segment[h.arena] <= segment'[h.arena]
            /\ segment'[h.arena] \in Nat
        BY <1>2, <1>4, <2>3, <2>6, <2>13, <4>1
      <4>4. h.generation = engine'[h.arena].generation BY <2>7, <4>1, <4>2
      <4> QED BY <4>1, <4>2, <4>3, <4>4
    <3> QED BY <2>8, <3>1, <3>2, <3>3, <3>4, <3>5
  <2>15. Apart(handles'.live)
    <3> DEFINE more == {prompt, output, config}
    <3>1. Above(more, segment) BY <1>2, <1>4, <2>13 DEF Above
    <3>2. Apart(more) BY <1>1, <1>2, <1>4, <2>13 DEF Apart
    <3>3. more \in SUBSET HandleShapes BY <1>5
    <3>4. Below(handles.live, segment) /\ Apart(handles.live)
      BY DEF MemoryInv, LiveHandles, Below
    <3>5. handles'.live = handles.live \cup more BY <2>8
    <3> HIDE DEF more
    <3>6. Apart(handles.live \cup more) BY <2>3, <3>1, <3>2, <3>3, <3>4, HandlesAdded
    <3> QED BY <3>5, <3>6, Zenon
  <2>16. RetiredHandles' BY <2>1, <2>8 DEF MemoryInv, RetiredHandles
  <2> QED BY <2>9, <2>10, <2>11, <2>12, <2>14, <2>15, <2>16 DEF MemoryInv, LiveHandles
<1> QED
  <2>1. \/ /\ registry' = [registry EXCEPT !.state = "poisoned"]
           /\ UNCHANGED <<hostkv, segment, engine, handles, worker, done, sent>>
        \/ /\ registry' = [registry EXCEPT !.records = Append(@, entry),
                                           !.used = Charge(@, Cost(shape))]
           /\ engine' = [engine EXCEPT ![t].head = output.hi, ![c].head = config.hi]
           /\ segment' = [segment EXCEPT ![t] = output.hi, ![c] = config.hi]
           /\ handles' = [handles EXCEPT !.live = @ \cup {prompt, output, config}]
           /\ registry.state = "open"
           /\ UNCHANGED <<worker, done, sent>>
    BY Zenon DEF Admit, Running, prompt, output, config, entry, t, c
  <2> QED BY <1>8, <1>9, <2>1

\* What a step that moves no payload leaves as it was.
PayloadsStill ==
    /\ UNCHANGED <<segment, engine, worker, handles>>
    /\ registry'.cohort = registry.cohort

\* Such a step keeps the invariant when it keeps the types and the WORKs.
LEMMA StillKeeps ==
    ASSUME MemoryInv, PayloadsStill,
           registry' = [records |-> registry'.records, used |-> registry'.used,
                        cohort |-> registry'.cohort, state |-> registry'.state],
           registry'.records \in Seq(RecordShapes),
           SentWork'
    PROVE  MemoryInv'
<1>1. MemoryShape' BY DEF MemoryInv, MemoryShape, PayloadsStill
<1>2. Namespaces' /\ HeadsPublished' /\ LiveHandles' /\ RetiredHandles'
  BY DEF MemoryInv, PayloadsStill, Namespaces, HeadsPublished, LiveHandles, RetiredHandles
<1> QED BY <1>1, <1>2 DEF MemoryInv

\* The registry as a record.
LEMMA RegistryForm ==
    ASSUME MemoryInv
    PROVE  /\ registry.records \in Seq(RecordShapes) /\ Len(registry.records) \in Nat
           /\ registry = [records |-> registry.records, used |-> registry.used,
                          cohort |-> registry.cohort, state |-> registry.state]
           /\ registry.cohort \in Nat \ {0}
  BY DEF MemoryInv, MemoryShape

\* Records that change one by one stay records.
LEMMA RecordsMapped ==
    ASSUME NEW n \in Nat, NEW f, \A i \in 1 .. n : f[i] \in RecordShapes, f = [i \in 1 .. n |-> f[i]]
    PROVE  f \in Seq(RecordShapes) /\ Len(f) = n
  OBVIOUS

\* WorkProgress.build moves no payload.
LEMMA IssueKeeps ==
    ASSUME MemoryInv, NEW role \in Kinds, NEW w, NEW batch \in SUBSET Records,
           IssueWork(role, w, batch)
    PROVE  MemoryInv'
<1>1. /\ registry.records \in Seq(RecordShapes) /\ Len(registry.records) \in Nat
      /\ registry = [records |-> registry.records, used |-> registry.used,
                     cohort |-> registry.cohort, state |-> registry.state]
      /\ registry.cohort \in Nat \ {0}
  BY RegistryForm
<1>2. registry.state = "open" /\ UNCHANGED <<segment, engine, worker, handles>>
  BY DEF IssueWork, Running
<1>3. CASE ~ CompletionFits(CompletionBytes(Cardinality(batch)))
  <2>1. registry' = [registry EXCEPT !.state = "poisoned"] /\ UNCHANGED sent
    BY <1>3 DEF IssueWork
  <2>2. /\ registry' = [records |-> registry'.records, used |-> registry'.used,
                        cohort |-> registry'.cohort, state |-> registry'.state]
        /\ registry'.records = registry.records /\ registry'.cohort = registry.cohort
        /\ registry'.state = "poisoned"
    BY <1>1, <2>1
  <2>3. SentWork' BY <2>1, <2>2 DEF MemoryInv, SentWork, Records
  <2>4. PayloadsStill BY <1>2, <2>2 DEF PayloadsStill
  <2> QED BY <1>1, <2>2, <2>3, <2>4, StillKeeps
<1>4. CASE CompletionFits(CompletionBytes(Cardinality(batch)))
  <2> DEFINE records == [i \in Records |->
                           IF i \in batch
                           THEN Issued(registry.records[i], role)
                           ELSE registry.records[i]]
             x == [role |-> role, worker |-> w, batch |-> batch, at |-> done.next,
                   stage |-> "sent"]
  <2>1. registry' = [registry EXCEPT !.records = records] /\ sent' = sent \cup {x}
    BY <1>4 DEF IssueWork
  <2>2. \A i \in Records : records[i] \in RecordShapes
    <3>1. TAKE i \in Records
    <3>2. registry.records[i] \in RecordShapes BY <1>1 DEF Records
    <3>3. Issued(registry.records[i], role) \in RecordShapes
      BY <3>2 DEF RecordShapes, Issued
    <3> QED BY <3>2, <3>3
  <2>3. records = [i \in 1 .. Len(registry.records) |-> records[i]] BY Zenon DEF Records
  <2> HIDE DEF records
  <2>4. records \in Seq(RecordShapes) /\ Len(records) = Len(registry.records)
    BY <1>1, <2>2, <2>3, RecordsMapped DEF Records
  <2>5. /\ registry' = [records |-> registry'.records, used |-> registry'.used,
                        cohort |-> registry'.cohort, state |-> registry'.state]
        /\ registry'.records = records /\ registry'.cohort = registry.cohort
        /\ registry'.state = "open"
    BY <1>1, <1>2, <2>1
  <2>6. Records' = Records BY <2>4, <2>5 DEF Records
  <2>7. SentWork' BY <2>1, <2>5, <2>6 DEF MemoryInv, SentWork
  <2>8. PayloadsStill BY <1>2, <2>5 DEF PayloadsStill
  <2> QED BY <2>4, <2>5, <2>7, <2>8, StillKeeps
<1> QED BY <1>3, <1>4

\* The tokens of a row are bounded by three numbers; the least is one.
LEMMA LeastOfThree ==
    ASSUME NEW a \in Int, NEW b \in Int, NEW c \in Int
    PROVE  Min({a, b, c}) \in Int
<1>1. \E x \in {a, b, c} : \A y \in {a, b, c} : x <= y OBVIOUS
<1>2. Min({a, b, c}) \in {a, b, c} BY <1>1 DEF Min
<1> QED BY <1>2

\* SharedTokenArena.append_reserved changes how far the output has come, and
\* neither the request nor its rounds.
LEMMA AppendedRecord ==
    ASSUME NEW r \in RecordShapes, NEW n \in Int, NEW stop \in BOOLEAN
    PROVE  /\ Appended(r, n, stop) \in RecordShapes
           /\ Appended(r, n, stop).shape = r.shape
           /\ Appended(r, n, stop).drafts = r.drafts
           /\ Appended(r, n, stop).targets = r.targets
<1> DEFINE d == r.shape.depth + 1
           e == r.shape.new - r.count
           count == r.count + Min({n, d, e})
<1>1. /\ r.count \in Int /\ r.finished \in BOOLEAN
      /\ r.shape.depth \in Nat /\ r.shape.new \in Nat
  BY MemoryAssumption DEF RecordShapes
<1>2. Min({n, d, e}) \in Int
  <2>1. d \in Int /\ e \in Int BY <1>1
  <2> HIDE DEF d, e
  <2> QED BY <2>1, LeastOfThree
<1>3. count \in Int BY <1>1, <1>2
<1>4. Appended(r, n, stop) = [r EXCEPT !.count = count, !.finished = @ \/ count = r.shape.new \/ stop]
  BY DEF Appended
<1> HIDE DEF count
<1> QED BY <1>1, <1>3, <1>4 DEF RecordShapes

\* The end of a WORK moves no payload: the output region was reserved.
LEMMA CompleteKeeps ==
    ASSUME MemoryInv, NEW x \in sent, Complete(x)
    PROVE  MemoryInv'
<1>1. /\ registry.records \in Seq(RecordShapes) /\ Len(registry.records) \in Nat
      /\ registry = [records |-> registry.records, used |-> registry.used,
                     cohort |-> registry.cohort, state |-> registry.state]
      /\ registry.cohort \in Nat \ {0}
  BY RegistryForm
<1>2. /\ registry.state = "open" /\ UNCHANGED <<segment, engine, worker, handles>>
      /\ sent' = sent \ {x}
  BY DEF Complete, Running
<1>3. CASE registry' = [registry EXCEPT !.state = "worker failed"]
  <2>1. /\ registry' = [records |-> registry'.records, used |-> registry'.used,
                        cohort |-> registry'.cohort, state |-> registry'.state]
        /\ registry'.records = registry.records /\ registry'.cohort = registry.cohort
        /\ registry'.state = "worker failed"
    BY <1>1, <1>3
  <2>2. SentWork' BY <1>2, <2>1 DEF MemoryInv, SentWork, Records
  <2>3. PayloadsStill BY <1>2, <2>1 DEF PayloadsStill
  <2> QED BY <1>1, <2>1, <2>2, <2>3, StillKeeps
<1>4. CASE UNCHANGED registry
  <2>1. SentWork' BY <1>2, <1>4 DEF MemoryInv, SentWork, Records
  <2>2. PayloadsStill BY <1>2, <1>4 DEF PayloadsStill
  <2> QED BY <1>1, <1>4, <2>1, <2>2, StillKeeps
<1>5. CASE \E n \in AppendSizes, stop \in BOOLEAN :
              registry' = [registry EXCEPT !.records = [i \in Records |->
                  IF i \in x.batch /\ ~ registry.records[i].finished
                  THEN Appended(registry.records[i], n, stop)
                  ELSE registry.records[i]]]
  <2>1. PICK n \in AppendSizes, stop \in BOOLEAN :
              registry' = [registry EXCEPT !.records = [i \in Records |->
                  IF i \in x.batch /\ ~ registry.records[i].finished
                  THEN Appended(registry.records[i], n, stop)
                  ELSE registry.records[i]]]
    BY <1>5
  <2> DEFINE records == [i \in Records |->
                           IF i \in x.batch /\ ~ registry.records[i].finished
                           THEN Appended(registry.records[i], n, stop)
                           ELSE registry.records[i]]
  <2>2. n \in Int BY DEF AppendSizes
  <2>3. \A i \in Records : records[i] \in RecordShapes
    <3>1. TAKE i \in Records
    <3>2. registry.records[i] \in RecordShapes BY <1>1 DEF Records
    <3>3. Appended(registry.records[i], n, stop) \in RecordShapes BY <2>2, <3>2, AppendedRecord
    <3> QED BY <3>2, <3>3
  <2>4. records = [i \in 1 .. Len(registry.records) |-> records[i]] BY Zenon DEF Records
  <2>5. registry' = [registry EXCEPT !.records = records] BY <2>1, Zenon
  <2> HIDE DEF records
  <2>6. records \in Seq(RecordShapes) /\ Len(records) = Len(registry.records)
    BY <1>1, <2>3, <2>4, RecordsMapped DEF Records
  <2>7. /\ registry' = [records |-> registry'.records, used |-> registry'.used,
                        cohort |-> registry'.cohort, state |-> registry'.state]
        /\ registry'.records = records /\ registry'.cohort = registry.cohort
        /\ registry'.state = "open"
    BY <1>1, <1>2, <2>5
  <2>8. Records' = Records BY <2>6, <2>7 DEF Records
  <2>9. SentWork' BY <1>2, <2>7, <2>8 DEF MemoryInv, SentWork
  <2>10. PayloadsStill BY <1>2, <2>7 DEF PayloadsStill
  <2> QED BY <2>6, <2>7, <2>9, <2>10, StillKeeps
<1> QED BY <1>3, <1>4, <1>5 DEF Complete

\* DraftPublisher.reserve: one payload in each arena of the worker, behind what
\* it published; the other arenas stay.
LEMMA ReserveKeeps ==
    ASSUME MemoryInv, NEW x \in sent, ReservePayloads(x)
    PROVE  MemoryInv'
<1> DEFINE mine == {a \in DraftArenas : a[2] = x.worker}
           size(a) == DraftBytes(x, a[1])
           added(a) == Handle(a, worker[a], size(a))
           more == {added(a) : a \in mine}
<1>1. /\ registry.records \in Seq(RecordShapes) /\ Len(registry.records) \in Nat
      /\ registry = [records |-> registry.records, used |-> registry.used,
                     cohort |-> registry.cohort, state |-> registry.state]
      /\ registry.cohort \in Nat \ {0}
  BY RegistryForm
<1>2. registry.state = "open" /\ UNCHANGED engine BY DEF ReservePayloads, Running
<1>3. x.batch \in SUBSET Records BY DEF MemoryInv, SentWork
<1>4. \A a \in DraftArenas : size(a) \in Nat
  BY <1>3, DraftBytesNatural DEF MemoryInv
<1>5. \A a \in DraftArenas : worker[a] \in AttachmentShapes /\ a \in Arenas
  BY ArenaFacts DEF MemoryInv, MemoryShape
<1> HIDE DEF size
<1>6. CASE /\ registry' = [registry EXCEPT !.state = "worker failed"]
           /\ UNCHANGED <<worker, segment, handles, sent>>
  <2>1. /\ registry' = [records |-> registry'.records, used |-> registry'.used,
                        cohort |-> registry'.cohort, state |-> registry'.state]
        /\ registry'.records = registry.records /\ registry'.cohort = registry.cohort
        /\ registry'.state = "worker failed"
    BY <1>1, <1>6
  <2>2. SentWork' BY <1>6, <2>1 DEF MemoryInv, SentWork, Records
  <2>3. PayloadsStill BY <1>2, <1>6, <2>1 DEF PayloadsStill
  <2> QED BY <1>1, <2>1, <2>2, <2>3, StillKeeps
<1>7. CASE /\ worker' = [a \in DraftArenas |->
                            IF a \in mine THEN Advanced(worker[a], size(a)) ELSE worker[a]]
           /\ segment' = [a \in Arenas |->
                            IF a \in mine THEN Advanced(worker[a], size(a)).head ELSE segment[a]]
           /\ handles' = [handles EXCEPT !.live = @ \cup more]
           /\ sent' = (sent \ {x}) \cup {[x EXCEPT !.stage = "reserved"]}
           /\ UNCHANGED registry
  <2>1. \A a \in DraftArenas :
          /\ added(a) = [arena |-> a, generation |-> worker[a].generation,
                         lo |-> worker[a].head, hi |-> worker[a].head + size(a)]
          /\ added(a) \in HandleShapes
          /\ Advanced(worker[a], size(a)) =
               [generation |-> worker[a].generation, head |-> worker[a].head + size(a)]
    <3>1. TAKE a \in DraftArenas
    <3>2. worker[a] \in AttachmentShapes /\ a \in Arenas /\ size(a) \in Nat BY <1>4, <1>5
    <3> QED BY <3>2 DEF Handle, Advanced, AttachmentShapes, HandleShapes
  <2>2. \A a \in DraftArenas :
          worker[a].head \in Nat /\ worker[a].generation \in Nat /\ worker[a].head = segment[a]
    BY <1>5 DEF AttachmentShapes, MemoryInv, HeadsPublished
  <2> HIDE DEF added, mine
  <2>3. \A a \in mine : a \in DraftArenas /\ a \in Arenas BY <1>5 DEF mine
  <2>4. /\ segment \in [Arenas -> Nat] /\ handles.live \in SUBSET HandleShapes
        /\ worker \in [DraftArenas -> AttachmentShapes]
        /\ handles = [live |-> handles.live, retired |-> handles.retired]
    BY DEF MemoryInv, MemoryShape
  <2>5. \A a \in DraftArenas :
          /\ worker'[a] \in AttachmentShapes
          /\ worker'[a].generation = worker[a].generation
          /\ worker'[a].head = segment'[a]
          /\ segment'[a] \in Nat /\ segment[a] <= segment'[a]
          /\ a \in mine => segment'[a] = worker[a].head + size(a)
    <3>1. TAKE a \in DraftArenas
    <3>2. a \in Arenas BY <1>5
    <3>3. CASE a \in mine
      <4>1. /\ worker'[a] = [generation |-> worker[a].generation, head |-> worker[a].head + size(a)]
            /\ segment'[a] = worker[a].head + size(a)
        BY <1>7, <2>1, <3>2, <3>3
      <4> QED BY <1>4, <2>2, <4>1 DEF AttachmentShapes
    <3>4. CASE a \notin mine
      <4>1. worker'[a] = worker[a] /\ segment'[a] = segment[a] BY <1>7, <3>2, <3>4
      <4> QED BY <1>5, <2>2, <3>4, <4>1
    <3> QED BY <3>3, <3>4
  <2>6. \A a \in EngineArenas : a \in Arenas /\ segment'[a] = segment[a]
    <3>1. \A a \in EngineArenas : a \in Arenas /\ a \notin mine BY <2>3, ArenaFacts
    <3> QED BY <1>7, <3>1
  <2>7. segment' \in [Arenas -> Nat] /\ \A a \in Arenas : segment[a] <= segment'[a]
    <3>1. \A a \in Arenas : segment'[a] \in Nat /\ segment[a] <= segment'[a]
      BY <2>4, <2>5, <2>6 DEF Arenas
    <3>2. segment' = [a \in Arenas |-> segment'[a]] BY <1>7, Zenon
    <3> QED BY <3>1, <3>2
  <2>8. worker' \in [DraftArenas -> AttachmentShapes]
    <3>1. worker' = [a \in DraftArenas |-> worker'[a]] BY <1>7, Zenon
    <3> QED BY <2>5, <3>1
  <2>9. more \in SUBSET HandleShapes BY <2>1, <2>3
  <2>10. /\ handles' = [live |-> handles'.live, retired |-> handles'.retired]
         /\ handles'.live = handles.live \cup more
         /\ handles'.retired = handles.retired
    BY <1>7, <2>4
  <2>11. MemoryShape'
    BY <1>1, <1>2, <1>7, <2>7, <2>8, <2>9, <2>10 DEF MemoryInv, MemoryShape
  <2>12. SentWork' BY <1>2, <1>7 DEF MemoryInv, SentWork, Records
  <2>13. Namespaces'
    <3>1. \A a \in Arenas : engine[a].generation = FirstGeneration(a) + 2 * (registry.cohort - 1)
      BY DEF MemoryInv, Namespaces
    <3>2. \A a \in DraftArenas : worker[a].generation = engine[a].generation
      BY DEF MemoryInv, Namespaces
    <3>3. \A a \in DraftArenas : worker'[a].generation = engine'[a].generation
      BY <1>2, <2>5, <3>2
    <3> QED BY <1>2, <1>7, <3>1, <3>3 DEF Namespaces
  <2>14. HeadsPublished' BY <1>2, <2>5, <2>6 DEF MemoryInv, HeadsPublished
  <2>15. \A h \in more : /\ h.arena \in mine /\ h.generation = worker[h.arena].generation
                         /\ h.lo = worker[h.arena].head
                         /\ h.hi = worker[h.arena].head + size(h.arena)
                         /\ h = added(h.arena)
    <3> SUFFICES ASSUME NEW h \in more
                 PROVE  /\ h.arena \in mine /\ h.generation = worker[h.arena].generation
                        /\ h.lo = worker[h.arena].head
                        /\ h.hi = worker[h.arena].head + size(h.arena)
                        /\ h = added(h.arena)
      OBVIOUS
    <3>1. PICK a \in mine : h = added(a) OBVIOUS
    <3>2. added(a) = [arena |-> a, generation |-> worker[a].generation,
                      lo |-> worker[a].head, hi |-> worker[a].head + size(a)]
      BY <2>1, <2>3
    <3>3. h.arena = a BY <3>1, <3>2
    <3> QED BY <3>1, <3>2, <3>3
  <2>16. \A h \in handles'.live : /\ h.generation = engine'[h.arena].generation
                                  /\ h.lo <= h.hi /\ h.hi <= segment'[h.arena]
    <3>1. SUFFICES ASSUME NEW h \in handles'.live
                   PROVE  /\ h.generation = engine'[h.arena].generation
                          /\ h.lo <= h.hi /\ h.hi <= segment'[h.arena]
      OBVIOUS
    <3>2. CASE h \in more
      <4>1. h.arena \in DraftArenas BY <2>3, <2>15, <3>2
      <4>2. worker[h.arena].generation = engine[h.arena].generation
        BY <4>1 DEF MemoryInv, Namespaces
      <4>3. segment'[h.arena] = worker[h.arena].head + size(h.arena) BY <2>5, <2>15, <3>2, <4>1
      <4>4. worker[h.arena].head \in Nat /\ size(h.arena) \in Nat BY <1>4, <2>2, <4>1
      <4> QED BY <1>2, <2>15, <3>2, <4>2, <4>3, <4>4
    <3>3. CASE h \in handles.live
      <4>1. h.arena \in Arenas /\ h.hi \in Nat BY <2>4, <3>3 DEF HandleShapes
      <4>2. /\ h.generation = engine[h.arena].generation
            /\ h.lo <= h.hi /\ h.hi <= segment[h.arena]
        BY <3>3 DEF MemoryInv, LiveHandles
      <4>3. segment[h.arena] \in Nat /\ segment'[h.arena] \in Nat
            /\ segment[h.arena] <= segment'[h.arena]
        BY <2>4, <2>7, <4>1
      <4> QED BY <1>2, <4>1, <4>2, <4>3
    <3> QED BY <2>10, <3>1, <3>2, <3>3
  <2>17. Apart(handles'.live)
    <3>1. Above(more, segment)
      <4>1. SUFFICES ASSUME NEW h \in more PROVE segment[h.arena] <= h.lo /\ h.lo <= h.hi
        BY DEF Above
      <4>2. h.arena \in DraftArenas BY <2>3, <2>15
      <4> QED BY <1>4, <2>2, <2>15, <4>2
    <3>2. Apart(more)
      <4>1. \A h, g \in more : g.arena = h.arena => g = h BY <2>15, Zenon
      <4> HIDE DEF more
      <4> QED BY <4>1, Zenon DEF Apart
    <3>3. Below(handles.live, segment) /\ Apart(handles.live)
      BY DEF MemoryInv, LiveHandles, Below
    <3> HIDE DEF more
    <3>4. Apart(handles.live \cup more) BY <2>4, <2>9, <3>1, <3>2, <3>3, HandlesAdded
    <3> QED BY <2>10, <3>4, Zenon
  <2>18. RetiredHandles' BY <1>7, <2>10 DEF MemoryInv, RetiredHandles
  <2> QED BY <2>11, <2>12, <2>13, <2>14, <2>16, <2>17, <2>18 DEF MemoryInv, LiveHandles
<1> QED
  <2>1. \/ /\ registry' = [registry EXCEPT !.state = "worker failed"]
           /\ UNCHANGED <<worker, segment, handles, sent>>
        \/ /\ worker' = [a \in DraftArenas |->
                            IF a \in mine THEN Advanced(worker[a], size(a)) ELSE worker[a]]
           /\ segment' = [a \in Arenas |->
                            IF a \in mine THEN Advanced(worker[a], size(a)).head ELSE segment[a]]
           /\ handles' = [handles EXCEPT !.live = @ \cup more]
           /\ sent' = (sent \ {x}) \cup {[x EXCEPT !.stage = "reserved"]}
           /\ UNCHANGED registry
    BY Zenon DEF ReservePayloads, size
  <2> QED BY <1>6, <1>7, <2>1

\* Retiring moves no payload, and no WORK is out.
LEMMA RetireKeeps ==
    ASSUME MemoryInv, Retire
    PROVE  MemoryInv'
<1>1. /\ registry.records \in Seq(RecordShapes) /\ Len(registry.records) \in Nat
      /\ registry = [records |-> registry.records, used |-> registry.used,
                     cohort |-> registry.cohort, state |-> registry.state]
      /\ registry.cohort \in Nat \ {0}
  BY RegistryForm
<1>2. /\ registry' = [registry EXCEPT !.state = "retiring"] /\ sent = {}
      /\ UNCHANGED <<segment, engine, worker, handles, sent>>
  BY DEF Retire
<1>3. /\ registry' = [records |-> registry'.records, used |-> registry'.used,
                      cohort |-> registry'.cohort, state |-> registry'.state]
      /\ registry'.records = registry.records /\ registry'.cohort = registry.cohort
  BY <1>1, <1>2
<1>4. SentWork' BY <1>2 DEF SentWork
<1>5. PayloadsStill BY <1>2, <1>3 DEF PayloadsStill
<1> QED BY <1>1, <1>3, <1>4, <1>5, StillKeeps

\* recycle_payloads: every generation moves by the stride, every arena is empty
\* for its next writer, and the handles of the cohort become old ones.
LEMMA RecycleKeeps ==
    ASSUME MemoryInv, RecycleCohort
    PROVE  MemoryInv'
<1>1. /\ registry.state = "retiring" /\ sent = {} /\ sent' = sent
      /\ registry' = [records |-> <<>>, used |-> NothingUsed, cohort |-> registry.cohort + 1,
                      state |-> "open"]
      /\ engine' = [a \in Arenas |-> RecycleArena(engine[a])]
      /\ segment' = [a \in Arenas |-> Republished(a)]
      /\ worker' = [a \in DraftArenas |-> Attach(RecycleArena(engine[a]), Republished(a))]
      /\ handles' = [live |-> {}, retired |-> handles.retired \cup handles.live]
  BY DEF RecycleCohort, MemoryInv, SentWork
<1>2. /\ engine \in [Arenas -> AttachmentShapes] /\ segment \in [Arenas -> Nat]
      /\ registry.cohort \in Nat \ {0}
      /\ handles.live \in SUBSET HandleShapes /\ handles.retired \in SUBSET HandleShapes
  BY DEF MemoryInv, MemoryShape
<1>3. \A a \in Arenas : /\ engine'[a] = [generation |-> engine[a].generation + 2, head |-> 0]
                        /\ engine[a].generation \in Nat
                        /\ segment'[a] = Republished(a) /\ Republished(a) \in Nat
  BY <1>1, <1>2 DEF RecycleArena, Stride, Republished, AttachmentShapes
<1>4. \A a \in DraftArenas :
        /\ a \in Arenas
        /\ worker'[a] = [generation |-> engine[a].generation + 2, head |-> Republished(a)]
  <2>1. \A a \in DraftArenas : a \in Arenas BY ArenaFacts
  <2> QED BY <1>1, <2>1 DEF RecycleArena, Stride, Attach
<1>5. MemoryShape'
  <2>1. engine' \in [Arenas -> AttachmentShapes]
    <3>1. engine' = [a \in Arenas |-> engine'[a]] BY <1>1, Zenon
    <3> QED BY <1>3, <3>1 DEF AttachmentShapes
  <2>2. worker' \in [DraftArenas -> AttachmentShapes]
    <3>1. worker' = [a \in DraftArenas |-> worker'[a]] BY <1>1, Zenon
    <3>2. \A a \in DraftArenas : worker'[a] \in AttachmentShapes
      <4>1. TAKE a \in DraftArenas
      <4>2. /\ worker'[a] = [generation |-> engine[a].generation + 2, head |-> Republished(a)]
            /\ engine[a].generation \in Nat /\ Republished(a) \in Nat
        BY <1>3, <1>4
      <4> QED BY <4>2 DEF AttachmentShapes
    <3> QED BY <3>1, <3>2
  <2>3. segment' \in [Arenas -> Nat]
    <3>1. segment' = [a \in Arenas |-> segment'[a]] BY <1>1, Zenon
    <3> QED BY <1>3, <3>1
  <2> QED BY <1>1, <1>2, <2>1, <2>2, <2>3 DEF MemoryShape
<1>6. SentWork' BY <1>1 DEF SentWork
<1>7. Namespaces'
  <2>1. \A a \in Arenas : engine[a].generation = FirstGeneration(a) + 2 * (registry.cohort - 1)
    BY DEF MemoryInv, Namespaces
  <2>2. \A a \in Arenas : FirstGeneration(a) \in Nat BY ArenaFacts
  <2>3. registry'.cohort = registry.cohort + 1 BY <1>1
  <2>4. \A a \in Arenas : engine'[a].generation = FirstGeneration(a) + 2 * (registry'.cohort - 1)
    <3>1. TAKE a \in Arenas
    <3>2. engine'[a].generation = engine[a].generation + 2
      <4>1. engine'[a] = [generation |-> engine[a].generation + 2, head |-> 0] BY <1>3
      <4> QED BY <4>1
    <3>3. engine[a].generation = FirstGeneration(a) + 2 * (registry.cohort - 1) BY <2>1
    <3>4. FirstGeneration(a) \in Nat BY <2>2
    <3> QED BY <1>2, <2>3, <3>2, <3>3, <3>4
  <2>5. \A a \in DraftArenas : worker'[a].generation = engine'[a].generation
    <3>1. TAKE a \in DraftArenas
    <3>2. worker'[a] = [generation |-> engine[a].generation + 2, head |-> Republished(a)] BY <1>4
    <3>3. engine'[a] = [generation |-> engine[a].generation + 2, head |-> 0] BY <1>3, <1>4
    <3> QED BY <3>2, <3>3
  <2> QED BY <2>4, <2>5 DEF Namespaces
<1>8. HeadsPublished'
  <2>1. \A a \in EngineArenas : a \in Arenas /\ Republished(a) = 0 BY ArenaFacts DEF Republished
  <2>2. \A a \in EngineArenas : engine'[a].head = segment'[a]
    <3>1. TAKE a \in EngineArenas
    <3>2. engine'[a] = [generation |-> engine[a].generation + 2, head |-> 0] BY <1>3, <2>1
    <3>3. segment'[a] = 0 BY <1>3, <2>1
    <3> QED BY <3>2, <3>3
  <2>3. \A a \in DraftArenas : worker'[a].head = segment'[a]
    <3>1. TAKE a \in DraftArenas
    <3>2. worker'[a] = [generation |-> engine[a].generation + 2, head |-> Republished(a)] BY <1>4
    <3>3. segment'[a] = Republished(a) BY <1>3, <1>4
    <3> QED BY <3>2, <3>3
  <2> QED BY <2>2, <2>3 DEF HeadsPublished
<1>9. LiveHandles' BY <1>1 DEF LiveHandles, Apart
<1>10. RetiredHandles'
  <2>1. SUFFICES ASSUME NEW h \in handles.retired \cup handles.live
                 PROVE  h.generation <= FirstGeneration(h.arena) + 2 * (registry'.cohort - 2)
    BY <1>1 DEF RetiredHandles
  <2>2. h.arena \in Arenas /\ h.generation \in Nat BY <1>2, <2>1 DEF HandleShapes
  <2>3. FirstGeneration(h.arena) \in Nat BY <2>2, ArenaFacts
  <2>4. registry'.cohort = registry.cohort + 1 BY <1>1
  <2>5. CASE h \in handles.retired
    <3>1. h.generation <= FirstGeneration(h.arena) + 2 * (registry.cohort - 2)
      BY <2>5 DEF MemoryInv, RetiredHandles
    <3> QED BY <1>2, <2>2, <2>3, <2>4, <3>1
  <2>6. CASE h \in handles.live
    <3>1. h.generation = engine[h.arena].generation
      BY <2>6 DEF MemoryInv, LiveHandles
    <3>2. engine[h.arena].generation = FirstGeneration(h.arena) + 2 * (registry.cohort - 1)
      BY <2>2 DEF MemoryInv, Namespaces
    <3> QED BY <1>2, <2>2, <2>3, <2>4, <3>1, <3>2
  <2> QED BY <2>1, <2>5, <2>6
<1> QED BY <1>5, <1>6, <1>7, <1>8, <1>9, <1>10 DEF MemoryInv

\* Every step of a session keeps the invariant.
LEMMA MemoryStep == MemoryInv /\ [MemoryNext]_memoryVars => MemoryInv'
<1> SUFFICES ASSUME MemoryInv, [MemoryNext]_memoryVars PROVE MemoryInv' OBVIOUS
<1>1. CASE UNCHANGED memoryVars
  BY <1>1 DEF memoryVars, MemoryInv, MemoryShape, SentWork, Records, Namespaces, HeadsPublished,
              LiveHandles, RetiredHandles
<1>2. CASE \E shape \in Shapes : Admit(shape) BY <1>2, AdmitKeeps
<1>3. \A b \in UNION {Batches("draft"), Batches("target")} : b \in SUBSET Records
  BY DEF Batches, ActiveRequests
<1>4. CASE \E w \in DraftIds, b \in Batches("draft") : IssueWork("draft", w, b)
  <2>1. PICK w \in DraftIds, b \in Batches("draft") : IssueWork("draft", w, b) BY <1>4
  <2>2. b \in SUBSET Records /\ "draft" \in Kinds BY <1>3 DEF Kinds
  <2> QED BY <2>1, <2>2, IssueKeeps
<1>5. CASE \E b \in Batches("target") : IssueWork("target", -1, b)
  <2>1. PICK b \in Batches("target") : IssueWork("target", -1, b) BY <1>5
  <2>2. b \in SUBSET Records /\ "target" \in Kinds BY <1>3 DEF Kinds
  <2> QED BY <2>1, <2>2, IssueKeeps
<1>6. CASE \E x \in sent : ReservePayloads(x) \/ Complete(x)
  BY <1>6, ReserveKeeps, CompleteKeeps
<1>7. CASE Retire BY <1>7, RetireKeeps
<1>8. CASE RecycleCohort BY <1>8, RecycleKeeps
<1> QED BY <1>1, <1>2, <1>4, <1>5, <1>6, <1>7, <1>8 DEF MemoryNext

\* In every state of a session the arenas, their generations and the handles
\* stand in this relation, for any requests, workers, capacities and number of
\* cohorts.
THEOREM MemoryInvariant == MemorySpec => []MemoryInv
  BY MemoryStarts, MemoryStep, PTL DEF MemorySpec

-----------------------------------------------------------------------------
\* ArenaRouter: generations of one cohort differ between the arenas of a kind, so
\* only the arena of the handle accepts it.
LEMMA LivePayloads == MemoryInv => PayloadsIntact
<1> SUFFICES ASSUME MemoryInv, NEW h \in handles.live
             PROVE  /\ Readable(h) = {h.arena}
                    /\ \A g \in handles.live \ {h} :
                         g.arena = h.arena => g.hi <= h.lo \/ h.hi <= g.lo
  BY DEF PayloadsIntact
<1>1. h.arena \in Arenas BY DEF MemoryInv, MemoryShape, HandleShapes
<1>2. h.generation = engine[h.arena].generation /\ h.hi <= segment[h.arena]
  BY DEF MemoryInv, LiveHandles
<1>3. \A a \in Readable(h) : a = h.arena
  <2>1. SUFFICES ASSUME NEW a \in Arenas, a[1] = h.arena[1],
                        engine[a].generation = engine[h.arena].generation
                 PROVE  a = h.arena
    BY <1>2 DEF Readable, ValidHandle
  <2>2. registry.cohort \in Nat BY DEF MemoryInv, MemoryShape
  <2>3. FirstGeneration(a) = FirstGeneration(h.arena)
    <3>1. FirstGeneration(a) \in Nat /\ FirstGeneration(h.arena) \in Nat BY <1>1, ArenaFacts
    <3>2. /\ engine[a].generation = FirstGeneration(a) + 2 * (registry.cohort - 1)
          /\ engine[h.arena].generation = FirstGeneration(h.arena) + 2 * (registry.cohort - 1)
      BY <1>1 DEF MemoryInv, Namespaces
    <3>3. FirstGeneration(a) + 2 * (registry.cohort - 1)
            = FirstGeneration(h.arena) + 2 * (registry.cohort - 1)
      BY <2>1, <3>2
    <3> DEFINE f == FirstGeneration(a)
               g == FirstGeneration(h.arena)
               k == 2 * (registry.cohort - 1)
    <3>4. f \in Nat /\ g \in Nat /\ k \in Int /\ f + k = g + k BY <2>2, <3>1, <3>3
    <3> HIDE DEF f, g, k
    <3>5. f = g BY <3>4
    <3> QED BY <3>5 DEF f, g
  <2>4. a[2] = h.arena[2]
    <3>1. CASE a \in EngineArenas /\ h.arena \in EngineArenas BY <3>1, ArenaFacts
    <3>2. CASE a \in DraftArenas /\ h.arena \in DraftArenas
      <4>1. /\ FirstGeneration(a) = a[2] + 1 /\ FirstGeneration(h.arena) = h.arena[2] + 1
            /\ a[2] \in Nat /\ h.arena[2] \in Nat
        BY <3>2, ArenaFacts, MemoryAssumption
      <4>2. a[2] + 1 = h.arena[2] + 1 BY <2>3, <4>1, Zenon
      <4> QED BY <4>1, <4>2
    <3>3. /\ \A b \in EngineArenas : b[1] \in {"tokens", "configs"}
          /\ \A b \in DraftArenas : b[1] \in {"proposals", "snapshots"}
      BY ArenaFacts
    <3> QED BY <1>1, <2>1, <3>1, <3>2, <3>3 DEF Arenas
  <2> QED BY <1>1, <2>1, <2>4, ArenaFacts
<1>4. h.arena \in Readable(h) BY <1>1, <1>2 DEF Readable, ValidHandle
<1>5. Apart(handles.live) BY DEF MemoryInv, LiveHandles
<1> QED BY <1>3, <1>4, <1>5 DEF Apart

\* The name spaces of the workers are less than a stride apart.  The generation of
\* a worker's arenas starts at its id plus one and moves by ControlResources.
\* recycle_payloads' stride (len(tokens) + 1, two with one Target process), so with
\* worker ids further apart the old handle of one worker is the new one of another.
NamespacesFit == \A d, e \in DraftIds : d - e < Stride

\* An old handle is two generations behind its own arena, and less than two
\* behind any other of its kind.
LEMMA OldPayloads == ASSUME NamespacesFit PROVE MemoryInv => RetiredHandlesRejected
<1> SUFFICES ASSUME MemoryInv, NEW h \in handles.retired, NEW a \in Readable(h) PROVE FALSE
  BY DEF RetiredHandlesRejected
<1>1. h.arena \in Arenas /\ h.generation \in Nat BY DEF MemoryInv, MemoryShape, HandleShapes
<1>2. a \in Arenas /\ a[1] = h.arena[1] /\ engine[a].generation = h.generation
  BY DEF Readable, ValidHandle
<1>3. registry.cohort \in Nat BY DEF MemoryInv, MemoryShape
<1>4. FirstGeneration(a) + 2 <= FirstGeneration(h.arena)
  <2>1. FirstGeneration(a) \in Nat /\ FirstGeneration(h.arena) \in Nat BY <1>1, <1>2, ArenaFacts
  <2>2. engine[a].generation = FirstGeneration(a) + 2 * (registry.cohort - 1)
    BY <1>2 DEF MemoryInv, Namespaces
  <2>3. h.generation <= FirstGeneration(h.arena) + 2 * (registry.cohort - 2)
    BY DEF MemoryInv, RetiredHandles
  <2> QED BY <1>2, <1>3, <2>1, <2>2, <2>3
<1>5. CASE a \in EngineArenas /\ h.arena \in EngineArenas
  <2>1. FirstGeneration(a) = 1 /\ FirstGeneration(h.arena) = 1 BY <1>5, ArenaFacts
  <2> QED BY <1>4, <2>1
<1>6. CASE a \in DraftArenas /\ h.arena \in DraftArenas
  <2>1. /\ FirstGeneration(a) = a[2] + 1 /\ FirstGeneration(h.arena) = h.arena[2] + 1
        /\ a[2] \in DraftIds /\ h.arena[2] \in DraftIds
    BY <1>6, ArenaFacts
  <2>2. h.arena[2] - a[2] < 2 BY <2>1 DEF NamespacesFit, Stride
  <2>3. a[2] \in Nat /\ h.arena[2] \in Nat BY <2>1, MemoryAssumption
  <2> QED BY <1>4, <2>1, <2>2, <2>3
<1>7. /\ \A b \in EngineArenas : b[1] \in {"tokens", "configs"}
      /\ \A b \in DraftArenas : b[1] \in {"proposals", "snapshots"}
  BY ArenaFacts
<1> QED BY <1>1, <1>2, <1>5, <1>6, <1>7 DEF Arenas

\* A payload is readable in the arena it was written to and only there, and no
\* other payload of the cohort is written over it, whatever requests and batches a
\* session has and whichever workers write (SharedTokenArena, DraftPublisher,
\* ArenaRouter).
THEOREM PayloadsAreIntact == MemorySpec => []PayloadsIntact
  BY MemoryInvariant, LivePayloads, PTL

\* A handle names one payload in its own cohort and nothing afterwards: recycling
\* fences the old payload handles (ControlResources.recycle_payloads), as long as
\* the name spaces of the workers are less than a stride apart.
THEOREM PayloadsAreNamed == NamespacesFit => (MemorySpec => []HandlesNamePayloads)
<1>1. ASSUME NamespacesFit PROVE MemoryInv => HandlesNamePayloads
  BY <1>1, LivePayloads, OldPayloads DEF HandlesNamePayloads
<1>2. SUFFICES ASSUME NamespacesFit PROVE MemorySpec => []HandlesNamePayloads
  OBVIOUS
<1>3. MemoryInv => HandlesNamePayloads BY <1>1, <1>2
<1> QED BY <1>3, MemoryInvariant, PTL

-----------------------------------------------------------------------------
\* Induction over the natural numbers, for the set of those that have a property.
LEMMA AllNumbers ==
    ASSUME NEW S \in SUBSET Nat, 0 \in S, \A m \in S : m + 1 \in S
    PROVE  \A m \in Nat : m \in S
<1>1. SUFFICES ASSUME NEW n \in Nat, n \notin S PROVE FALSE
  OBVIOUS
<1>2. PICK m \in Nat \ S : \A k \in Nat \ S : m <= k
  BY <1>1, LeastNumber
<1>3. m # 0 /\ m - 1 \in Nat
  BY <1>2
<1>4. m - 1 \in S
  BY <1>2, <1>3
<1> QED
  BY <1>2, <1>3, <1>4

\* The sums of w over nothing, 1, 1 .. 2 and so on, and the last of them.
Sums(w, n) == LET f[m \in 0 .. n] == IF m = 0 THEN 0 ELSE f[m - 1] + w[m] IN f
Total(w, n) == Sums(w, n)[n]
SumsTo(w, f, n) == [m \in 0 .. n |-> IF m = 0 THEN 0 ELSE f[m - 1] + w[m]]

\* They exist for every n: were there an n without them, the least would be one
\* more than an n with them.
LEMMA SumsExist ==
    ASSUME NEW n \in Nat, NEW w
    PROVE  \E f : f = SumsTo(w, f, n)
<1> DEFINE S == {k \in Nat : \E f : f = SumsTo(w, f, k)}
<1>1. 0 \in S
  <2>1. [m \in 0 .. 0 |-> 0] = SumsTo(w, [m \in 0 .. 0 |-> 0], 0)
    BY DEF SumsTo
  <2> QED
    BY <2>1
<1>2. ASSUME NEW k \in S PROVE k + 1 \in S
  <2>1. k \in Nat
    OBVIOUS
  <2>2. PICK f : f = SumsTo(w, f, k)
    OBVIOUS
  <2> DEFINE g == [m \in 0 .. k + 1 |-> IF m <= k THEN f[m] ELSE f[k] + w[k + 1]]
  <2>3. \A m \in 0 .. k : f[m] = IF m = 0 THEN 0 ELSE f[m - 1] + w[m]
    BY <2>2 DEF SumsTo
  <2>4. ASSUME NEW m \in 0 .. k + 1
        PROVE  g[m] = IF m = 0 THEN 0 ELSE g[m - 1] + w[m]
    <3>1. CASE m <= k
      <4>1. g[m] = f[m] /\ m \in 0 .. k
        BY <2>1, <3>1
      <4>2. m # 0 => m - 1 \in 0 .. k + 1 /\ m - 1 <= k
        BY <2>1, <3>1
      <4>3. m # 0 => g[m - 1] = f[m - 1]
        BY <4>2
      <4> QED
        BY <2>3, <4>1, <4>3
    <3>2. CASE m = k + 1
      <4>1. g[m] = f[k] + w[k + 1] /\ g[k] = f[k] /\ m - 1 = k /\ m # 0
        BY <2>1, <3>2
      <4> QED
        BY <3>2, <4>1
    <3> QED
      BY <2>1, <3>1, <3>2
  <2>5. g = [m \in 0 .. k + 1 |-> g[m]]
    OBVIOUS
  <2> HIDE DEF g
  <2>6. g = SumsTo(w, g, k + 1)
    BY <2>4, <2>5 DEF SumsTo
  <2> QED
    BY <2>1, <2>6
<1> HIDE DEF S
<1>3. S \in SUBSET Nat
  BY DEF S
<1>4. n \in S
  BY <1>1, <1>2, <1>3, AllNumbers
<1> QED
  BY <1>4 DEF S

\* Each sum is the one before with the next weight.
LEMMA SumsGrow ==
    ASSUME NEW n \in Nat, NEW w, \A i \in 1 .. n : w[i] \in Int
    PROVE  /\ Sums(w, n)[0] = 0
           /\ \A m \in 1 .. n : Sums(w, n)[m] = Sums(w, n)[m - 1] + w[m]
           /\ \A m \in 0 .. n : Sums(w, n)[m] \in Int
<1> DEFINE f == Sums(w, n)
<1>1. f = SumsTo(w, f, n)
  <2>1. f = CHOOSE g : g = SumsTo(w, g, n)
    BY Zenon DEF Sums, SumsTo
  <2> QED
    BY <2>1, SumsExist, Zenon
<1> HIDE DEF f
<1>2. \A m \in 0 .. n : f[m] = IF m = 0 THEN 0 ELSE f[m - 1] + w[m]
  BY <1>1, Zenon DEF SumsTo
<1>3. f[0] = 0
  BY <1>2
<1>4. \A m \in 1 .. n : f[m] = f[m - 1] + w[m]
  BY <1>2
<1> DEFINE S == {m \in Nat : m <= n => f[m] \in Int}
<1>5. 0 \in S
  BY <1>3
<1>6. ASSUME NEW m \in S PROVE m + 1 \in S
  <2>1. SUFFICES ASSUME m + 1 <= n PROVE f[m + 1] \in Int
    OBVIOUS
  <2>2. f[m] \in Int /\ m + 1 \in 1 .. n
    BY <2>1
  <2>3. f[m + 1] = f[m] + w[m + 1]
    BY <1>4, <2>2
  <2> QED
    BY <2>2, <2>3
<1> HIDE DEF S
<1>7. \A m \in Nat : m \in S
  <2>1. S \in SUBSET Nat
    BY DEF S
  <2> QED
    BY <1>5, <1>6, <2>1, AllNumbers
<1>8. \A m \in 0 .. n : f[m] \in Int
  BY <1>7 DEF S
<1> QED
  BY <1>3, <1>4, <1>8 DEF f

\* A sum of integers is an integer.
LEMMA TotalType ==
    ASSUME NEW n \in Nat, NEW w, \A i \in 1 .. n : w[i] \in Int
    PROVE  Total(w, n) \in Int
  BY SumsGrow DEF Total

\* The sum over an empty cohort.
LEMMA TotalOfNothing == \A w : Total(w, 0) = 0
<1> TAKE w
<1>1. Sums(w, 0)[0] = 0
  BY SumsGrow
<1> QED
  BY <1>1 DEF Total

\* A sum of greater weights is greater: what is written against what was charged.
LEMMA TotalRises ==
    ASSUME NEW n \in Nat, NEW u, NEW v,
           \A i \in 1 .. n : u[i] \in Int /\ v[i] \in Int /\ u[i] <= v[i]
    PROVE  Total(u, n) <= Total(v, n)
<1> DEFINE f == Sums(u, n)
           g == Sums(v, n)
           S == {m \in Nat : m <= n => f[m] <= g[m]}
<1>1. /\ f[0] = 0 /\ g[0] = 0
      /\ \A m \in 1 .. n : f[m] = f[m - 1] + u[m] /\ g[m] = g[m - 1] + v[m]
      /\ \A m \in 0 .. n : f[m] \in Int /\ g[m] \in Int
  BY SumsGrow
<1> HIDE DEF f, g
<1>2. 0 \in S
  BY <1>1
<1>3. ASSUME NEW m \in S PROVE m + 1 \in S
  <2>1. SUFFICES ASSUME m + 1 <= n PROVE f[m + 1] <= g[m + 1]
    OBVIOUS
  <2>2. m + 1 \in 1 .. n /\ m \in 0 .. n /\ f[m] <= g[m]
    BY <2>1
  <2>3. f[m + 1] = f[m] + u[m + 1] /\ g[m + 1] = g[m] + v[m + 1]
    BY <1>1, <2>2
  <2> QED
    BY <1>1, <2>2, <2>3
<1> HIDE DEF S
<1>4. n \in S
  BY <1>2, <1>3, AllNumbers, S \in SUBSET Nat DEF S
<1> QED
  BY <1>4 DEF S, Total, f, g

\* A sum depends on its weights only.
LEMMA TotalSame ==
    ASSUME NEW n \in Nat, NEW u, NEW v,
           \A i \in 1 .. n : u[i] \in Int /\ v[i] = u[i]
    PROVE  Total(u, n) = Total(v, n)
<1>1. Total(u, n) <= Total(v, n) /\ Total(v, n) <= Total(u, n)
  BY TotalRises
<1> QED
  BY <1>1, TotalType

\* Weights added one by one add up, as when a batch has written one round more.
LEMMA TotalAdds ==
    ASSUME NEW n \in Nat, NEW u, NEW v, NEW w,
           \A i \in 1 .. n : u[i] \in Int /\ v[i] \in Int /\ w[i] = u[i] + v[i]
    PROVE  Total(w, n) = Total(u, n) + Total(v, n)
<1> DEFINE f == Sums(u, n)
           g == Sums(v, n)
           h == Sums(w, n)
           S == {m \in Nat : m <= n => h[m] = f[m] + g[m]}
<1>1. /\ f[0] = 0 /\ g[0] = 0 /\ h[0] = 0
      /\ \A m \in 1 .. n : f[m] = f[m - 1] + u[m] /\ g[m] = g[m - 1] + v[m]
                           /\ h[m] = h[m - 1] + w[m]
      /\ \A m \in 0 .. n : f[m] \in Int /\ g[m] \in Int /\ h[m] \in Int
  BY SumsGrow
<1> HIDE DEF f, g, h
<1>2. 0 \in S
  BY <1>1
<1>3. ASSUME NEW m \in S PROVE m + 1 \in S
  <2>1. SUFFICES ASSUME m + 1 <= n PROVE h[m + 1] = f[m + 1] + g[m + 1]
    OBVIOUS
  <2>2. m + 1 \in 1 .. n /\ m \in 0 .. n /\ h[m] = f[m] + g[m]
    BY <2>1
  <2>3. f[m + 1] = f[m] + u[m + 1] /\ g[m + 1] = g[m] + v[m + 1] /\ h[m + 1] = h[m] + w[m + 1]
    BY <1>1, <2>2
  <2>4. w[m + 1] = u[m + 1] + v[m + 1] /\ u[m + 1] \in Int /\ v[m + 1] \in Int
    BY <2>2
  <2> QED
    BY <1>1, <2>2, <2>3, <2>4
<1> HIDE DEF S
<1>4. n \in S
  BY <1>2, <1>3, AllNumbers, S \in SUBSET Nat DEF S
<1> QED
  BY <1>4 DEF S, Total, f, g, h

\* A request behind the others adds its own weight, as an admission does.
LEMMA TotalOneMore ==
    ASSUME NEW n \in Nat, NEW u, NEW w, w[n + 1] \in Int,
           \A i \in 1 .. n : u[i] \in Int /\ w[i] = u[i]
    PROVE  Total(w, n + 1) = Total(u, n) + w[n + 1]
<1> DEFINE f == Sums(u, n)
           h == Sums(w, n + 1)
           S == {m \in Nat : m <= n => h[m] = f[m]}
<1>1. \A i \in 1 .. n + 1 : w[i] \in Int
  OBVIOUS
<1>2. /\ f[0] = 0 /\ h[0] = 0
      /\ \A m \in 1 .. n : f[m] = f[m - 1] + u[m]
      /\ \A m \in 1 .. n + 1 : h[m] = h[m - 1] + w[m]
  BY <1>1, SumsGrow, n + 1 \in Nat
<1> HIDE DEF f, h
<1>3. 0 \in S
  BY <1>2
<1>4. ASSUME NEW m \in S PROVE m + 1 \in S
  <2>1. SUFFICES ASSUME m + 1 <= n PROVE h[m + 1] = f[m + 1]
    OBVIOUS
  <2>2. m + 1 \in 1 .. n /\ m + 1 \in 1 .. n + 1 /\ h[m] = f[m]
    BY <2>1
  <2>3. f[m + 1] = f[m] + u[m + 1] /\ h[m + 1] = h[m] + w[m + 1]
    BY <1>2, <2>2
  <2> QED
    BY <2>2, <2>3
<1> HIDE DEF S
<1>5. n \in S
  BY <1>3, <1>4, AllNumbers, S \in SUBSET Nat DEF S
<1>6. h[n] = f[n]
  BY <1>5 DEF S
<1>7. h[n + 1] = h[n] + w[n + 1]
  BY <1>2, n + 1 \in 1 .. n + 1, (n + 1) - 1 = n
<1> QED
  BY <1>6, <1>7 DEF Total, f, h

\* A single weight that is not zero is the sum.
LEMMA TotalOfOne ==
    ASSUME NEW n \in Nat, NEW w, NEW k \in 1 .. n, w[k] \in Int,
           \A i \in 1 .. n : i # k => w[i] = 0
    PROVE  Total(w, n) = w[k]
<1> DEFINE h == Sums(w, n)
           S == {m \in Nat : m <= n => h[m] = IF m < k THEN 0 ELSE w[k]}
<1>1. \A i \in 1 .. n : w[i] \in Int
  OBVIOUS
<1>2. /\ h[0] = 0
      /\ \A m \in 1 .. n : h[m] = h[m - 1] + w[m]
  BY <1>1, SumsGrow
<1> HIDE DEF h
<1>3. 0 \in S
  BY <1>2
<1>4. ASSUME NEW m \in S PROVE m + 1 \in S
  <2>1. SUFFICES ASSUME m + 1 <= n PROVE h[m + 1] = IF m + 1 < k THEN 0 ELSE w[k]
    OBVIOUS
  <2>2. m + 1 \in 1 .. n /\ h[m] = IF m < k THEN 0 ELSE w[k]
    BY <2>1
  <2>3. h[m + 1] = h[m] + w[m + 1]
    BY <1>2, <2>2
  <2>4. CASE m + 1 = k
    BY <2>2, <2>3, <2>4
  <2>5. CASE m + 1 # k
    <3>1. w[m + 1] = 0
      BY <2>2, <2>5
    <3> QED
      BY <2>2, <2>3, <2>5, <3>1
  <2> QED
    BY <2>4, <2>5
<1> HIDE DEF S
<1>5. n \in S
  BY <1>3, <1>4, AllNumbers, S \in SUBSET Nat DEF S
<1> QED
  BY <1>5 DEF S, Total, h

\* The sum of w over a batch, as a sum over all records.
Of(w, s, n) == [i \in 1 .. n |-> IF i \in s THEN w[i] ELSE 0]

\* The recursive function that sums over the sets of a batch agrees with the sum
\* over all records.
LEMMA TotalOfBatch ==
    ASSUME NEW n \in Nat, NEW S \in SUBSET (1 .. n), NEW w, \A i \in 1 .. n : w[i] \in Int,
           NEW f, f = Added(w, f, SUBSET S)
    PROVE  f[S] = Total(Of(w, S, n), n)
<1>1. IsFiniteSet(S)
  <2>1. IsFiniteSet(1 .. n)
    BY FS_Interval
  <2> QED
    BY <2>1, FS_Subset
<1>2. /\ f[{}] = 0
      /\ \A s \in SUBSET S : s # {} => f[s] = w[Pick(s)] + f[s \ {Pick(s)}]
  <2>1. \A s \in SUBSET S : f[s] = IF s = {} THEN 0 ELSE w[Pick(s)] + f[s \ {Pick(s)}]
    BY Zenon DEF Added
  <2>2. {} \in SUBSET S
    OBVIOUS
  <2> QED
    BY <2>1, <2>2, Zenon
<1> DEFINE P == {m \in Nat : \A s \in SUBSET S : Cardinality(s) = m => f[s] = Total(Of(w, s, n), n)}
<1>3. 0 \in P
  <2>1. SUFFICES ASSUME NEW s \in SUBSET S, Cardinality(s) = 0
                 PROVE f[s] = Total(Of(w, s, n), n)
    OBVIOUS
  <2>2. s = {}
    BY <1>1, <2>1, FS_Subset, FS_EmptySet
  <2>3. \A i \in 1 .. n : Of(w, s, n)[i] = 0
    BY <2>2 DEF Of
  <2> DEFINE z == [i \in 1 .. n |-> 0]
             u == Of(w, s, n)
  <2>4. \A i \in 1 .. n : u[i] \in Int /\ z[i] \in Int /\ u[i] = z[i] + z[i]
    BY <2>3
  <2>5. \A i \in 1 .. n : z[i] \in Int /\ z[i] = z[i] + z[i]
    OBVIOUS
  <2> HIDE DEF z, u
  <2>6. Total(u, n) = Total(z, n) + Total(z, n) /\ Total(z, n) = Total(z, n) + Total(z, n)
    BY <2>4, <2>5, TotalAdds
  <2>7. Total(z, n) \in Int
    BY <2>4, TotalType
  <2> DEFINE a == Total(z, n)
             b == Total(u, n)
  <2>8. a \in Int /\ b = a + a /\ a = a + a
    BY <2>6, <2>7
  <2> HIDE DEF a, b
  <2>9. b = 0
    BY <2>8
  <2> QED
    BY <1>2, <2>2, <2>9 DEF b, u
<1>4. ASSUME NEW m \in P PROVE m + 1 \in P
  <2>1. SUFFICES ASSUME NEW s \in SUBSET S, Cardinality(s) = m + 1
                 PROVE f[s] = Total(Of(w, s, n), n)
    OBVIOUS
  <2>2. IsFiniteSet(s) /\ s # {}
    <3>1. m \in Nat /\ Cardinality(s) # 0
      BY <2>1
    <3>2. IsFiniteSet(s)
      BY <1>1, FS_Subset
    <3> QED
      BY <3>1, <3>2, FS_EmptySet
  <2> DEFINE x == Pick(s)
             t == s \ {x}
  <2>3. x \in s
    BY <2>2, Zenon DEF Pick
  <2> HIDE DEF x
  <2>4. Cardinality(t) = m
    <3>1. Cardinality(t) = Cardinality(s) - 1
      BY <2>2, <2>3, FS_RemoveElement
    <3> QED
      BY <2>1, <3>1
  <2>5. f[t] = Total(Of(w, t, n), n)
    BY <2>4
  <2>6. f[s] = w[x] + f[t]
    BY <1>2, <2>2, Zenon DEF x
  <2> DEFINE one == [i \in 1 .. n |-> IF i = x THEN w[i] ELSE 0]
  <2>7. x \in 1 .. n
    BY <2>3
  <2>8. one[x] = w[x] /\ one[x] \in Int /\ \A i \in 1 .. n : i # x => one[i] = 0
    BY <2>7
  <2>9. \A i \in 1 .. n : one[i] \in Int
    BY <2>8
  <2> HIDE DEF one
  <2>10. Total(one, n) = w[x]
    <3>1. Total(one, n) = one[x]
      BY <2>7, <2>8, TotalOfOne
    <3> QED
      BY <2>8, <3>1
  <2>11. \A i \in 1 .. n : /\ Of(w, t, n)[i] \in Int
                           /\ Of(w, s, n)[i] = one[i] + Of(w, t, n)[i]
    <3>1. TAKE i \in 1 .. n
    <3>2. CASE i = x
      BY <2>3, <2>8, <3>2 DEF Of
    <3>3. CASE i # x
      BY <2>8, <3>3 DEF Of
    <3> QED
      BY <3>2, <3>3
  <2>12. Total(Of(w, s, n), n) = Total(one, n) + Total(Of(w, t, n), n)
    BY <2>9, <2>11, TotalAdds
  <2> QED
    BY <2>5, <2>6, <2>10, <2>12
<1> HIDE DEF P
<1>5. \A m \in Nat : m \in P
  BY <1>3, <1>4, AllNumbers, P \in SUBSET Nat DEF P
<1>6. Cardinality(S) \in Nat
  BY <1>1, FS_CardinalityType
<1> QED
  BY <1>5, <1>6 DEF P

\* A multiple of the size of a batch is such a sum.
LEMMA SizeOfBatch ==
    ASSUME NEW n \in Nat, NEW S \in SUBSET (1 .. n), NEW c \in Nat
    PROVE  /\ Cardinality(S) \in Nat
           /\ c * Cardinality(S) = Total(Of([i \in 1 .. n |-> c], S, n), n)
<1> DEFINE w == [i \in 1 .. n |-> c]
           f == [s \in SUBSET S |-> c * Cardinality(s)]
<1>1. IsFiniteSet(S)
  <2>1. IsFiniteSet(1 .. n)
    BY FS_Interval
  <2> QED
    BY <2>1, FS_Subset
<1>2. \A i \in 1 .. n : w[i] = c /\ w[i] \in Int
  OBVIOUS
<1>3. \A s \in SUBSET S : f[s] = c * Cardinality(s)
  OBVIOUS
<1>4. f = [s \in SUBSET S |-> f[s]]
  BY Zenon
<1> HIDE DEF w, f
<1>5. ASSUME NEW s \in SUBSET S
      PROVE  f[s] = IF s = {} THEN 0 ELSE w[Pick(s)] + f[s \ {Pick(s)}]
  <2>1. CASE s = {}
    <3>1. Cardinality(s) = 0 /\ c * 0 = 0
      BY <2>1, FS_EmptySet
    <3> QED
      BY <1>3, <2>1, <3>1
  <2>2. CASE s # {}
    <3>1. Pick(s) \in s
      BY <2>2, Zenon DEF Pick
    <3>2. IsFiniteSet(s) /\ Cardinality(s) \in Nat
      BY <1>1, FS_Subset, FS_CardinalityType
    <3>3. Cardinality(s \ {Pick(s)}) = Cardinality(s) - 1
      BY <3>1, <3>2, FS_RemoveElement
    <3>4. f[s \ {Pick(s)}] = c * Cardinality(s \ {Pick(s)}) /\ f[s] = c * Cardinality(s)
          /\ w[Pick(s)] = c
      BY <1>2, <1>3, <3>1
    <3>5. \A k \in Nat : c * k = c + c * (k - 1)
      OBVIOUS
    <3>6. f[s] = w[Pick(s)] + f[s \ {Pick(s)}]
      BY <3>2, <3>3, <3>4, <3>5
    <3> QED
      BY <2>2, <3>6
  <2> QED
    BY <2>1, <2>2
<1>6. f = Added(w, f, SUBSET S)
  BY <1>4, <1>5, Zenon DEF Added
<1>7. f[S] = Total(Of(w, S, n), n)
  BY <1>2, <1>6, TotalOfBatch
<1>8. Cardinality(S) \in Nat
  BY <1>1, FS_CardinalityType
<1> QED
  BY <1>3, <1>7, <1>8 DEF w

-----------------------------------------------------------------------------
\* WORKs of a request that have not reserved their payloads yet, and the bytes of one.
Pending(i) == {x \in sent : x.role = "draft" /\ x.stage = "sent" /\ i \in x.batch}
UnitOf(shape, name) == IF name = "snapshots" THEN SnapshotBytes ELSE ProposalBytes(shape.depth)

\* The bytes of completion records that the rounds of a request have reserved.
CompletionsOf(r) == CompletionBytes(1) * (r.drafts + r.targets)

\* What the requests of the cohort were charged, may still write and have written.
ChargedCompletions == [i \in Records |-> CompletionBudget(registry.records[i].shape.new)]
ChargedPayloads(name) ==
    [i \in Records |-> (registry.records[i].shape.new + 1) * UnitOf(registry.records[i].shape, name)]
WrittenCompletions == [i \in Records |-> CompletionsOf(registry.records[i])]
WrittenPayloads(name) ==
    [i \in Records |-> (registry.records[i].drafts - Cardinality(Pending(i)))
                         * UnitOf(registry.records[i].shape, name)]
Over(w) == Total(w, Len(registry.records))

\* SessionBudget: no resource is used beyond its limit.
Within == /\ registry.used = [n \in Resources |-> registry.used[n]]
          /\ \A n \in Resources : registry.used[n] \in Nat /\ registry.used[n] <= Limit(n)

\* What is used is what the requests of the cohort were charged, and the Engine's own
\* arenas hold just that.
Charged ==
    /\ engine[<<"tokens", -1>>].head = registry.used["engine_tokens"]
    /\ engine[<<"configs", -1>>].head = registry.used["config_bytes"]
    /\ registry.used["completions"] = Over(ChargedCompletions)
    /\ \A n \in {"proposals", "snapshots"} : registry.used[n] = Over(ChargedPayloads(n))

\* No request runs more rounds than it may commit tokens.
RoundsBounded ==
    \A i \in Records : /\ registry.records[i].drafts <= registry.records[i].shape.new
                       /\ registry.records[i].targets <= registry.records[i].shape.new

\* CompletionArena: a WORK that was sent owns a place of its own that is reserved and
\* not written yet; all places lie within the rounds that were issued.
Receipts ==
    /\ done = [next |-> done.next, written |-> done.written]
    /\ done.next \in Nat /\ done.next <= Over(WrittenCompletions)
    /\ IsFiniteSet(sent)
    /\ \A x \in sent : x.at \in Nat /\ x.at < done.next /\ x.at \notin done.written
    /\ \A x, y \in sent : x.at = y.at => x = y
    /\ \A n \in done.written : n \in Nat /\ n < done.next

\* In the first cohort a worker's arenas hold only what the rounds of some request wrote.
Drafted ==
    registry.cohort = 1 =>
      \A a \in DraftArenas : worker[a].head <= Over(WrittenPayloads(a[1]))

\* Nothing the budget accepted was refused.
NoRefusal ==
    /\ registry.state # "poisoned"
    /\ registry.cohort = 1 => registry.state # "worker failed"

\* A record is at most one alignment over its members, which is what the budget adds.
LEMMA SizesOfBytes ==
    /\ CompletionBytes(1) = 72
    /\ \A n \in Nat : CompletionBytes(n) \in Nat
    /\ \A n \in Nat \ {0} : CompletionBytes(n) \in 1 .. 72 * n
    /\ \A n \in Nat : CompletionBudget(n) = 72 * (2 * n + 4)
<1>1. CompletionBytes(1) = 72
  BY DEF CompletionBytes
<1>2. \A n \in Nat : CompletionBytes(n) \in Nat
  BY DEF CompletionBytes
<1>3. \A n \in Nat \ {0} : CompletionBytes(n) \in 1 .. 72 * n
  BY DEF CompletionBytes
<1> QED
  BY <1>1, <1>2, <1>3 DEF CompletionBudget

\* The records of a cohort and their fields.
LEMMA RecordTypes ==
    ASSUME MemoryInv
    PROVE  /\ registry.records \in Seq(RecordShapes) /\ Len(registry.records) \in Nat
           /\ Records = 1 .. Len(registry.records)
           /\ \A i \in Records :
                /\ registry.records[i] \in RecordShapes
                /\ registry.records[i].drafts \in Nat /\ registry.records[i].targets \in Nat
                /\ registry.records[i].shape \in Shapes
                /\ registry.records[i].shape.new \in Nat \ {0}
<1>1. registry.records \in Seq(RecordShapes) /\ Len(registry.records) \in Nat
  BY RegistryForm
<1>2. \A i \in Records : registry.records[i] \in RecordShapes
  BY <1>1 DEF Records
<1> QED
  BY <1>1, <1>2, MemoryAssumption DEF Records, RecordShapes

\* A round takes a natural number of bytes in either arena of a Draft worker.
LEMMA UnitTypes ==
    \A shape \in Shapes : \A n \in {"proposals", "snapshots"} : UnitOf(shape, n) \in Nat
  BY SizesAreNatural DEF UnitOf, SnapshotBytes

\* Only finitely many WORKs are sent.
LEMMA PendingTypes ==
    ASSUME Receipts
    PROVE  \A i : IsFiniteSet(Pending(i)) /\ Cardinality(Pending(i)) \in Nat
<1> TAKE i
<1>1. Pending(i) \subseteq sent /\ IsFiniteSet(sent)
  BY DEF Pending, Receipts
<1> QED
  BY <1>1, FS_Subset, FS_CardinalityType

\* Products of integers are integers.
LEMMA Products == \A a, b \in Int : a * b \in Int
  OBVIOUS

\* All weights are integers.
LEMMA WeightTypes ==
    ASSUME MemoryInv, Receipts
    PROVE  \A i \in Records :
             /\ ChargedCompletions[i] \in Int /\ WrittenCompletions[i] \in Int
             /\ \A n \in {"proposals", "snapshots"} :
                  ChargedPayloads(n)[i] \in Int /\ WrittenPayloads(n)[i] \in Int
<1> SUFFICES ASSUME NEW i \in Records
             PROVE  /\ ChargedCompletions[i] \in Int /\ WrittenCompletions[i] \in Int
                    /\ \A n \in {"proposals", "snapshots"} :
                         ChargedPayloads(n)[i] \in Int /\ WrittenPayloads(n)[i] \in Int
  OBVIOUS
<1> DEFINE r == registry.records[i]
<1>1. /\ r.drafts \in Nat /\ r.targets \in Nat /\ r.shape \in Shapes /\ r.shape.new \in Nat
      /\ Cardinality(Pending(i)) \in Nat
  BY RecordTypes, PendingTypes
<1>2. \A n \in {"proposals", "snapshots"} : UnitOf(r.shape, n) \in Nat
  BY <1>1, UnitTypes
<1> HIDE DEF r
<1>3. ChargedCompletions[i] = CompletionBudget(r.shape.new) /\ WrittenCompletions[i] = CompletionsOf(r)
  BY Zenon DEF ChargedCompletions, WrittenCompletions, r
<1>4. \A n : /\ ChargedPayloads(n)[i] = (r.shape.new + 1) * UnitOf(r.shape, n)
             /\ WrittenPayloads(n)[i] = (r.drafts - Cardinality(Pending(i))) * UnitOf(r.shape, n)
  BY Zenon DEF ChargedPayloads, WrittenPayloads, r
<1>5. CompletionBudget(r.shape.new) \in Int /\ CompletionsOf(r) \in Int
  BY <1>1, SizesOfBytes DEF CompletionsOf
<1>6. ASSUME NEW n \in {"proposals", "snapshots"}
      PROVE  /\ (r.shape.new + 1) * UnitOf(r.shape, n) \in Int
             /\ (r.drafts - Cardinality(Pending(i))) * UnitOf(r.shape, n) \in Int
  <2>1. r.shape.new + 1 \in Int /\ r.drafts - Cardinality(Pending(i)) \in Int /\ UnitOf(r.shape, n) \in Int
    BY <1>1, <1>2
  <2> QED
    BY <2>1, Products
<1> QED
  BY <1>3, <1>4, <1>5, <1>6

\* No WORK of a request outnumbers what the budget has charged.
LEMMA WrittenWithin ==
    ASSUME MemoryInv, Receipts, RoundsBounded
    PROVE  /\ Over(WrittenCompletions) <= Over(ChargedCompletions)
           /\ \A n \in {"proposals", "snapshots"} : Over(WrittenPayloads(n)) <= Over(ChargedPayloads(n))
<1> DEFINE size == Len(registry.records)
<1>1. size \in Nat /\ Records = 1 .. size
  BY RecordTypes
<1>2. ASSUME NEW i \in Records
      PROVE  /\ WrittenCompletions[i] <= ChargedCompletions[i]
             /\ \A n \in {"proposals", "snapshots"} : WrittenPayloads(n)[i] <= ChargedPayloads(n)[i]
  <2> DEFINE r == registry.records[i]
             p == Cardinality(Pending(i))
  <2>1. /\ r.drafts \in Nat /\ r.targets \in Nat /\ r.shape \in Shapes /\ r.shape.new \in Nat
        /\ p \in Nat /\ r.drafts <= r.shape.new /\ r.targets <= r.shape.new
    BY RecordTypes, PendingTypes DEF RoundsBounded
  <2>2. \A n \in {"proposals", "snapshots"} : UnitOf(r.shape, n) \in Nat
    BY <2>1, UnitTypes
  <2>3. ChargedCompletions[i] = CompletionBudget(r.shape.new) /\ WrittenCompletions[i] = CompletionsOf(r)
    BY Zenon DEF ChargedCompletions, WrittenCompletions
  <2>4. \A n : /\ ChargedPayloads(n)[i] = (r.shape.new + 1) * UnitOf(r.shape, n)
               /\ WrittenPayloads(n)[i] = (r.drafts - p) * UnitOf(r.shape, n)
    BY Zenon DEF ChargedPayloads, WrittenPayloads
  <2> HIDE DEF r, p
  <2>5. CompletionsOf(r) <= CompletionBudget(r.shape.new)
    BY <2>1, SizesOfBytes DEF CompletionsOf
  <2>6. ASSUME NEW n \in {"proposals", "snapshots"}
        PROVE  (r.drafts - p) * UnitOf(r.shape, n) <= (r.shape.new + 1) * UnitOf(r.shape, n)
    <3>1. r.drafts - p <= r.shape.new + 1 /\ r.drafts - p \in Int /\ r.shape.new + 1 \in Int
          /\ UnitOf(r.shape, n) \in Nat
      BY <2>1, <2>2
    <3>2. \A a, b \in Int, c \in Nat : a <= b => a * c <= b * c
      OBVIOUS
    <3> QED
      BY <3>1, <3>2
  <2> QED
    BY <2>3, <2>4, <2>5, <2>6
<1> HIDE DEF size
<1>3. Over(WrittenCompletions) <= Over(ChargedCompletions)
  BY <1>1, <1>2, WeightTypes, TotalRises DEF Over, size
<1>4. ASSUME NEW n \in {"proposals", "snapshots"}
      PROVE  Over(WrittenPayloads(n)) <= Over(ChargedPayloads(n))
  <2> DEFINE u == WrittenPayloads(n)
             v == ChargedPayloads(n)
  <2>1. \A i \in 1 .. size : u[i] \in Int /\ v[i] \in Int /\ u[i] <= v[i]
    BY <1>1, <1>2, WeightTypes
  <2> HIDE DEF u, v
  <2>2. Total(u, size) <= Total(v, size)
    BY <1>1, <2>1, TotalRises
  <2> QED
    BY <2>2 DEF u, v, Over, size
<1> QED
  BY <1>3, <1>4

\* The invariant of the budget.
BudgetInv == Within /\ Charged /\ RoundsBounded /\ Receipts /\ Drafted /\ NoRefusal

\* RequestRegistry.add: what a request is charged, resource by resource.
LEMMA CostTypes ==
    ASSUME NEW shape \in Shapes
    PROVE  /\ \A n \in Resources : Cost(shape)[n] \in Nat
           /\ Cost(shape)["engine_tokens"] = TokenBytes(shape.prompt) + TokenBytes(shape.new)
           /\ Cost(shape)["config_bytes"] = ConfigBytes(shape)
           /\ Cost(shape)["completions"] = CompletionBudget(shape.new)
           /\ \A n \in {"proposals", "snapshots"} :
                Cost(shape)[n] = (shape.new + 1) * UnitOf(shape, n)
           /\ Cost(shape)["host_blocks"] = KVBlocks(shape)
           /\ Cost(shape)["draft_host_blocks"] = KVBlocks(shape)
           /\ KVBlocks(shape) \in Nat \ {0}
<1> DEFINE c == Cost(shape)
<1>1. /\ shape.prompt \in Nat \ {0} /\ shape.new \in Nat \ {0} /\ shape.depth \in Nat /\ shape.stops \in Nat
      /\ KVBlockSize \in Nat \ {0}
  BY MemoryAssumption
<1>2. /\ c["engine_tokens"] = TokenBytes(shape.prompt + shape.new)
      /\ c["config_bytes"] = ConfigBytes(shape)
      /\ c["proposals"] = (shape.new + 1) * ProposalBytes(shape.depth)
      /\ c["host_blocks"] = KVBlocks(shape)
      /\ c["snapshots"] = (shape.new + 1) * SnapshotBytes
      /\ c["draft_host_blocks"] = KVBlocks(shape)
      /\ c["completions"] = CompletionBudget(shape.new)
  BY DEF Cost
<1> HIDE DEF c
<1>3. TokenBytes(shape.prompt + shape.new) = TokenBytes(shape.prompt) + TokenBytes(shape.new)
  BY <1>1 DEF TokenBytes
<1>4. KVBlocks(shape) \in Nat \ {0}
  <2> DEFINE p == shape.prompt
             q == shape.new
             m == p + q - 1
  <2>0. p \in Nat \ {0} /\ q \in Nat \ {0}
    BY <1>1
  <2> HIDE DEF p, q
  <2>1. m \in Nat /\ m >= 1 /\ p + q + KVBlockSize - 1 = m + KVBlockSize
    BY <1>1, <2>0
  <2> HIDE DEF m
  <2>2. \A a \in Nat, b \in Nat \ {0} : (a + b) \div b \in Nat \ {0}
    OBVIOUS
  <2> QED
    BY <1>1, <2>1, <2>2 DEF KVBlocks, p, q
<1>5. /\ (shape.new + 1) * ProposalBytes(shape.depth) \in Nat
      /\ (shape.new + 1) * SnapshotBytes \in Nat
      /\ TokenBytes(shape.prompt + shape.new) \in Nat /\ ConfigBytes(shape) \in Nat
      /\ CompletionBudget(shape.new) \in Nat
  <2>1. \A a, b \in Nat : a * b \in Nat
    OBVIOUS
  <2>2. ProposalBytes(shape.depth) \in Nat /\ SnapshotBytes \in Nat /\ shape.new + 1 \in Nat
    BY <1>1 DEF ProposalBytes, SnapshotBytes
  <2>3. TokenBytes(shape.prompt + shape.new) \in Nat /\ ConfigBytes(shape) \in Nat
    BY <1>1 DEF TokenBytes, ConfigBytes
  <2>4. CompletionBudget(shape.new) \in Nat
    BY <1>1, SizesOfBytes
  <2> QED
    BY <2>1, <2>2, <2>3, <2>4
<1>6. \A n \in {"proposals", "snapshots"} : c[n] = (shape.new + 1) * UnitOf(shape, n)
  BY <1>2 DEF UnitOf
<1>7. \A n \in Resources : c[n] \in Nat
  BY <1>2, <1>4, <1>5 DEF Resources
<1> QED
  BY <1>2, <1>3, <1>4, <1>6, <1>7 DEF c

\* What an accepted request is charged leaves every resource within its limit.
LEMMA ChargeWithin ==
    ASSUME Within, NEW shape \in Shapes, Accepts(shape),
           registry'.used = Charge(registry.used, Cost(shape))
    PROVE  /\ Within'
           /\ \A n \in Resources : registry'.used[n] = registry.used[n] + Cost(shape)[n]
<1>1. registry'.used = [n \in Resources |-> registry.used[n] + Cost(shape)[n]]
  BY DEF Charge
<1>2. \A n \in Resources : registry.used[n] + Cost(shape)[n] <= Limit(n)
  BY DEF Accepts, WithinBudget
<1>3. \A n \in Resources : Cost(shape)[n] \in Nat
  BY CostTypes
<1> QED
  BY <1>1, <1>2, <1>3 DEF Within, Limit

\* The sums of a cohort with one request more.
LEMMA AdmitSums ==
    ASSUME MemoryInv, Receipts, NEW shape \in Shapes,
           NEW entry, entry.shape = shape, entry.drafts = 0, entry.targets = 0,
           registry'.records = Append(registry.records, entry), UNCHANGED sent
    PROVE  /\ Over(ChargedCompletions)' = Over(ChargedCompletions) + CompletionBudget(shape.new)
           /\ Over(WrittenCompletions)' = Over(WrittenCompletions)
           /\ \A n \in {"proposals", "snapshots"} :
                /\ Over(ChargedPayloads(n))' = Over(ChargedPayloads(n)) + (shape.new + 1) * UnitOf(shape, n)
                /\ Over(WrittenPayloads(n))' = Over(WrittenPayloads(n))
<1> DEFINE size == Len(registry.records)
           old == registry.records
           new == registry'.records
<1>1. old \in Seq(RecordShapes) /\ size \in Nat /\ Records = 1 .. size
  BY RecordTypes
<1>2. Len(new) = size + 1 /\ Records' = 1 .. size + 1 /\ new[size + 1] = entry
      /\ \A i \in 1 .. size : new[i] = old[i]
  BY <1>1 DEF Records
<1>3. \A i : Pending(i)' = Pending(i)
  BY DEF Pending
<1>4. Cardinality(Pending(size + 1)) = 0
  <2>1. \A x \in sent : x.batch \in SUBSET Records
    BY DEF MemoryInv, SentWork
  <2>2. size + 1 \notin Records
    BY <1>1
  <2>3. Pending(size + 1) = {}
    BY <2>1, <2>2 DEF Pending
  <2> QED
    BY <2>3, FS_EmptySet
<1>5. \A i \in Records : /\ ChargedCompletions[i] \in Int /\ WrittenCompletions[i] \in Int
                         /\ \A n \in {"proposals", "snapshots"} :
                              ChargedPayloads(n)[i] \in Int /\ WrittenPayloads(n)[i] \in Int
  BY WeightTypes
<1>6. /\ ChargedCompletions' = [i \in Records' |-> CompletionBudget(new[i].shape.new)]
      /\ WrittenCompletions' = [i \in Records' |-> CompletionsOf(new[i])]
      /\ \A n : /\ ChargedPayloads(n)' = [i \in Records' |-> (new[i].shape.new + 1) * UnitOf(new[i].shape, n)]
                /\ WrittenPayloads(n)' = [i \in Records' |-> (new[i].drafts - Cardinality(Pending(i)))
                                                               * UnitOf(new[i].shape, n)]
  BY <1>3 DEF ChargedCompletions, WrittenCompletions, ChargedPayloads, WrittenPayloads
<1>7. ASSUME NEW i \in 1 .. size
      PROVE  /\ ChargedCompletions'[i] = ChargedCompletions[i]
             /\ WrittenCompletions'[i] = WrittenCompletions[i]
             /\ \A n : /\ ChargedPayloads(n)'[i] = ChargedPayloads(n)[i]
                       /\ WrittenPayloads(n)'[i] = WrittenPayloads(n)[i]
  <2>1. i \in Records /\ i \in Records' /\ new[i] = old[i]
    BY <1>1, <1>2
  <2>2. ChargedCompletions'[i] = ChargedCompletions[i] /\ WrittenCompletions'[i] = WrittenCompletions[i]
    BY <1>6, <2>1, Zenon DEF ChargedCompletions, WrittenCompletions
  <2>3. \A n : /\ ChargedPayloads(n)'[i] = ChargedPayloads(n)[i]
              /\ WrittenPayloads(n)'[i] = WrittenPayloads(n)[i]
    <3>1. TAKE n
    <3>2. ChargedPayloads(n)'[i] = ChargedPayloads(n)[i]
      BY <1>6, <2>1, Zenon DEF ChargedPayloads
    <3>3. WrittenPayloads(n)[i] = (old[i].drafts - Cardinality(Pending(i))) * UnitOf(old[i].shape, n)
      BY <2>1, Zenon DEF WrittenPayloads
    <3>4. WrittenPayloads(n)'[i] = (new[i].drafts - Cardinality(Pending(i))) * UnitOf(new[i].shape, n)
      BY <1>6, <2>1, Zenon
    <3> QED
      BY <2>1, <3>2, <3>3, <3>4, Zenon
  <2> QED
    BY <2>2, <2>3
<1>8. \A n \in {"proposals", "snapshots"} : UnitOf(shape, n) \in Nat
  BY UnitTypes
<1>9. /\ ChargedCompletions'[size + 1] = CompletionBudget(shape.new)
      /\ WrittenCompletions'[size + 1] = 0
      /\ \A n \in {"proposals", "snapshots"} :
           /\ ChargedPayloads(n)'[size + 1] = (shape.new + 1) * UnitOf(shape, n)
           /\ WrittenPayloads(n)'[size + 1] = 0
  <2>1. size + 1 \in Records' /\ new[size + 1] = entry
    BY <1>1, <1>2
  <2>2. /\ ChargedCompletions'[size + 1] = CompletionBudget(entry.shape.new)
        /\ WrittenCompletions'[size + 1] = CompletionsOf(entry)
        /\ \A n : /\ ChargedPayloads(n)'[size + 1] = (entry.shape.new + 1) * UnitOf(entry.shape, n)
                  /\ WrittenPayloads(n)'[size + 1]
                       = (entry.drafts - Cardinality(Pending(size + 1))) * UnitOf(entry.shape, n)
    <3>1. CompletionBudget(new[size + 1].shape.new) = CompletionBudget(entry.shape.new)
          /\ CompletionsOf(new[size + 1]) = CompletionsOf(entry)
      BY <2>1
    <3> HIDE DEF size, new
    <3> QED
      BY <1>6, <2>1, <3>1
  <2>3. CompletionsOf(entry) = 0
    BY SizesOfBytes DEF CompletionsOf
  <2>4. \A n \in {"proposals", "snapshots"} :
          (entry.drafts - Cardinality(Pending(size + 1))) * UnitOf(entry.shape, n) = 0
    <3>1. entry.drafts - Cardinality(Pending(size + 1)) = 0
      BY <1>4
    <3>2. \A b \in Nat : 0 * b = 0
      OBVIOUS
    <3> QED
      BY <1>8, <3>1, <3>2
  <2> QED
    BY <2>2, <2>3, <2>4
<1>10. /\ CompletionBudget(shape.new) \in Int
       /\ \A n \in {"proposals", "snapshots"} : (shape.new + 1) * UnitOf(shape, n) \in Int
  <2>1. \A n \in Resources : Cost(shape)[n] \in Int
    BY CostTypes
  <2>2. "completions" \in Resources /\ "proposals" \in Resources /\ "snapshots" \in Resources
    BY DEF Resources
  <2> QED
    BY <2>1, <2>2, CostTypes
<1> DEFINE cc == ChargedCompletions
           wc == WrittenCompletions
           cc1 == ChargedCompletions'
           wc1 == WrittenCompletions'
<1>11. Total(cc1, size + 1) = Total(cc, size) + cc1[size + 1]
  <2>1. /\ cc1[size + 1] \in Int
        /\ \A i \in 1 .. size : cc[i] \in Int /\ cc1[i] = cc[i]
    BY <1>1, <1>5, <1>7, <1>9, <1>10
  <2> HIDE DEF cc, cc1, size
  <2> QED
    BY <1>1, <2>1, TotalOneMore
<1>12. Total(wc1, size + 1) = Total(wc, size) + wc1[size + 1]
  <2>1. /\ wc1[size + 1] \in Int
        /\ \A i \in 1 .. size : wc[i] \in Int /\ wc1[i] = wc[i]
    BY <1>1, <1>5, <1>7, <1>9
  <2> HIDE DEF wc, wc1, size
  <2> QED
    BY <1>1, <2>1, TotalOneMore
<1>13. Total(wc, size) \in Int
  <2>1. \A i \in 1 .. size : wc[i] \in Int
    BY <1>1, <1>5
  <2> HIDE DEF wc, size
  <2> QED
    BY <1>1, <2>1, TotalType
<1>14. Over(WrittenCompletions)' = Over(WrittenCompletions)
  <2>1. Over(WrittenCompletions)' = Total(wc1, size + 1) /\ Over(WrittenCompletions) = Total(wc, size)
    BY <1>2 DEF Over
  <2> QED
    BY <1>9, <1>12, <1>13, <2>1
<1>15. Over(ChargedCompletions)' = Over(ChargedCompletions) + CompletionBudget(shape.new)
  <2>1. Over(ChargedCompletions)' = Total(cc1, size + 1) /\ Over(ChargedCompletions) = Total(cc, size)
    BY <1>2 DEF Over
  <2> QED
    BY <1>9, <1>11, <2>1
<1>16. ASSUME NEW n \in {"proposals", "snapshots"}
       PROVE  /\ Over(ChargedPayloads(n))' = Over(ChargedPayloads(n)) + (shape.new + 1) * UnitOf(shape, n)
              /\ Over(WrittenPayloads(n))' = Over(WrittenPayloads(n))
  <2> DEFINE cp == ChargedPayloads(n)
             wp == WrittenPayloads(n)
             cp1 == ChargedPayloads(n)'
             wp1 == WrittenPayloads(n)'
  <2>1. /\ cp1[size + 1] \in Int /\ wp1[size + 1] \in Int
        /\ \A i \in 1 .. size : /\ cp[i] \in Int /\ cp1[i] = cp[i]
                                /\ wp[i] \in Int /\ wp1[i] = wp[i]
    BY <1>1, <1>5, <1>7, <1>9, <1>10
  <2>2. /\ Over(ChargedPayloads(n))' = Total(cp1, size + 1) /\ Over(ChargedPayloads(n)) = Total(cp, size)
        /\ Over(WrittenPayloads(n))' = Total(wp1, size + 1) /\ Over(WrittenPayloads(n)) = Total(wp, size)
    BY <1>2 DEF Over
  <2>3. cp1[size + 1] = (shape.new + 1) * UnitOf(shape, n) /\ wp1[size + 1] = 0
    BY <1>9
  <2> HIDE DEF cp, wp, cp1, wp1, size
  <2>4. /\ Total(cp1, size + 1) = Total(cp, size) + cp1[size + 1]
        /\ Total(wp1, size + 1) = Total(wp, size) + wp1[size + 1]
        /\ Total(wp, size) \in Int
    BY <1>1, <2>1, TotalOneMore, TotalType
  <2> QED
    BY <2>2, <2>3, <2>4
<1> QED
  BY <1>14, <1>15, <1>16

-----------------------------------------------------------------------------
\* The blocks behind the extents of a cohort, as a free list, and where extent i starts.
Rest(u) == IF u < HostArenaBlocks THEN << <<u, HostArenaBlocks - u>> >> ELSE <<>>
Start(a, i) == IF i = 0 THEN 0 ELSE a.extents[i - 1].offset + a.extents[i - 1].capacity

\* Slots 0 .. n - 1 hold extents one behind the other, u blocks in all.
Extents(a, n, u) ==
    /\ a = [blocks |-> a.blocks, free |-> a.free, extents |-> a.extents, generation |-> a.generation]
    /\ a.extents = [s \in SlotIds |-> a.extents[s]]
    /\ \A s \in SlotIds : s >= n => a.extents[s] = NoExtent
    /\ \A i \in 0 .. n - 1 : /\ i \in SlotIds /\ a.extents[i].capacity \in Nat \ {0}
                             /\ a.extents[i].offset = Start(a, i)
    /\ \A i \in 0 .. n : Start(a, i) \in 0 .. u
    /\ Start(a, n) = u

\* The blocks of the host arena of a role that the budget has charged.
BlocksOf(k) == registry.used[IF k = "target" THEN "host_blocks" ELSE "draft_host_blocks"]

\* HostKVAllocator: the extents of the cohort are all the blocks charged, one behind the
\* other from the first on, and the free list is the rest.
ExtentsInv ==
    /\ hostkv = [k \in Kinds |-> hostkv[k]]
    /\ \A k \in Kinds : /\ Extents(hostkv[k], Len(registry.records), BlocksOf(k))
                        /\ hostkv[k].free = Rest(BlocksOf(k))

\* HostKVAllocator.allocate: under such a layout first fit finds room for what the budget
\* accepts, behind the last extent, and keeps the layout.
LEMMA ExtentFits ==
    ASSUME NEW a, NEW n \in SlotIds, NEW u \in Nat, NEW c \in Nat \ {0}, NEW epoch,
           Extents(a, n, u), a.free = Rest(u), u + c <= HostArenaBlocks
    PROVE  /\ CanTakeExtent(a, n, c)
           /\ Extents(TakeExtent(a, n, epoch, c), n + 1, u + c)
           /\ TakeExtent(a, n, epoch, c).free = Rest(u + c)
<1>1. /\ u < HostArenaBlocks /\ HostArenaBlocks \in Nat /\ HostArenaBlocks - u >= c
      /\ HostArenaBlocks - u \in Nat
  BY MemoryAssumption
<1>2. n \in Nat /\ n < AdmissionSlots /\ AdmissionSlots \in Nat
  BY MemoryAssumption DEF SlotIds
<1>3. a.free = << <<u, HostArenaBlocks - u>> >>
  BY <1>1 DEF Rest
<1>4. Len(a.free) = 1 /\ DOMAIN a.free = {1} /\ a.free[1] = <<u, HostArenaBlocks - u>>
  BY <1>3
<1>5. Fitting(a, c) = {1}
  BY <1>1, <1>4 DEF Fitting
<1>6. CanTakeExtent(a, n, c)
  <2>1. n \in SlotIds /\ n >= n
    BY <1>2
  <2>2. a.extents[n] = NoExtent
    BY <2>1 DEF Extents
  <2> QED
    BY <1>5, <2>2 DEF CanTakeExtent
<1> DEFINE b == TakeExtent(a, n, epoch, c)
           e == MakeExtent(n, epoch, a.generation[n], u, c)
           i == CHOOSE k \in Fitting(a, c) : \A m \in Fitting(a, c) : k <= m
<1>7. i = 1
  BY <1>5
<1>8. b = [a EXCEPT !.extents[n] = e,
                    !.free = SubSeq(@, 1, 0)
                               \o (IF HostArenaBlocks - u - c > 0
                                   THEN << <<u + c, HostArenaBlocks - u - c>> >> ELSE <<>>)
                               \o SubSeq(@, 2, Len(@))]
  <2>1. b = [a EXCEPT !.extents[n] = MakeExtent(n, epoch, a.generation[n], a.free[i][1], c),
                    !.free = SubSeq(@, 1, i - 1)
                               \o (IF a.free[i][2] - c > 0
                                   THEN << <<a.free[i][1] + c, a.free[i][2] - c>> >> ELSE <<>>)
                               \o SubSeq(@, i + 1, Len(@))]
    BY Zenon DEF TakeExtent
  <2> HIDE DEF b, i
  <2>2. a.free[i][1] = u /\ a.free[i][2] = HostArenaBlocks - u /\ i - 1 = 0 /\ i + 1 = 2
    BY <1>4, <1>7
  <2> QED
    BY <2>1, <2>2
<1> HIDE DEF b, i
<1>9. /\ b = [blocks |-> b.blocks, free |-> b.free, extents |-> b.extents, generation |-> b.generation]
      /\ b.extents = [a.extents EXCEPT ![n] = e]
      /\ b.free = SubSeq(a.free, 1, 0)
                    \o (IF HostArenaBlocks - u - c > 0
                        THEN << <<u + c, HostArenaBlocks - u - c>> >> ELSE <<>>)
                    \o SubSeq(a.free, 2, Len(a.free))
  <2>1. a = [blocks |-> a.blocks, free |-> a.free, extents |-> a.extents, generation |-> a.generation]
    BY DEF Extents
  <2> DEFINE f == SubSeq(a.free, 1, 0)
                    \o (IF HostArenaBlocks - u - c > 0
                        THEN << <<u + c, HostArenaBlocks - u - c>> >> ELSE <<>>)
                    \o SubSeq(a.free, 2, Len(a.free))
             es == [a.extents EXCEPT ![n] = e]
  <2>2. b = [a EXCEPT !.extents = es, !.free = f]
    BY <1>8, Zenon
  <2> HIDE DEF f, es
  <2>3. b = [blocks |-> a.blocks, free |-> f, extents |-> es, generation |-> a.generation]
    BY <2>1, <2>2
  <2> QED
    BY <2>3 DEF f, es
<1>10. b.free = Rest(u + c)
  <2>1. SubSeq(a.free, 1, 0) = <<>> /\ SubSeq(a.free, 2, Len(a.free)) = <<>>
    BY <1>3
  <2>2. CASE HostArenaBlocks - u - c > 0
    <3>1. Rest(u + c) = << <<u + c, HostArenaBlocks - u - c>> >>
      BY <1>1, <2>2 DEF Rest
    <3>2. b.free = <<>> \o << <<u + c, HostArenaBlocks - u - c>> >> \o <<>>
      BY <1>9, <2>1, <2>2
    <3> QED
      BY <3>1, <3>2
  <2>3. CASE ~(HostArenaBlocks - u - c > 0)
    <3>1. Rest(u + c) = <<>>
      BY <1>1, <2>3 DEF Rest
    <3>2. b.free = <<>> \o <<>> \o <<>>
      BY <1>9, <2>1, <2>3
    <3> QED
      BY <3>1, <3>2
  <2> QED
    BY <2>2, <2>3
<1>11. e.offset = u /\ e.capacity = c
  BY DEF MakeExtent, HostKVExtent
<1> HIDE DEF e
<1>12. /\ \A s \in SlotIds : b.extents[s] = IF s = n THEN e ELSE a.extents[s]
       /\ b.extents = [s \in SlotIds |-> b.extents[s]]
  <2>1. a.extents = [s \in SlotIds |-> a.extents[s]]
    BY DEF Extents
  <2> QED
    BY <1>9, <2>1
<1>13. \A j \in 0 .. n - 1 : j \in SlotIds
  BY DEF Extents
<1>14. \A j \in 0 .. n : Start(b, j) = Start(a, j)
  <2>1. TAKE j \in 0 .. n
  <2>2. CASE j = 0
    BY <2>2 DEF Start
  <2>3. CASE j # 0
    <3>1. j - 1 \in 0 .. n - 1 /\ j - 1 # n
      BY <1>2, <2>3
    <3>2. b.extents[j - 1] = a.extents[j - 1]
      BY <1>12, <1>13, <3>1
    <3> QED
      BY <2>3, <3>2 DEF Start
  <2> QED
    BY <2>2, <2>3
<1>15. Start(b, n + 1) = u + c
  <2>1. n + 1 # 0 /\ (n + 1) - 1 = n
    BY <1>2
  <2>2. b.extents[n] = e
    BY <1>12
  <2> QED
    BY <1>11, <2>1, <2>2 DEF Start
<1>16. \A j \in 0 .. n : Start(a, j) \in 0 .. u /\ Start(a, n) = u
  BY DEF Extents
<1>17. \A j \in 0 .. n + 1 : Start(b, j) \in 0 .. u + c
  <2>1. TAKE j \in 0 .. n + 1
  <2>2. CASE j = n + 1
    BY <1>15, <2>2
  <2>3. CASE j \in 0 .. n
    BY <1>14, <1>16, <2>3
  <2> QED
    BY <1>2, <2>2, <2>3
<1>18. \A j \in 0 .. n : /\ j \in SlotIds /\ b.extents[j].capacity \in Nat \ {0}
                         /\ b.extents[j].offset = Start(b, j)
  <2>1. TAKE j \in 0 .. n
  <2>2. CASE j = n
    <3>1. b.extents[j] = e
      BY <1>12, <2>2
    <3>2. Start(b, j) = u
      BY <1>2, <1>14, <1>16, <2>2
    <3> QED
      BY <1>11, <2>2, <3>1, <3>2
  <2>3. CASE j \in 0 .. n - 1
    <3>1. j # n /\ j \in SlotIds /\ b.extents[j] = a.extents[j]
      BY <1>2, <1>12, <1>13, <2>3
    <3>2. a.extents[j].capacity \in Nat \ {0} /\ a.extents[j].offset = Start(a, j)
      BY <2>3 DEF Extents
    <3> QED
      BY <1>14, <2>3, <3>1, <3>2
  <2> QED
    BY <1>2, <2>2, <2>3
<1>19. \A s \in SlotIds : s >= n + 1 => b.extents[s] = NoExtent
  <2>1. TAKE s \in SlotIds
  <2>2. HAVE s >= n + 1
  <2>3. s # n /\ s >= n
    BY <1>2, <2>2 DEF SlotIds
  <2> QED
    BY <1>12, <2>3 DEF Extents
<1>20. (n + 1) - 1 = n
  BY <1>2
<1>21. Extents(b, n + 1, u + c)
  BY <1>9, <1>12, <1>15, <1>17, <1>18, <1>19, <1>20 DEF Extents
<1> QED
  BY <1>6, <1>10, <1>21 DEF b

\* RequestRegistry.add: an accepted request gets its extents, its prompt and its
\* configuration, and what it allocates is what it was charged.
LEMMA AdmitKeepsBudget ==
    ASSUME MemoryInv, MemoryInv', BudgetInv, ExtentsInv, NEW shape \in Shapes, Admit(shape)
    PROVE  BudgetInv' /\ ExtentsInv'
<1> DEFINE t == <<"tokens", -1>>
           c == <<"configs", -1>>
           n == Len(registry.records)
           prompt == Handle(t, engine[t], TokenBytes(shape.prompt))
           output == ReservedOutput(engine[t], prompt, shape.new)
           config == Handle(c, engine[c], ConfigBytes(shape))
           entry == [shape |-> shape, drafts |-> 0, targets |-> 0, count |-> 0,
                     finished |-> FALSE, output |-> output]
           blocks == KVBlocks(shape)
           fits == /\ output.hi <= PayloadCapacity
                   /\ config.hi <= PayloadCapacity
                   /\ \A k \in Kinds : CanTakeExtent(hostkv[k], n, blocks)
<1>1. t \in Arenas /\ c \in Arenas /\ t # c /\ t \in EngineArenas /\ c \in EngineArenas
  BY ArenaFacts
<1>2. /\ TokenBytes(shape.prompt) \in Nat /\ TokenBytes(shape.new) \in Nat
      /\ ConfigBytes(shape) \in Nat
  BY SizesAreNatural
<1>3. engine[t] \in AttachmentShapes /\ engine[c] \in AttachmentShapes
      /\ engine \in [Arenas -> AttachmentShapes]
  BY <1>1 DEF MemoryInv, MemoryShape
<1>4. /\ output.hi = engine[t].head + TokenBytes(shape.prompt) + TokenBytes(shape.new)
      /\ config.hi = engine[c].head + ConfigBytes(shape)
  BY <1>3 DEF Handle, ReservedOutput, AttachmentShapes
<1>5. /\ registry.records \in Seq(RecordShapes) /\ n \in Nat
      /\ registry = [records |-> registry.records, used |-> registry.used,
                     cohort |-> registry.cohort, state |-> registry.state]
  BY RegistryForm
<1>6. registry.state = "open" /\ Accepts(shape) /\ UNCHANGED <<worker, done, sent>>
  BY Zenon DEF Admit, Running
<1>7. n \in SlotIds
  <2>1. n < AdmissionSlots /\ AdmissionSlots \in Nat
    BY <1>6, MemoryAssumption DEF Accepts
  <2> QED
    BY <1>5, <2>1 DEF SlotIds
<1>8. \A m \in Resources : /\ registry.used[m] \in Nat /\ Cost(shape)[m] \in Nat
                           /\ registry.used[m] + Cost(shape)[m] <= Limit(m)
  BY <1>6, CostTypes DEF BudgetInv, Within, Accepts, WithinBudget
<1>9. output.hi <= PayloadCapacity /\ config.hi <= PayloadCapacity
  <2>1. "engine_tokens" \in Resources /\ "config_bytes" \in Resources
        /\ Limit("engine_tokens") = PayloadCapacity /\ Limit("config_bytes") = PayloadCapacity
    BY DEF Resources, Limit
  <2>2. engine[t].head = registry.used["engine_tokens"] /\ engine[c].head = registry.used["config_bytes"]
    BY DEF BudgetInv, Charged
  <2>3. /\ Cost(shape)["engine_tokens"] = TokenBytes(shape.prompt) + TokenBytes(shape.new)
        /\ Cost(shape)["config_bytes"] = ConfigBytes(shape)
    BY CostTypes
  <2>4. /\ registry.used["engine_tokens"] + (TokenBytes(shape.prompt) + TokenBytes(shape.new)) <= PayloadCapacity
        /\ registry.used["config_bytes"] + ConfigBytes(shape) <= PayloadCapacity
        /\ registry.used["engine_tokens"] \in Nat /\ registry.used["config_bytes"] \in Nat
    BY <1>8, <2>1, <2>3
  <2> HIDE DEF output, config, t, c
  <2> QED
    BY <1>2, <1>4, <2>2, <2>4
<1>10. ASSUME NEW k \in Kinds
       PROVE  /\ Extents(hostkv[k], n, BlocksOf(k)) /\ hostkv[k].free = Rest(BlocksOf(k))
              /\ BlocksOf(k) \in Nat /\ blocks \in Nat \ {0}
              /\ BlocksOf(k) + blocks <= HostArenaBlocks
  <2>1. /\ Extents(hostkv[k], n, BlocksOf(k)) /\ hostkv[k].free = Rest(BlocksOf(k))
    BY DEF ExtentsInv
  <2> DEFINE m == IF k = "target" THEN "host_blocks" ELSE "draft_host_blocks"
  <2>2. m \in Resources /\ Limit(m) = HostArenaBlocks /\ Cost(shape)[m] = blocks
    BY CostTypes DEF Resources, Limit
  <2>3. BlocksOf(k) = registry.used[m]
    BY DEF BlocksOf
  <2> QED
    BY <1>8, <2>1, <2>2, <2>3, CostTypes
<1>11. \A k \in Kinds : CanTakeExtent(hostkv[k], n, blocks)
  BY <1>7, <1>10, ExtentFits
<1>12. fits
  BY <1>9, <1>11
<1>13. /\ registry' = [registry EXCEPT !.records = Append(@, entry), !.used = Charge(@, Cost(shape))]
       /\ hostkv' = [k \in Kinds |-> TakeExtent(hostkv[k], n, registry.cohort, blocks)]
       /\ engine' = [engine EXCEPT ![t].head = output.hi, ![c].head = config.hi]
  <2>1. \/ ~ fits
        \/ /\ fits
           /\ registry' = [registry EXCEPT !.records = Append(@, entry), !.used = Charge(@, Cost(shape))]
           /\ hostkv' = [k \in Kinds |-> TakeExtent(hostkv[k], n, registry.cohort, blocks)]
           /\ engine' = [engine EXCEPT ![t].head = output.hi, ![c].head = config.hi]
    BY Zenon DEF Admit
  <2> QED
    BY <1>12, <2>1
<1> HIDE DEF fits
<1>14. entry.shape = shape /\ entry.drafts = 0 /\ entry.targets = 0
  OBVIOUS
<1> HIDE DEF entry, output, config, prompt
<1>15. /\ registry'.records = Append(registry.records, entry)
       /\ registry'.used = Charge(registry.used, Cost(shape))
       /\ registry'.cohort = registry.cohort /\ registry'.state = registry.state
  BY <1>5, <1>13
<1>16. Within' /\ \A m \in Resources : registry'.used[m] = registry.used[m] + Cost(shape)[m]
  BY <1>6, <1>15, ChargeWithin DEF BudgetInv
<1>17. Receipts
  BY DEF BudgetInv
<1>18. /\ Over(ChargedCompletions)' = Over(ChargedCompletions) + CompletionBudget(shape.new)
       /\ Over(WrittenCompletions)' = Over(WrittenCompletions)
       /\ \A m \in {"proposals", "snapshots"} :
            /\ Over(ChargedPayloads(m))' = Over(ChargedPayloads(m)) + (shape.new + 1) * UnitOf(shape, m)
            /\ Over(WrittenPayloads(m))' = Over(WrittenPayloads(m))
  BY <1>6, <1>14, <1>15, <1>17, AdmitSums
<1>19. Charged'
  <2>1. /\ "engine_tokens" \in Resources /\ "config_bytes" \in Resources
        /\ "completions" \in Resources /\ "proposals" \in Resources /\ "snapshots" \in Resources
    BY DEF Resources
  <2>2. engine'[t].head = registry'.used["engine_tokens"]
    <3>1. engine'[t].head = output.hi
      BY <1>1, <1>3, <1>13 DEF AttachmentShapes
    <3>2. engine[t].head = registry.used["engine_tokens"]
      BY DEF BudgetInv, Charged
    <3>3. /\ registry'.used["engine_tokens"] = registry.used["engine_tokens"] + Cost(shape)["engine_tokens"]
          /\ Cost(shape)["engine_tokens"] = TokenBytes(shape.prompt) + TokenBytes(shape.new)
          /\ registry.used["engine_tokens"] \in Nat
      BY <1>8, <1>16, <2>1, CostTypes
    <3> QED
      BY <1>2, <1>4, <3>1, <3>2, <3>3
  <2>3. engine'[c].head = registry'.used["config_bytes"]
    <3>1. engine'[c].head = config.hi
      BY <1>1, <1>3, <1>13 DEF AttachmentShapes
    <3>2. engine[c].head = registry.used["config_bytes"]
      BY DEF BudgetInv, Charged
    <3>3. /\ registry'.used["config_bytes"] = registry.used["config_bytes"] + Cost(shape)["config_bytes"]
          /\ Cost(shape)["config_bytes"] = ConfigBytes(shape)
      BY <1>16, <2>1, CostTypes
    <3> QED
      BY <1>4, <3>1, <3>2, <3>3
  <2>4. registry'.used["completions"] = Over(ChargedCompletions)'
    <3>1. registry'.used["completions"] = registry.used["completions"] + CompletionBudget(shape.new)
      BY <1>16, <2>1, CostTypes
    <3>2. registry.used["completions"] = Over(ChargedCompletions)
      BY DEF BudgetInv, Charged
    <3> QED
      BY <1>18, <3>1, <3>2
  <2>5. \A m \in {"proposals", "snapshots"} : registry'.used[m] = Over(ChargedPayloads(m))'
    <3>1. TAKE m \in {"proposals", "snapshots"}
    <3>2. registry'.used[m] = registry.used[m] + (shape.new + 1) * UnitOf(shape, m)
      BY <1>16, <2>1, CostTypes
    <3>3. registry.used[m] = Over(ChargedPayloads(m))
      BY DEF BudgetInv, Charged
    <3> QED
      BY <1>18, <3>2, <3>3
  <2> QED
    BY <2>2, <2>3, <2>4, <2>5 DEF Charged, t, c
<1>20. /\ Len(registry'.records) = n + 1 /\ registry'.records[n + 1] = entry
       /\ \A i \in 1 .. n : registry'.records[i] = registry.records[i]
  BY <1>5, <1>15
<1>21. RoundsBounded'
  <2>1. SUFFICES ASSUME NEW i \in 1 .. n + 1
                 PROVE  /\ registry'.records[i].drafts <= registry'.records[i].shape.new
                        /\ registry'.records[i].targets <= registry'.records[i].shape.new
    BY <1>20 DEF RoundsBounded, Records
  <2>2. CASE i = n + 1
    <3>1. shape.new \in Nat
      BY MemoryAssumption
    <3> QED
      BY <1>14, <1>20, <2>2, <3>1
  <2>3. CASE i \in 1 .. n
    BY <1>20, <2>3 DEF BudgetInv, RoundsBounded, Records
  <2> QED
    BY <1>5, <2>2, <2>3
<1>22. Receipts'
  <2>1. done' = done /\ sent' = sent
    BY <1>6
  <2> QED
    BY <1>17, <1>18, <2>1 DEF Receipts
<1>23. Drafted'
  <2>1. SUFFICES ASSUME registry.cohort = 1, NEW a \in DraftArenas
                 PROVE  worker'[a].head <= Over(WrittenPayloads(a[1]))'
    BY <1>15 DEF Drafted
  <2>2. a[1] \in {"proposals", "snapshots"}
    BY ArenaFacts
  <2>3. worker[a].head <= Over(WrittenPayloads(a[1])) /\ worker' = worker
    BY <1>6, <2>1 DEF BudgetInv, Drafted
  <2> QED
    BY <1>18, <2>2, <2>3
<1>24. NoRefusal'
  BY <1>6, <1>15 DEF NoRefusal
<1>25. ExtentsInv'
  <2>1. ASSUME NEW k \in Kinds
        PROVE  /\ hostkv'[k] = TakeExtent(hostkv[k], n, registry.cohort, blocks)
               /\ BlocksOf(k)' = BlocksOf(k) + blocks
    <3>1. hostkv'[k] = TakeExtent(hostkv[k], n, registry.cohort, blocks)
      BY <1>13
    <3> DEFINE m == IF k = "target" THEN "host_blocks" ELSE "draft_host_blocks"
    <3>2. m \in Resources /\ Cost(shape)[m] = blocks
      BY CostTypes DEF Resources
    <3>3. BlocksOf(k) = registry.used[m] /\ BlocksOf(k)' = registry'.used[m]
      BY DEF BlocksOf
    <3> QED
      BY <1>16, <3>1, <3>2, <3>3
  <2>2. ASSUME NEW k \in Kinds
        PROVE  /\ Extents(hostkv'[k], n + 1, BlocksOf(k)')
               /\ hostkv'[k].free = Rest(BlocksOf(k)')
    BY <1>7, <1>10, <2>1, ExtentFits
  <2>3. hostkv' = [k \in Kinds |-> hostkv'[k]]
    BY <1>13
  <2> QED
    BY <1>20, <2>2, <2>3 DEF ExtentsInv, Extents, Rest, Start
<1> QED
  BY <1>16, <1>19, <1>21, <1>22, <1>23, <1>24, <1>25 DEF BudgetInv

-----------------------------------------------------------------------------
\* The sums when records keep their shapes and rounds and no WORK becomes or stops pending.
LEMMA SumsStay ==
    ASSUME MemoryInv, Receipts,
           registry'.records \in Seq(RecordShapes),
           Len(registry'.records) = Len(registry.records),
           \A i \in Records : /\ registry'.records[i].shape = registry.records[i].shape
                              /\ registry'.records[i].drafts = registry.records[i].drafts
                              /\ registry'.records[i].targets = registry.records[i].targets,
           \A i \in Records : Pending(i)' = Pending(i)
    PROVE  /\ Over(ChargedCompletions)' = Over(ChargedCompletions)
           /\ Over(WrittenCompletions)' = Over(WrittenCompletions)
           /\ \A m : Over(ChargedPayloads(m))' = Over(ChargedPayloads(m))
           /\ \A m : Over(WrittenPayloads(m))' = Over(WrittenPayloads(m))
<1>1. Records' = Records
  BY DEF Records
<1>2. ChargedCompletions' = ChargedCompletions
  BY <1>1 DEF ChargedCompletions
<1>3. WrittenCompletions' = WrittenCompletions
  BY <1>1 DEF WrittenCompletions, CompletionsOf
<1>4. \A m : ChargedPayloads(m)' = ChargedPayloads(m)
  BY <1>1 DEF ChargedPayloads
<1>5. \A m : WrittenPayloads(m)' = WrittenPayloads(m)
  BY <1>1 DEF WrittenPayloads
<1> QED
  BY <1>2, <1>3, <1>4, <1>5 DEF Over

\* A step that charges nothing, moves no head and lets no WORK become or stop pending.
LEMMA SameCharges ==
    ASSUME MemoryInv, BudgetInv, ExtentsInv,
           UNCHANGED <<hostkv, engine, worker>>,
           registry'.records \in Seq(RecordShapes),
           Len(registry'.records) = Len(registry.records),
           registry'.used = registry.used, registry'.cohort = registry.cohort,
           \A i \in Records : /\ registry'.records[i].shape = registry.records[i].shape
                              /\ registry'.records[i].drafts = registry.records[i].drafts
                              /\ registry'.records[i].targets = registry.records[i].targets,
           \A i \in Records : Pending(i)' = Pending(i),
           Over(WrittenCompletions)' = Over(WrittenCompletions) => Receipts',
           NoRefusal'
    PROVE  BudgetInv' /\ ExtentsInv'
<1>1. /\ Over(ChargedCompletions)' = Over(ChargedCompletions)
      /\ Over(WrittenCompletions)' = Over(WrittenCompletions)
      /\ \A m : Over(ChargedPayloads(m))' = Over(ChargedPayloads(m))
      /\ \A m : Over(WrittenPayloads(m))' = Over(WrittenPayloads(m))
  BY SumsStay DEF BudgetInv
<1>2. Records' = Records
  BY DEF Records
<1>3. Within'
  BY DEF BudgetInv, Within, Limit
<1>4. Charged'
  BY <1>1 DEF BudgetInv, Charged
<1>5. RoundsBounded'
  BY <1>2 DEF BudgetInv, RoundsBounded
<1>6. Drafted'
  BY <1>1 DEF BudgetInv, Drafted
<1>7. ExtentsInv'
  BY DEF ExtentsInv, Extents, Rest, Start, BlocksOf
<1> QED
  BY <1>1, <1>3, <1>4, <1>5, <1>6, <1>7 DEF BudgetInv

\* The end of a request gives nothing back before the cohort ends.
LEMMA RetireKeepsBudget ==
    ASSUME MemoryInv, BudgetInv, ExtentsInv, Retire
    PROVE  BudgetInv' /\ ExtentsInv'
<1>1. /\ registry' = [registry EXCEPT !.state = "retiring"]
      /\ UNCHANGED <<hostkv, engine, worker, done, sent>>
  BY DEF Retire
<1>2. /\ registry = [records |-> registry.records, used |-> registry.used,
                     cohort |-> registry.cohort, state |-> registry.state]
      /\ registry.records \in Seq(RecordShapes)
  BY RegistryForm
<1>3. /\ registry'.records = registry.records /\ registry'.used = registry.used
      /\ registry'.cohort = registry.cohort /\ registry'.state = "retiring"
  BY <1>1, <1>2
<1>4. NoRefusal'
  BY <1>3 DEF NoRefusal
<1>5. Over(WrittenCompletions)' = Over(WrittenCompletions) => Receipts'
  BY <1>1 DEF BudgetInv, Receipts
<1>6. \A i \in Records : Pending(i)' = Pending(i)
  BY <1>1 DEF Pending
<1> QED
  BY <1>1, <1>2, <1>3, <1>4, <1>5, <1>6, SameCharges

\* Both bounds of a round hold when the smaller one does.
LEMMA LeastOfTwo ==
    ASSUME NEW a \in Int, NEW b \in Int, NEW k \in Int, k < Min({a, b})
    PROVE  k < a /\ k < b
<1>1. \E x \in {a, b} : \A y \in {a, b} : x <= y
  OBVIOUS
<1>2. Min({a, b}) \in {a, b} /\ \A y \in {a, b} : Min({a, b}) <= y
  BY <1>1 DEF Min
<1> QED
  BY <1>2

\* One round more of a request.
LEMMA IssuedRecord ==
    ASSUME NEW r \in RecordShapes, NEW role
    PROVE  /\ Issued(r, role) \in RecordShapes /\ Issued(r, role).shape = r.shape
           /\ Issued(r, role).drafts = r.drafts + (IF role = "draft" THEN 1 ELSE 0)
           /\ Issued(r, role).targets = r.targets + (IF role = "draft" THEN 0 ELSE 1)
           /\ r.drafts \in Nat /\ r.targets \in Nat
<1>1. r.drafts \in Nat /\ r.targets \in Nat /\ r.drafts + 1 \in Nat /\ r.targets + 1 \in Nat
  BY DEF RecordShapes
<1>2. CASE role = "draft"
  <2>1. Issued(r, role) = [r EXCEPT !.drafts = r.drafts + 1]
    BY <1>2 DEF Issued
  <2> QED
    BY <1>1, <1>2, <2>1 DEF RecordShapes
<1>3. CASE role # "draft"
  <2>1. Issued(r, role) = [r EXCEPT !.targets = r.targets + 1]
    BY <1>3 DEF Issued
  <2> QED
    BY <1>1, <1>3, <2>1 DEF RecordShapes
<1> QED
  BY <1>2, <1>3

\* One round more of every member of a batch.
LEMMA IssueSums ==
    ASSUME MemoryInv, Receipts, NEW role \in Kinds, NEW batch \in SUBSET Records, NEW x,
           x.role = role, x.stage = "sent", x.batch = batch, x \notin sent,
           registry'.records = [i \in Records |->
               IF i \in batch THEN Issued(registry.records[i], role) ELSE registry.records[i]],
           sent' = sent \cup {x}
    PROVE  /\ Over(ChargedCompletions)' = Over(ChargedCompletions)
           /\ Over(WrittenCompletions)' = Over(WrittenCompletions) + 72 * Cardinality(batch)
           /\ Cardinality(batch) \in Nat
           /\ \A m : Over(ChargedPayloads(m))' = Over(ChargedPayloads(m))
           /\ \A m : Over(WrittenPayloads(m))' = Over(WrittenPayloads(m))
<1> DEFINE size == Len(registry.records)
           old == registry.records
           new == registry'.records
<1>1. /\ old \in Seq(RecordShapes) /\ size \in Nat /\ Records = 1 .. size
      /\ \A i \in Records : old[i] \in RecordShapes /\ old[i].drafts \in Nat /\ old[i].targets \in Nat
  BY RecordTypes
<1>2. \A i \in Records : Issued(old[i], role) \in RecordShapes
  BY <1>1, IssuedRecord
<1>3. Len(new) = size /\ Records' = Records
  <2>1. new = [i \in 1 .. size |-> new[i]] /\ \A i \in 1 .. size : new[i] \in RecordShapes
    BY <1>1, <1>2
  <2> HIDE DEF new, size
  <2>2. Len(new) = size
    BY <1>1, <2>1, RecordsMapped
  <2> QED
    BY <1>1, <2>2 DEF Records, new, size
<1>4. ASSUME NEW i \in Records
      PROVE  /\ new[i].shape = old[i].shape
             /\ new[i].drafts = old[i].drafts + (IF i \in batch /\ role = "draft" THEN 1 ELSE 0)
             /\ new[i].drafts + new[i].targets
                  = old[i].drafts + old[i].targets + (IF i \in batch THEN 1 ELSE 0)
  <2>1. CASE i \in batch
    <3>1. new[i] = Issued(old[i], role)
      BY <2>1
    <3>2. /\ Issued(old[i], role).shape = old[i].shape
          /\ Issued(old[i], role).drafts = old[i].drafts + (IF role = "draft" THEN 1 ELSE 0)
          /\ Issued(old[i], role).targets = old[i].targets + (IF role = "draft" THEN 0 ELSE 1)
          /\ old[i].drafts \in Nat /\ old[i].targets \in Nat
      BY <1>1, IssuedRecord
    <3> HIDE DEF old, new
    <3>3. CASE role = "draft"
      BY <2>1, <3>1, <3>2, <3>3
    <3>4. CASE role # "draft"
      BY <2>1, <3>1, <3>2, <3>4
    <3> QED
      BY <3>3, <3>4
  <2>2. CASE i \notin batch
    BY <1>1, <2>2
  <2> QED
    BY <2>1, <2>2
<1>5. ASSUME NEW i \in Records
      PROVE  Cardinality(Pending(i)') = Cardinality(Pending(i))
                                          + (IF i \in batch /\ role = "draft" THEN 1 ELSE 0)
  <2>1. IsFiniteSet(Pending(i)) /\ Cardinality(Pending(i)) \in Nat /\ x \notin Pending(i)
    BY PendingTypes DEF Pending
  <2>2. CASE i \in batch /\ role = "draft"
    <3>1. Pending(i)' = Pending(i) \cup {x}
      BY <2>2 DEF Pending
    <3>2. Cardinality(Pending(i) \cup {x}) = Cardinality(Pending(i)) + 1
      BY <2>1, FS_AddElement
    <3> QED
      BY <2>2, <3>1, <3>2
  <2>3. CASE ~(i \in batch /\ role = "draft")
    <3>1. Pending(i)' = Pending(i)
      BY <2>3 DEF Pending
    <3> QED
      BY <2>1, <2>3, <3>1
  <2> QED
    BY <2>2, <2>3
<1>6. ChargedCompletions' = ChargedCompletions
  BY <1>3, <1>4 DEF ChargedCompletions
<1>7. \A m : ChargedPayloads(m)' = ChargedPayloads(m)
  BY <1>3, <1>4 DEF ChargedPayloads
<1>8. \A m : WrittenPayloads(m)' = WrittenPayloads(m)
  <2>1. \A i \in Records : new[i].drafts - Cardinality(Pending(i)') = old[i].drafts - Cardinality(Pending(i))
    <3>1. TAKE i \in Records
    <3> DEFINE c == Cardinality(Pending(i))
               c1 == Cardinality(Pending(i)')
               m == IF i \in batch /\ role = "draft" THEN 1 ELSE 0
    <3>2. c \in Nat /\ c1 = c + m /\ m \in Nat
      BY <1>5, PendingTypes
    <3>3. new[i].drafts = old[i].drafts + m /\ old[i].drafts \in Nat
      BY <1>1, <1>4
    <3> HIDE DEF c, c1, m, old, new
    <3>4. new[i].drafts - c1 = old[i].drafts - c
      BY <3>2, <3>3
    <3> QED
      BY <3>4 DEF c, c1
  <2> QED
    BY <1>3, <1>4, <2>1 DEF WrittenPayloads
<1> DEFINE wc == WrittenCompletions
           wc1 == WrittenCompletions'
           d == Of([i \in 1 .. size |-> 72], batch, size)
<1>9. \A i \in 1 .. size : wc[i] \in Int /\ d[i] \in Int /\ wc1[i] = wc[i] + d[i]
  <2>1. TAKE i \in 1 .. size
  <2>2. wc[i] \in Int
    BY <1>1, WeightTypes
  <2>3. wc[i] = 72 * (old[i].drafts + old[i].targets) /\ wc1[i] = 72 * (new[i].drafts + new[i].targets)
    BY <1>1, <1>3, SizesOfBytes DEF WrittenCompletions, CompletionsOf
  <2>4. d[i] = IF i \in batch THEN 72 ELSE 0
    BY DEF Of
  <2>5. i \in Records
    BY <1>1
  <2>6. old[i].drafts \in Nat /\ old[i].targets \in Nat
    BY <1>1, <2>5
  <2>7. new[i].drafts + new[i].targets = old[i].drafts + old[i].targets + (IF i \in batch THEN 1 ELSE 0)
    BY <1>4, <2>5
  <2> HIDE DEF wc, wc1, d, old, new
  <2>8. CASE i \in batch
    BY <2>2, <2>3, <2>4, <2>6, <2>7, <2>8
  <2>9. CASE i \notin batch
    BY <2>2, <2>3, <2>4, <2>6, <2>7, <2>9
  <2> QED
    BY <2>8, <2>9
<1>10. Cardinality(batch) \in Nat /\ 72 * Cardinality(batch) = Total(d, size)
  BY <1>1, SizeOfBatch
<1> HIDE DEF wc, wc1, d, size
<1>11. Total(wc1, size) = Total(wc, size) + Total(d, size)
  <2>1. size \in Nat
    BY <1>1
  <2> QED
    BY <1>9, <2>1, TotalAdds
<1>12. Over(WrittenCompletions)' = Over(WrittenCompletions) + 72 * Cardinality(batch)
  BY <1>3, <1>10, <1>11 DEF Over, wc, wc1, size
<1> QED
  BY <1>3, <1>6, <1>7, <1>8, <1>10, <1>12 DEF Over, size

\* CompletionArena.reserve: the budget has room for a record of every member.
LEMMA RoomForReceipt ==
    ASSUME MemoryInv, BudgetInv, NEW batch \in SUBSET Records, batch # {}
    PROVE  /\ CompletionFits(CompletionBytes(Cardinality(batch)))
           /\ CompletionBytes(Cardinality(batch)) \in Nat \ {0}
           /\ CompletionBytes(Cardinality(batch)) <= 72 * Cardinality(batch)
<1> DEFINE size == Len(registry.records)
           wc == WrittenCompletions
           cc == ChargedCompletions
           d == Of([i \in 1 .. size |-> 72], batch, size)
           w == [i \in 1 .. size |-> wc[i] + d[i]]
<1>1. size \in Nat /\ Records = 1 .. size
  BY RecordTypes
<1>2. Receipts
  BY DEF BudgetInv
<1>3. ASSUME NEW i \in 1 .. size
      PROVE  wc[i] \in Int /\ cc[i] \in Int /\ d[i] \in Int /\ wc[i] + d[i] <= cc[i]
  <2> DEFINE r == registry.records[i]
  <2>1. i \in Records
    BY <1>1
  <2>2. /\ r.drafts \in Nat /\ r.targets \in Nat /\ r.shape.new \in Nat
        /\ r.drafts <= r.shape.new /\ r.targets <= r.shape.new
    BY <2>1, RecordTypes DEF BudgetInv, RoundsBounded
  <2>3. wc[i] = CompletionsOf(r) /\ cc[i] = CompletionBudget(r.shape.new)
    BY <2>1, Zenon DEF WrittenCompletions, ChargedCompletions
  <2> HIDE DEF r, d, wc, cc
  <2>4. d[i] \in {0, 72}
    BY DEF Of, d
  <2>5. wc[i] = 72 * (r.drafts + r.targets) /\ cc[i] = 72 * (2 * r.shape.new + 4)
    BY <2>2, <2>3, SizesOfBytes DEF CompletionsOf
  <2>6. \A a, b, c, e \in Int : /\ a <= c /\ b <= c /\ e <= 72
                                => 72 * (a + b) + e <= 72 * (2 * c + 4)
    OBVIOUS
  <2>7. r.drafts \in Int /\ r.targets \in Int /\ r.shape.new \in Int /\ d[i] \in Int /\ d[i] <= 72
    <3>1. r.drafts \in Int /\ r.targets \in Int /\ r.shape.new \in Int
      BY <2>2
    <3>2. d[i] \in Int /\ d[i] <= 72
      BY <2>4
    <3> QED
      BY <3>1, <3>2
  <2>8. 72 * (r.drafts + r.targets) + d[i] <= 72 * (2 * r.shape.new + 4)
    BY <2>2, <2>6, <2>7
  <2>9. 72 * (r.drafts + r.targets) \in Int /\ 72 * (2 * r.shape.new + 4) \in Int
    BY <2>7
  <2> QED
    BY <2>5, <2>7, <2>8, <2>9
<1>4. Cardinality(batch) \in Nat /\ 72 * Cardinality(batch) = Total(d, size)
  BY <1>1, SizeOfBatch
<1>5. \A i \in 1 .. size : w[i] = wc[i] + d[i]
  OBVIOUS
<1> HIDE DEF size, wc, cc, d, w
<1>6. \A i \in 1 .. size : w[i] \in Int /\ cc[i] \in Int /\ w[i] <= cc[i]
  BY <1>3, <1>5
<1>7. size \in Nat
  BY <1>1
<1>8. Total(w, size) = Total(wc, size) + Total(d, size)
  BY <1>3, <1>5, <1>7, TotalAdds
<1>9. Total(w, size) <= Total(cc, size) /\ Total(wc, size) \in Int /\ Total(cc, size) \in Int
  BY <1>3, <1>6, <1>7, TotalRises, TotalType
<1>10. done.next \in Nat /\ done.next <= Total(wc, size)
  BY <1>2 DEF Receipts, Over, wc, size
<1>11. Total(cc, size) <= PayloadCapacity /\ PayloadCapacity \in Nat
  <2>1. "completions" \in Resources /\ Limit("completions") = PayloadCapacity
    BY DEF Resources, Limit
  <2> QED
    BY <2>1, MemoryAssumption DEF BudgetInv, Within, Charged, Over, cc, size
<1>12. Cardinality(batch) \in Nat \ {0}
  <2>1. IsFiniteSet(batch)
    <3>1. IsFiniteSet(1 .. size)
      BY <1>7, FS_Interval
    <3> QED
      BY <1>1, <3>1, FS_Subset
  <2> QED
    BY <1>4, <2>1, FS_EmptySet
<1>13. CompletionBytes(Cardinality(batch)) \in 1 .. 72 * Cardinality(batch)
  BY <1>12, SizesOfBytes
<1> QED
  BY <1>4, <1>8, <1>9, <1>10, <1>11, <1>12, <1>13 DEF CompletionFits

\* WorkProgress: a WORK is issued with a receipt for every member.
LEMMA IssueKeepsBudget ==
    ASSUME MemoryInv, MemoryInv', BudgetInv, ExtentsInv, NEW role \in Kinds, NEW v,
           NEW batch \in SUBSET Records, batch # {}, IssueWork(role, v, batch)
    PROVE  BudgetInv' /\ ExtentsInv'
<1> DEFINE bytes == CompletionBytes(Cardinality(batch))
           x == [role |-> role, worker |-> v, batch |-> batch, at |-> done.next, stage |-> "sent"]
<1>1. CompletionFits(bytes) /\ bytes \in Nat \ {0} /\ bytes <= 72 * Cardinality(batch)
  BY RoomForReceipt
<1>2. /\ registry' = [registry EXCEPT !.records = [i \in Records |->
               IF i \in batch THEN Issued(registry.records[i], role) ELSE registry.records[i]]]
      /\ done' = [done EXCEPT !.next = @ + bytes] /\ sent' = sent \cup {x}
      /\ UNCHANGED <<hostkv, engine, worker>> /\ registry.state = "open"
      /\ \A i \in batch : MayIssue(registry.records[i], role)
  BY <1>1 DEF IssueWork, CompletionReserved, Running
<1>3. Receipts
  BY DEF BudgetInv
<1>4. x \notin sent
  <2>1. x.at = done.next /\ done.next \in Nat
    BY <1>3 DEF Receipts
  <2>2. \A y \in sent : y.at < done.next
    BY <1>3 DEF Receipts
  <2> QED
    BY <2>1, <2>2
<1>5. x.role = role /\ x.stage = "sent" /\ x.batch = batch /\ x.at = done.next
  OBVIOUS
<1> HIDE DEF x, bytes
<1>6. /\ registry = [records |-> registry.records, used |-> registry.used,
                     cohort |-> registry.cohort, state |-> registry.state]
      /\ registry.records \in Seq(RecordShapes) /\ Len(registry.records) \in Nat
  BY RegistryForm
<1>7. /\ registry'.records = [i \in Records |->
            IF i \in batch THEN Issued(registry.records[i], role) ELSE registry.records[i]]
      /\ registry'.used = registry.used /\ registry'.cohort = registry.cohort
      /\ registry'.state = registry.state
  BY <1>2, <1>6
<1>8. /\ Over(ChargedCompletions)' = Over(ChargedCompletions)
      /\ Over(WrittenCompletions)' = Over(WrittenCompletions) + 72 * Cardinality(batch)
      /\ Cardinality(batch) \in Nat
      /\ \A m : Over(ChargedPayloads(m))' = Over(ChargedPayloads(m))
      /\ \A m : Over(WrittenPayloads(m))' = Over(WrittenPayloads(m))
  BY <1>2, <1>3, <1>4, <1>5, <1>7, IssueSums
<1>9. Within'
  BY <1>7 DEF BudgetInv, Within, Limit
<1>10. Charged'
  BY <1>2, <1>7, <1>8 DEF BudgetInv, Charged
<1>11. Len(registry'.records) = Len(registry.records)
  <2> DEFINE new == registry'.records
  <2>1. new = [i \in 1 .. Len(registry.records) |-> new[i]]
    BY <1>7 DEF Records
  <2>2. \A i \in 1 .. Len(registry.records) : new[i] \in RecordShapes
    <3>1. TAKE i \in 1 .. Len(registry.records)
    <3>2. registry.records[i] \in RecordShapes /\ i \in Records
      BY <1>6 DEF Records
    <3>3. Issued(registry.records[i], role) \in RecordShapes
      BY <3>2, IssuedRecord
    <3> QED
      BY <1>7, <3>2, <3>3
  <2> HIDE DEF new
  <2>3. Len(new) = Len(registry.records)
    BY <1>6, <2>1, <2>2, RecordsMapped
  <2> QED
    BY <2>3 DEF new
<1>12. Records' = Records
  BY <1>11 DEF Records
<1>13. RoundsBounded'
  <2>1. SUFFICES ASSUME NEW i \in Records
                 PROVE  /\ registry'.records[i].drafts <= registry'.records[i].shape.new
                        /\ registry'.records[i].targets <= registry'.records[i].shape.new
    BY <1>12 DEF RoundsBounded
  <2> DEFINE r == registry.records[i]
  <2>2. /\ r.drafts \in Nat /\ r.targets \in Nat /\ r.shape.new \in Nat /\ r \in RecordShapes
        /\ r.drafts <= r.shape.new /\ r.targets <= r.shape.new
    BY RecordTypes DEF BudgetInv, RoundsBounded
  <2>3. CASE i \in batch
    <3>1. registry'.records[i] = Issued(r, role) /\ MayIssue(r, role)
      BY <1>2, <1>7, <2>3
    <3> HIDE DEF r
    <3>2. /\ Issued(r, role).shape = r.shape
          /\ Issued(r, role).drafts = r.drafts + (IF role = "draft" THEN 1 ELSE 0)
          /\ Issued(r, role).targets = r.targets + (IF role = "draft" THEN 0 ELSE 1)
      BY <2>2, IssuedRecord
    <3>3. CASE role = "draft"
      <4>1. r.drafts < Min({r.targets, r.shape.new})
        BY <3>1, <3>3 DEF MayIssue
      <4>2. r.drafts < r.shape.new
        <5> DEFINE p == r.targets
                   q == r.shape.new
                   k == r.drafts
        <5>1. p \in Int /\ q \in Int /\ k \in Int /\ k < Min({p, q})
          BY <2>2, <4>1
        <5> HIDE DEF p, q, k
        <5>2. k < q
          BY <5>1, LeastOfTwo
        <5> QED
          BY <5>2 DEF k, q
      <4> QED
        BY <2>2, <3>1, <3>2, <3>3, <4>2
    <3>4. CASE role # "draft"
      <4>1. r.targets < r.shape.new
        BY <3>1, <3>4 DEF MayIssue
      <4> QED
        BY <2>2, <3>1, <3>2, <3>4, <4>1
    <3> QED
      BY <3>3, <3>4
  <2>4. CASE i \notin batch
    BY <1>7, <2>2, <2>4
  <2> QED
    BY <2>3, <2>4
<1>14. Receipts'
  <2>1. done = [next |-> done.next, written |-> done.written] /\ done.next \in Nat
    BY <1>3 DEF Receipts
  <2>2. done' = [next |-> done'.next, written |-> done'.written]
        /\ done'.next = done.next + bytes /\ done'.written = done.written
    BY <1>2, <2>1
  <2>3. done'.next <= Over(WrittenCompletions)'
    <3>1. Over(WrittenCompletions) \in Int
      <4> DEFINE wc == WrittenCompletions
                 size == Len(registry.records)
      <4>1. \A i \in 1 .. size : wc[i] \in Int
        BY <1>3, WeightTypes DEF Records
      <4> HIDE DEF wc, size
      <4>2. size \in Nat
        BY <1>6 DEF size
      <4>3. Total(wc, size) \in Int
        BY <4>1, <4>2, TotalType
      <4> QED
        BY <4>3 DEF Over, wc, size
    <3>2. done.next <= Over(WrittenCompletions)
      BY <1>3 DEF Receipts
    <3> QED
      BY <1>1, <1>8, <2>1, <2>2, <3>1, <3>2
  <2>4. IsFiniteSet(sent')
    BY <1>2, <1>3, FS_AddElement DEF Receipts
  <2>5. \A y \in sent' : y.at \in Nat /\ y.at < done'.next /\ y.at \notin done'.written
    <3>1. \A y \in sent : y.at \in Nat /\ y.at < done.next /\ y.at \notin done.written
      BY <1>3 DEF Receipts
    <3>2. \A m \in done.written : m \in Nat /\ m < done.next
      BY <1>3 DEF Receipts
    <3>3. done.next \notin done.written
      BY <2>1, <3>2
    <3> QED
      BY <1>1, <1>2, <1>5, <2>1, <2>2, <3>1, <3>3
  <2>6. \A y, z \in sent' : y.at = z.at => y = z
    <3>1. \A y \in sent : y.at \in Nat /\ y.at < done.next
      BY <1>3 DEF Receipts
    <3>2. \A y, z \in sent : y.at = z.at => y = z
      BY <1>3 DEF Receipts
    <3> QED
      BY <1>2, <1>5, <2>1, <3>1, <3>2
  <2>7. \A m \in done'.written : m \in Nat /\ m < done'.next
    <3>1. \A m \in done.written : m \in Nat /\ m < done.next
      BY <1>3 DEF Receipts
    <3> QED
      BY <1>1, <2>1, <2>2, <3>1
  <2> QED
    BY <2>2, <2>3, <2>4, <2>5, <2>6, <2>7, <1>1, <2>1 DEF Receipts
<1>15. Drafted'
  BY <1>2, <1>7, <1>8 DEF BudgetInv, Drafted
<1>16. NoRefusal'
  BY <1>7 DEF BudgetInv, NoRefusal
<1>17. ExtentsInv'
  BY <1>2, <1>7, <1>11 DEF ExtentsInv, Extents, Rest, Start, BlocksOf
<1> QED
  BY <1>9, <1>10, <1>13, <1>14, <1>15, <1>16, <1>17 DEF BudgetInv

-----------------------------------------------------------------------------
\* The bytes one round of every request takes in an arena of the given kind.
Units(n) == [i \in Records |-> UnitOf(registry.records[i].shape, n)]

\* What a Draft WORK reserves is the sum of the rounds of its members.
LEMMA DraftBytesTotal ==
    ASSUME MemoryInv, NEW x \in sent, NEW n \in {"proposals", "snapshots"}
    PROVE  DraftBytes(x, n) = Total(Of(Units(n), x.batch, Len(registry.records)), Len(registry.records))
<1> DEFINE size == Len(registry.records)
           u == Units(n)
<1>1. size \in Nat /\ Records = 1 .. size /\ x.batch \in SUBSET (1 .. size)
  BY RecordTypes DEF MemoryInv, SentWork
<1>2. \A i \in 1 .. size : u[i] = UnitOf(registry.records[i].shape, n) /\ u[i] \in Int
  <2>1. TAKE i \in 1 .. size
  <2>2. u[i] = UnitOf(registry.records[i].shape, n)
    BY <1>1, Zenon DEF Units
  <2>3. registry.records[i].shape \in Shapes
    BY <1>1, RecordTypes
  <2> QED
    BY <2>2, <2>3, UnitTypes
<1> HIDE DEF size, u
<1>3. IsFiniteSet(x.batch)
  <2>1. IsFiniteSet(1 .. size)
    BY <1>1, FS_Interval
  <2> QED
    BY <1>1, <2>1, FS_Subset
<1>4. CASE n = "snapshots"
  <2> DEFINE v == [i \in 1 .. size |-> SnapshotBytes]
  <2>1. DraftBytes(x, n) = SnapshotBytes * Cardinality(x.batch)
    <3>1. Cardinality(x.batch) \in Nat /\ SnapshotBytes \in Nat
      BY <1>3, FS_CardinalityType DEF SnapshotBytes
    <3>2. DraftBytes(x, n) = Cardinality(x.batch) * SnapshotBytes
      BY <1>4 DEF DraftBytes
    <3> QED
      BY <3>1, <3>2 DEF SnapshotBytes
  <2>2. SnapshotBytes * Cardinality(x.batch) = Total(Of(v, x.batch, size), size)
    BY <1>1, SizeOfBatch, SnapshotBytes \in Nat DEF SnapshotBytes
  <2>3. \A i \in 1 .. size : u[i] = SnapshotBytes
    BY <1>2, <1>4 DEF UnitOf
  <2>4. Of(v, x.batch, size) = Of(u, x.batch, size)
    BY <2>3 DEF Of
  <2> QED
    BY <2>1, <2>2, <2>4 DEF size, u
<1>5. CASE n = "proposals"
  <2>1. \A i \in x.batch : u[i] = ProposalBytes(registry.records[i].shape.depth)
    BY <1>1, <1>2, <1>5 DEF UnitOf
  <2>2. PICK f : /\ f = Added(u, f, SUBSET x.batch)
                 /\ MapThenSumSet(LAMBDA i : ProposalBytes(registry.records[i].shape.depth), x.batch)
                      = f[x.batch]
    BY <1>3, <2>1, ProposalFold, Zenon
  <2>3. f[x.batch] = Total(Of(u, x.batch, size), size)
    BY <1>1, <1>2, <2>2, TotalOfBatch
  <2>4. DraftBytes(x, n) = MapThenSumSet(LAMBDA i : ProposalBytes(registry.records[i].shape.depth), x.batch)
    <3>1. n # "snapshots"
      BY <1>5
    <3> QED
      BY <3>1, Zenon DEF DraftBytes
  <2>5. DraftBytes(x, n) = f[x.batch]
    BY <2>2, <2>4, Zenon
  <2> QED
    BY <2>3, <2>5 DEF size, u
<1> QED
  BY <1>4, <1>5

\* The written payloads with those of one WORK more are within what was charged.
LEMMA RoomForPayloads ==
    ASSUME MemoryInv, BudgetInv, NEW x \in sent, NEW n \in {"proposals", "snapshots"}
    PROVE  /\ DraftBytes(x, n) \in Int /\ Over(WrittenPayloads(n)) \in Int
           /\ Over(WrittenPayloads(n)) + DraftBytes(x, n) <= PayloadCapacity
           /\ PayloadCapacity \in Int
<1> DEFINE size == Len(registry.records)
           u == Units(n)
           wp == WrittenPayloads(n)
           cp == ChargedPayloads(n)
           d == Of(u, x.batch, size)
           w == [i \in 1 .. size |-> wp[i] + d[i]]
<1>1. size \in Nat /\ Records = 1 .. size
  BY RecordTypes
<1>2. DraftBytes(x, n) = Total(d, size)
  BY DraftBytesTotal
<1>3. Receipts
  BY DEF BudgetInv
<1>4. ASSUME NEW i \in 1 .. size
      PROVE  wp[i] \in Int /\ cp[i] \in Int /\ d[i] \in Int /\ wp[i] + d[i] <= cp[i]
  <2> DEFINE r == registry.records[i]
             p == Cardinality(Pending(i))
             k == UnitOf(r.shape, n)
  <2>1. i \in Records
    BY <1>1
  <2>2. /\ r.drafts \in Nat /\ r.shape.new \in Nat /\ r.shape \in Shapes /\ p \in Nat
        /\ r.drafts <= r.shape.new
    BY <1>3, <2>1, RecordTypes, PendingTypes DEF BudgetInv, RoundsBounded
  <2>3. k \in Nat
    BY <2>2, UnitTypes
  <2>4. wp[i] = (r.drafts - p) * k /\ cp[i] = (r.shape.new + 1) * k
    BY <2>1, Zenon DEF WrittenPayloads, ChargedPayloads
  <2>5. u[i] = k
    BY <2>1, Zenon DEF Units
  <2>6. wp[i] \in Int /\ cp[i] \in Int
    BY <1>3, <2>1, WeightTypes
  <2> HIDE DEF u
  <2>7. d[i] \in {0, k}
    BY <2>5 DEF Of
  <2>8. \A a, b \in Int : \A c \in Nat : \A e \in {0, c} : a <= b => a * c + e <= (b + 1) * c
    <3>1. TAKE a \in Int, b \in Int
    <3>2. TAKE c \in Nat
    <3>3. TAKE e \in {0, c}
    <3>4. HAVE a <= b
    <3>5. a * c <= b * c /\ (b + 1) * c = b * c + c
      BY <3>4
    <3>6. a * c \in Int /\ b * c \in Int /\ (b + 1) * c \in Int
      OBVIOUS
    <3> QED
      BY <3>5, <3>6
  <2>9. (r.drafts - p) * k + d[i] <= (r.shape.new + 1) * k
    <3> DEFINE a == r.drafts - p
               b == r.shape.new
               e == d[i]
    <3>1. a \in Int /\ b \in Int /\ a <= b
      BY <2>2
    <3>2. e \in {0, k}
      BY <2>7
    <3> HIDE DEF a, b, e, k
    <3>3. a * k + e <= (b + 1) * k
      BY <2>3, <2>8, <3>1, <3>2
    <3> QED
      BY <3>3 DEF a, b, e
  <2>10. d[i] \in Int
    BY <2>3, <2>7
  <2> QED
    BY <2>4, <2>6, <2>9, <2>10
<1>5. \A i \in 1 .. size : w[i] = wp[i] + d[i]
  OBVIOUS
<1> HIDE DEF wp, cp, d, w, size, u
<1>6. \A i \in 1 .. size : w[i] \in Int /\ cp[i] \in Int /\ w[i] <= cp[i]
  BY <1>4, <1>5
<1>7. Total(w, size) = Total(wp, size) + Total(d, size)
  BY <1>1, <1>4, <1>5, TotalAdds
<1>8. Total(w, size) <= Total(cp, size)
  BY <1>1, <1>6, TotalRises
<1>9. Total(wp, size) \in Int /\ Total(cp, size) \in Int /\ Total(d, size) \in Int
  BY <1>1, <1>4, TotalType
<1>10. Total(cp, size) <= PayloadCapacity /\ PayloadCapacity \in Nat
  <2>1. n \in Resources /\ Limit(n) = PayloadCapacity
    BY DEF Resources, Limit
  <2>2. registry.used[n] = Over(ChargedPayloads(n)) /\ registry.used[n] <= Limit(n)
    BY <2>1 DEF BudgetInv, Within, Charged
  <2> QED
    BY <2>1, <2>2, MemoryAssumption DEF Over, cp, size
<1> QED
  BY <1>2, <1>7, <1>8, <1>9, <1>10 DEF Over, wp, size

\* The sums when a Draft WORK has reserved its payloads.
LEMMA ReserveSums ==
    ASSUME MemoryInv, Receipts, NEW x \in sent, NEW y,
           x.role = "draft", x.stage = "sent", y.stage = "reserved",
           UNCHANGED registry, sent' = (sent \ {x}) \cup {y}
    PROVE  /\ Over(ChargedCompletions)' = Over(ChargedCompletions)
           /\ Over(WrittenCompletions)' = Over(WrittenCompletions)
           /\ \A n \in {"proposals", "snapshots"} :
                /\ Over(ChargedPayloads(n))' = Over(ChargedPayloads(n))
                /\ Over(WrittenPayloads(n))' = Over(WrittenPayloads(n)) + DraftBytes(x, n)
<1> DEFINE size == Len(registry.records)
<1>1. size \in Nat /\ Records = 1 .. size /\ Records' = Records
  BY RecordTypes DEF Records
<1>2. ASSUME NEW i \in Records
      PROVE  Cardinality(Pending(i)') = Cardinality(Pending(i)) - (IF i \in x.batch THEN 1 ELSE 0)
  <2>1. IsFiniteSet(Pending(i)) /\ Cardinality(Pending(i)) \in Nat
    BY PendingTypes
  <2>2. CASE i \in x.batch
    <3>1. Pending(i)' = Pending(i) \ {x} /\ x \in Pending(i)
      BY <2>2 DEF Pending
    <3>2. Cardinality(Pending(i) \ {x}) = Cardinality(Pending(i)) - 1
      BY <2>1, <3>1, FS_RemoveElement
    <3> QED
      BY <2>2, <3>1, <3>2
  <2>3. CASE i \notin x.batch
    <3>1. Pending(i)' = Pending(i)
      BY <2>3 DEF Pending
    <3> QED
      BY <2>1, <2>3, <3>1
  <2> QED
    BY <2>2, <2>3
<1>3. ASSUME NEW n \in {"proposals", "snapshots"}
      PROVE  Over(WrittenPayloads(n))' = Over(WrittenPayloads(n)) + DraftBytes(x, n)
  <2> DEFINE u == Units(n)
             d == Of(u, x.batch, size)
             wp == WrittenPayloads(n)
             wp1 == WrittenPayloads(n)'
  <2>1. ASSUME NEW i \in 1 .. size
        PROVE  wp[i] \in Int /\ d[i] \in Int /\ wp1[i] = wp[i] + d[i]
    <3> DEFINE r == registry.records[i]
               p == Cardinality(Pending(i))
               q == Cardinality(Pending(i)')
               k == UnitOf(r.shape, n)
    <3>1. i \in Records
      BY <1>1
    <3>2. r.drafts \in Nat /\ r.shape \in Shapes /\ p \in Nat /\ k \in Nat
      BY <3>1, RecordTypes, PendingTypes, UnitTypes
    <3>3. q = p - (IF i \in x.batch THEN 1 ELSE 0)
      BY <1>2, <3>1
    <3>4. wp[i] = (r.drafts - p) * k /\ wp[i] \in Int
      <4>1. wp[i] \in Int
        BY <3>1, WeightTypes
      <4>2. wp[i] = (r.drafts - p) * k
        BY <3>1, Zenon DEF WrittenPayloads
      <4> QED
        BY <4>1, <4>2
    <3>5. wp1[i] = (r.drafts - q) * k
      <4>1. wp1 = [j \in Records |-> (registry.records[j].drafts - Cardinality(Pending(j)'))
                                       * UnitOf(registry.records[j].shape, n)]
        BY <1>1 DEF WrittenPayloads, UnitOf
      <4> HIDE DEF wp1
      <4> QED
        BY <3>1, <4>1, Zenon
    <3>6. u[i] = k
      BY <3>1, Zenon DEF Units
    <3> HIDE DEF u
    <3>7. d[i] = IF i \in x.batch THEN k ELSE 0
      BY <3>6 DEF Of
    <3>8. \A a, b \in Int, c \in Nat : (a - (b - 1)) * c = (a - b) * c + c
      <4>1. TAKE a \in Int, b \in Int, c \in Nat
      <4> DEFINE m == a - b
      <4>2. m \in Int /\ a - (b - 1) = m + 1
        OBVIOUS
      <4> HIDE DEF m
      <4>3. (m + 1) * c = m * c + c
        BY <4>2
      <4> QED
        BY <4>2, <4>3 DEF m
    <3> DEFINE a == r.drafts
    <3>9. a \in Int /\ p \in Int
      BY <3>2
    <3> HIDE DEF a, p, q, k, wp, wp1, d
    <3>10. CASE i \in x.batch
      <4>1. q = p - 1 /\ d[i] = k
        BY <3>3, <3>7, <3>10
      <4>2. (a - q) * k = (a - p) * k + k
        BY <3>2, <3>8, <3>9, <4>1
      <4> QED
        BY <3>2, <3>4, <3>5, <4>1, <4>2 DEF a
    <3>11. CASE i \notin x.batch
      <4>1. q = p /\ d[i] = 0
        BY <3>3, <3>7, <3>9, <3>11
      <4> QED
        BY <3>4, <3>5, <4>1
    <3> QED
      BY <3>10, <3>11
  <2>2. DraftBytes(x, n) = Total(d, size)
    BY DraftBytesTotal
  <2> HIDE DEF wp, wp1, d, u, size
  <2>3. Total(wp1, size) = Total(wp, size) + Total(d, size)
    BY <1>1, <2>1, TotalAdds
  <2> QED
    BY <2>2, <2>3 DEF Over, wp, wp1, size
<1>4. ChargedCompletions' = ChargedCompletions
  BY <1>1 DEF ChargedCompletions
<1>5. WrittenCompletions' = WrittenCompletions
  BY <1>1 DEF WrittenCompletions, CompletionsOf
<1>6. \A m : ChargedPayloads(m)' = ChargedPayloads(m)
  BY <1>1 DEF ChargedPayloads
<1> QED
  BY <1>3, <1>4, <1>5, <1>6 DEF Over

\* DraftPublisher.reserve: in the first cohort there is room, in the arenas of any worker.
LEMMA ReserveKeepsBudget ==
    ASSUME MemoryInv, BudgetInv, ExtentsInv, NEW x \in sent, ReservePayloads(x)
    PROVE  BudgetInv' /\ ExtentsInv'
<1> DEFINE mine == {a \in DraftArenas : a[2] = x.worker}
           y == [x EXCEPT !.stage = "reserved"]
           fits == \A a \in mine : worker[a].head + DraftBytes(x, a[1]) <= PayloadCapacity
<1>1. /\ registry = [records |-> registry.records, used |-> registry.used,
                     cohort |-> registry.cohort, state |-> registry.state]
      /\ registry.records \in Seq(RecordShapes) /\ registry.cohort \in Nat \ {0}
  BY RegistryForm
<1>2. Receipts
  BY DEF BudgetInv
<1>3. x.role = "draft" /\ x.stage = "sent" /\ UNCHANGED <<hostkv, engine, done>>
      /\ registry.state = "open"
  BY DEF ReservePayloads, Running
<1>4. \A a \in DraftArenas : a[1] \in {"proposals", "snapshots"}
  BY ArenaFacts
<1>5. \A a \in DraftArenas : worker[a].head \in Int
  BY DEF MemoryInv, MemoryShape, AttachmentShapes
<1>6. registry.cohort = 1 => fits
  <2>1. SUFFICES ASSUME registry.cohort = 1, NEW a \in DraftArenas
                 PROVE worker[a].head + DraftBytes(x, a[1]) <= PayloadCapacity
    OBVIOUS
  <2> DEFINE n == a[1]
             h == worker[a].head
  <2>2. n \in {"proposals", "snapshots"} /\ h \in Int
    BY <1>4, <1>5
  <2>3. h <= Over(WrittenPayloads(n))
    BY <2>1 DEF BudgetInv, Drafted
  <2> HIDE DEF n, h
  <2>4. /\ DraftBytes(x, n) \in Int /\ Over(WrittenPayloads(n)) \in Int
        /\ Over(WrittenPayloads(n)) + DraftBytes(x, n) <= PayloadCapacity
        /\ PayloadCapacity \in Int
    BY <2>2, RoomForPayloads
  <2>5. h + DraftBytes(x, n) <= PayloadCapacity
    BY <2>2, <2>3, <2>4
  <2> QED
    BY <2>5 DEF n, h
<1>7. CASE ~ fits
  <2>1. /\ registry' = [registry EXCEPT !.state = "worker failed"]
        /\ UNCHANGED <<worker, sent>>
    BY <1>7 DEF ReservePayloads
  <2>2. /\ registry'.records = registry.records /\ registry'.used = registry.used
        /\ registry'.cohort = registry.cohort /\ registry'.state = "worker failed"
    BY <1>1, <2>1
  <2>3. NoRefusal'
    BY <1>6, <1>7, <2>2 DEF NoRefusal
  <2>4. Over(WrittenCompletions)' = Over(WrittenCompletions) => Receipts'
    BY <1>2, <1>3, <2>1 DEF Receipts
  <2>5. \A i \in Records : Pending(i)' = Pending(i)
    BY <2>1 DEF Pending
  <2> QED
    BY <1>1, <1>3, <2>1, <2>2, <2>3, <2>4, <2>5, SameCharges
<1>8. CASE fits
  <2>1. /\ worker' = [a \in DraftArenas |->
                        IF a \in mine THEN Advanced(worker[a], DraftBytes(x, a[1])) ELSE worker[a]]
        /\ sent' = (sent \ {x}) \cup {y}
        /\ UNCHANGED registry
    BY <1>8 DEF ReservePayloads
  <2>2. y.stage = "reserved" /\ y.at = x.at
    <3>1. x = [role |-> x.role, worker |-> x.worker, batch |-> x.batch, at |-> x.at, stage |-> x.stage]
      BY DEF MemoryInv, SentWork
    <3> QED
      BY <3>1
  <2> HIDE DEF y
  <2>3. /\ Over(ChargedCompletions)' = Over(ChargedCompletions)
        /\ Over(WrittenCompletions)' = Over(WrittenCompletions)
        /\ \A n \in {"proposals", "snapshots"} :
             /\ Over(ChargedPayloads(n))' = Over(ChargedPayloads(n))
             /\ Over(WrittenPayloads(n))' = Over(WrittenPayloads(n)) + DraftBytes(x, n)
    BY <1>2, <1>3, <2>1, <2>2, ReserveSums
  <2>4. Within'
    BY <2>1 DEF BudgetInv, Within, Limit
  <2>5. Charged'
    BY <1>3, <2>1, <2>3 DEF BudgetInv, Charged
  <2>6. RoundsBounded'
    BY <2>1 DEF BudgetInv, RoundsBounded, Records
  <2>7. Receipts'
    <3>1. IsFiniteSet(sent')
      <4>1. IsFiniteSet(sent \ {x})
        BY <1>2, FS_RemoveElement DEF Receipts
      <4> QED
        BY <2>1, <4>1, FS_AddElement
    <3>2. \A z \in sent' : z.at \in Nat /\ z.at < done'.next /\ z.at \notin done'.written
      BY <1>2, <1>3, <2>1, <2>2 DEF Receipts
    <3>3. \A z, t \in sent' : z.at = t.at => z = t
      BY <1>2, <2>1, <2>2 DEF Receipts
    <3> QED
      BY <1>2, <1>3, <2>3, <3>1, <3>2, <3>3 DEF Receipts
  <2>8. Drafted'
    <3>1. SUFFICES ASSUME registry.cohort = 1, NEW a \in DraftArenas
                   PROVE  worker'[a].head <= Over(WrittenPayloads(a[1]))'
      BY <2>1 DEF Drafted
    <3> DEFINE n == a[1]
               h == worker[a].head
               b == DraftBytes(x, n)
    <3>2. n \in {"proposals", "snapshots"} /\ h \in Int
      BY <1>4, <1>5
    <3>3. h <= Over(WrittenPayloads(n))
      BY <3>1 DEF BudgetInv, Drafted
    <3>4. b \in Nat
      BY DraftBytesNatural DEF MemoryInv, SentWork
    <3>5. Over(WrittenPayloads(n)) \in Int
      BY <3>2, RoomForPayloads
    <3>6. Over(WrittenPayloads(n))' = Over(WrittenPayloads(n)) + b
      BY <2>3, <3>2
    <3>7. worker'[a].head \in {h, h + b}
      <4>1. worker[a] = [generation |-> worker[a].generation, head |-> worker[a].head]
        BY DEF MemoryInv, MemoryShape, AttachmentShapes
      <4>2. Advanced(worker[a], b).head = h + b
        BY <4>1 DEF Advanced
      <4> QED
        BY <2>1, <4>2
    <3> DEFINE w == Over(WrittenPayloads(n))
               w1 == Over(WrittenPayloads(n))'
               g == worker'[a].head
    <3>8. h \in Int /\ b \in Nat /\ w \in Int /\ w1 = w + b /\ g \in {h, h + b} /\ h <= w
      BY <3>2, <3>3, <3>4, <3>5, <3>6, <3>7
    <3> HIDE DEF h, b, w, w1, g, n
    <3>9. g <= w1
      BY <3>8
    <3> QED
      BY <3>9 DEF g, w1, n
  <2>9. NoRefusal'
    BY <2>1 DEF BudgetInv, NoRefusal
  <2>10. ExtentsInv'
    BY <1>3, <2>1 DEF ExtentsInv, Extents, Rest, Start, BlocksOf
  <2> QED
    BY <2>4, <2>5, <2>6, <2>7, <2>8, <2>9, <2>10 DEF BudgetInv
<1> QED
  BY <1>7, <1>8

\* CompletionArena.publish: a record is written once, and nothing is charged.
LEMMA CompleteKeepsBudget ==
    ASSUME MemoryInv, BudgetInv, ExtentsInv, NEW x \in sent, Complete(x)
    PROVE  BudgetInv' /\ ExtentsInv'
<1>1. /\ registry = [records |-> registry.records, used |-> registry.used,
                     cohort |-> registry.cohort, state |-> registry.state]
      /\ registry.records \in Seq(RecordShapes) /\ registry.cohort \in Nat \ {0}
      /\ Len(registry.records) \in Nat
  BY RegistryForm
<1>2. Receipts /\ NoRefusal
  BY DEF BudgetInv
<1>3. /\ UNCHANGED <<hostkv, engine, worker>> /\ sent' = sent \ {x}
      /\ done' = [done EXCEPT !.written = @ \cup {x.at}]
      /\ x.role = "draft" => x.stage = "reserved"
      /\ registry.state = "open"
  BY DEF Complete, Running
<1>4. x.at \notin done.written
  BY <1>2 DEF Receipts
<1>5. \A i \in Records : Pending(i)' = Pending(i)
  BY <1>3 DEF Pending
<1>6. Over(WrittenCompletions)' = Over(WrittenCompletions) => Receipts'
  <2>1. done = [next |-> done.next, written |-> done.written]
    BY <1>2 DEF Receipts
  <2>2. /\ done' = [next |-> done'.next, written |-> done'.written]
        /\ done'.next = done.next /\ done'.written = done.written \cup {x.at}
    BY <1>3, <2>1
  <2>3. IsFiniteSet(sent')
    BY <1>2, <1>3, FS_RemoveElement DEF Receipts
  <2>4. \A y \in sent' : y.at # x.at
    BY <1>2, <1>3 DEF Receipts
  <2> QED
    BY <1>2, <1>3, <2>2, <2>3, <2>4 DEF Receipts
<1>7. CASE UNCHANGED registry
  <2>1. NoRefusal'
    BY <1>2, <1>7 DEF NoRefusal
  <2> QED
    BY <1>1, <1>3, <1>5, <1>6, <1>7, <2>1, SameCharges
<1>8. CASE \E n \in AppendSizes, stop \in BOOLEAN :
              registry' = [registry EXCEPT !.records = [i \in Records |->
                  IF i \in x.batch /\ ~ registry.records[i].finished
                  THEN Appended(registry.records[i], n, stop)
                  ELSE registry.records[i]]]
  <2>1. PICK n \in AppendSizes, stop \in BOOLEAN :
              registry' = [registry EXCEPT !.records = [i \in Records |->
                  IF i \in x.batch /\ ~ registry.records[i].finished
                  THEN Appended(registry.records[i], n, stop)
                  ELSE registry.records[i]]]
    BY <1>8
  <2> DEFINE records == [i \in Records |->
                           IF i \in x.batch /\ ~ registry.records[i].finished
                           THEN Appended(registry.records[i], n, stop)
                           ELSE registry.records[i]]
  <2>2. n \in Int
    BY DEF AppendSizes
  <2>3. \A i \in Records : /\ records[i] \in RecordShapes
                           /\ records[i].shape = registry.records[i].shape
                           /\ records[i].drafts = registry.records[i].drafts
                           /\ records[i].targets = registry.records[i].targets
    <3>1. TAKE i \in Records
    <3>2. registry.records[i] \in RecordShapes
      BY <1>1 DEF Records
    <3> DEFINE b == Appended(registry.records[i], n, stop)
    <3>3. /\ b \in RecordShapes
          /\ b.shape = registry.records[i].shape
          /\ b.drafts = registry.records[i].drafts
          /\ b.targets = registry.records[i].targets
      BY <2>2, <3>2, AppendedRecord
    <3> HIDE DEF b
    <3>4. records[i] = b \/ records[i] = registry.records[i]
      BY DEF b
    <3> HIDE DEF records
    <3> QED
      BY <3>2, <3>3, <3>4
  <2>4. records = [i \in 1 .. Len(registry.records) |-> records[i]]
    BY Zenon DEF Records
  <2>5. registry' = [registry EXCEPT !.records = records]
    BY <2>1, Zenon
  <2> HIDE DEF records
  <2>6. records \in Seq(RecordShapes) /\ Len(records) = Len(registry.records)
    BY <1>1, <2>3, <2>4, RecordsMapped DEF Records
  <2>7. /\ registry'.records = records /\ registry'.cohort = registry.cohort
        /\ registry'.state = "open" /\ registry'.used = registry.used
    BY <1>1, <1>3, <2>5
  <2>8. NoRefusal'
    BY <2>7 DEF NoRefusal
  <2> QED
    BY <1>3, <1>5, <1>6, <2>3, <2>6, <2>7, <2>8, SameCharges
<1> QED
  BY <1>4, <1>7, <1>8 DEF Complete

-----------------------------------------------------------------------------
\* The two folds of a recycled cohort, from the left: ranges that are joined, and
\* slots that are given back.  Turn is their step and Folded the recursive
\* function over the sets of indices that the library folds with.
Turn(fold, w, i, v) == IF fold = "join" THEN Joined(v, w[i]) ELSE GiveBack(v, i - 1)
Folded(fold, w, b, f, D) ==
    [s \in D |-> IF s = {} THEN b ELSE Turn(fold, w, Max(s), f[s \ {Max(s)}])]

\* A set of indices has a last one.
LEMMA LastIndex ==
    ASSUME NEW n \in Nat, NEW s \in SUBSET (1 .. n), s # {}
    PROVE  Max(s) \in s /\ \A y \in s : Max(s) >= y
<1> DEFINE T == {n - x : x \in s}
<1>1. T \in SUBSET Nat /\ T # {}
  <2>1. \A x \in s : n - x \in Nat
    OBVIOUS
  <2> QED
    BY <2>1
<1>2. PICK m \in T : \A y \in T : m <= y
  BY <1>1, LeastNumber
<1>3. PICK x \in s : m = n - x
  BY <1>2
<1>4. \A y \in s : x >= y
  <2>1. TAKE y \in s
  <2>2. n - x <= n - y
    BY <1>2, <1>3
  <2>3. x \in Int /\ y \in Int
    OBVIOUS
  <2> QED
    BY <2>2, <2>3
<1>5. \E z \in s : \A y \in s : z >= y
  BY <1>4
<1> QED
  BY <1>5, Zenon DEF Max

\* That function exists: were there an n without it, the least would be one more than
\* an n with it.
LEMMA FoldExists ==
    ASSUME NEW n \in Nat, NEW fold, NEW w, NEW b
    PROVE  \E f : f = Folded(fold, w, b, f, SUBSET (1 .. n))
<1> DEFINE S == 1 .. n
           Good == {k \in Nat : \E f : f = Folded(fold, w, b, f, UpTo(S, k))}
<1>1. IsFiniteSet(S) /\ Cardinality(S) \in Nat
  BY FS_Interval, FS_CardinalityType
<1>2. \A s \in SUBSET S : s # {} => Max(s) \in s
  BY LastIndex
<1> HIDE DEF S, Good
<1>3. 0 \in Good
  <2>1. \A s \in UpTo(S, 0) : s = {}
    <3>1. TAKE s \in UpTo(S, 0)
    <3>2. IsFiniteSet(s) /\ s \subseteq S
      BY <1>1, FS_Subset DEF UpTo
    <3>3. Cardinality(s) \in Nat /\ Cardinality(s) <= 0
      BY <3>2, FS_CardinalityType DEF UpTo
    <3> QED
      BY <3>2, <3>3, FS_EmptySet
  <2>2. [s \in UpTo(S, 0) |-> b] = Folded(fold, w, b, [s \in UpTo(S, 0) |-> b], UpTo(S, 0))
    BY <2>1, Zenon DEF Folded
  <2> QED
    BY <2>2, Zenon, 0 \in Nat DEF Good
<1>4. ASSUME NEW k \in Good PROVE k + 1 \in Good
  <2>1. k \in Nat /\ \E f : f = Folded(fold, w, b, f, UpTo(S, k))
    BY DEF Good
  <2>2. PICK f : f = Folded(fold, w, b, f, UpTo(S, k))
    BY <2>1
  <2> DEFINE Next1(s) == IF s = {} THEN b ELSE Turn(fold, w, Max(s), f[s \ {Max(s)}])
             g == [s \in UpTo(S, k + 1) |-> IF s \in UpTo(S, k) THEN f[s] ELSE Next1(s)]
  <2>3. \A s \in UpTo(S, k + 1) : g[s] = IF s \in UpTo(S, k) THEN f[s] ELSE Next1(s)
    OBVIOUS
  <2>4. g = [s \in UpTo(S, k + 1) |-> g[s]]
    OBVIOUS
  <2> HIDE DEF g
  <2>5. \A s \in UpTo(S, k) : f[s] = Next1(s)
    BY <2>2, Zenon DEF Folded
  <2>6. \A s \in UpTo(S, k + 1) : s # {} => s \ {Max(s)} \in UpTo(S, k)
    <3>1. SUFFICES ASSUME NEW s \in UpTo(S, k + 1), s # {} PROVE s \ {Max(s)} \in UpTo(S, k)
      OBVIOUS
    <3>2. IsFiniteSet(s) /\ s \subseteq S
      BY <1>1, FS_Subset DEF UpTo
    <3>3. Max(s) \in s
      BY <1>2, <3>1, <3>2
    <3>4. Cardinality(s \ {Max(s)}) = Cardinality(s) - 1
      BY <3>2, <3>3, FS_RemoveElement
    <3>5. Cardinality(s) \in Nat /\ Cardinality(s) <= k + 1
      BY <3>2, FS_CardinalityType DEF UpTo
    <3>6. Cardinality(s \ {Max(s)}) <= k
      BY <2>1, <3>4, <3>5
    <3> QED
      BY <3>2, <3>6 DEF UpTo
  <2>7. UpTo(S, k) \subseteq UpTo(S, k + 1)
    <3>1. SUFFICES ASSUME NEW s \in UpTo(S, k) PROVE s \in UpTo(S, k + 1)
      OBVIOUS
    <3>2. IsFiniteSet(s) /\ s \subseteq S
      BY <1>1, FS_Subset DEF UpTo
    <3>3. Cardinality(s) \in Nat /\ Cardinality(s) <= k
      BY <3>2, FS_CardinalityType DEF UpTo
    <3> QED
      BY <2>1, <3>2, <3>3 DEF UpTo
  <2>8. \A s \in UpTo(S, k) : g[s] = f[s]
    BY <2>3, <2>7
  <2>9. \A s \in UpTo(S, k + 1) :
          g[s] = IF s = {} THEN b ELSE Turn(fold, w, Max(s), g[s \ {Max(s)}])
    <3>1. TAKE s \in UpTo(S, k + 1)
    <3>2. g[s] = Next1(s)
      BY <2>3, <2>5, Zenon
    <3>3. s # {} => g[s \ {Max(s)}] = f[s \ {Max(s)}]
      BY <2>6, <2>8
    <3> QED
      BY <3>2, <3>3, Zenon
  <2>10. g = Folded(fold, w, b, g, UpTo(S, k + 1))
    BY <2>4, <2>9, Zenon DEF Folded
  <2> QED
    BY <2>1, <2>10 DEF Good
<1>5. Good \in SUBSET Nat
  BY DEF Good
<1>6. \A k \in Nat : k \in Good
  BY <1>3, <1>4, <1>5, AllNumbers
<1>7. PICK f : f = Folded(fold, w, b, f, UpTo(S, Cardinality(S)))
  BY <1>1, <1>6 DEF Good
<1>8. UpTo(S, Cardinality(S)) = SUBSET S
  BY <1>1, FS_Subset DEF UpTo
<1> QED
  BY <1>7, <1>8 DEF S

\* v is the outcome of n turns, in order.
InOrder(fold, w, b, n, v) ==
    \E g : g[0] = b /\ g[n] = v /\ \A i \in 1 .. n : g[i] = Turn(fold, w, i, g[i - 1])

\* Such a fold goes through its indices in order.
LEMMA FoldInOrder ==
    ASSUME NEW n \in Nat, NEW fold, NEW w, NEW b,
           NEW f, f = Folded(fold, w, b, f, SUBSET (1 .. n))
    PROVE  InOrder(fold, w, b, n, f[1 .. n])
<1> DEFINE g == [i \in 0 .. n |-> f[1 .. i]]
<1>1. \A i \in 0 .. n : g[i] = f[1 .. i]
  OBVIOUS
<1> HIDE DEF g
<1>2. \A s \in SUBSET (1 .. n) : f[s] = IF s = {} THEN b ELSE Turn(fold, w, Max(s), f[s \ {Max(s)}])
  BY Zenon DEF Folded
<1>3. g[0] = b
  <2>1. 1 .. 0 = {} /\ {} \in SUBSET (1 .. n) /\ g[0] = f[1 .. 0]
    BY <1>1
  <2>2. f[{}] = b
    BY <1>2, <2>1, Zenon
  <2> QED
    BY <2>1, <2>2
<1>4. ASSUME NEW i \in 1 .. n
      PROVE  g[i] = Turn(fold, w, i, g[i - 1])
  <2> DEFINE s == 1 .. i
  <2>1. s \in SUBSET (1 .. n) /\ s # {} /\ i \in s
    OBVIOUS
  <2>2. Max(s) = i
    <3>1. Max(s) \in s /\ Max(s) >= i
      BY <2>1, LastIndex
    <3> QED
      BY <3>1
  <2>3. s \ {i} = 1 .. i - 1
    OBVIOUS
  <2>4. g[i - 1] = f[1 .. i - 1] /\ g[i] = f[s]
    BY <1>1
  <2>5. f[s] = Turn(fold, w, Max(s), f[s \ {Max(s)}])
    BY <1>2, <2>1, Zenon
  <2> HIDE DEF s
  <2> QED
    BY <2>2, <2>3, <2>4, <2>5
<1>5. g[n] = f[1 .. n]
  BY <1>1
<1> QED
  BY <1>3, <1>4, <1>5 DEF InOrder

\* The ranges of a list, joined one by one.
LEMMA JoinedInOrder ==
    ASSUME NEW ranges, NEW n \in Nat, DOMAIN ranges = 1 .. n
    PROVE  \E g : /\ g[0] = <<>> /\ g[n] = FoldLeft(Joined, <<>>, ranges)
                  /\ \A i \in 1 .. n : g[i] = Joined(g[i - 1], ranges[i])
<1> DEFINE Step(f) == [s \in SUBSET (DOMAIN ranges) |->
                         IF s = {} THEN <<>> ELSE Joined(f[s \ {Max(s)}], ranges[Max(s)])]
           f0 == CHOOSE f : f = Step(f)
<1>1. FoldLeft(Joined, <<>>, ranges) = f0[DOMAIN ranges]
  BY Zenon DEF FoldLeft, MapThenFoldSet
<1>2. \A f : Step(f) = Folded("join", ranges, <<>>, f, SUBSET (1 .. n))
  BY Zenon DEF Folded, Turn
<1>3. \E f : f = Step(f)
  BY <1>2, FoldExists, Zenon
<1> HIDE DEF Step
<1>4. f0 = Step(f0)
  BY <1>3, Zenon
<1>5. f0 = Folded("join", ranges, <<>>, f0, SUBSET (1 .. n))
  BY <1>2, <1>4, Zenon
<1>6. \E f : /\ f = Folded("join", ranges, <<>>, f, SUBSET (1 .. n))
             /\ FoldLeft(Joined, <<>>, ranges) = f[1 .. n]
  BY <1>1, <1>5, Zenon
<1>7. PICK f : /\ f = Folded("join", ranges, <<>>, f, SUBSET (1 .. n))
               /\ FoldLeft(Joined, <<>>, ranges) = f[1 .. n]
  BY <1>6
<1>8. PICK g : g[0] = <<>> /\ g[n] = f[1 .. n] /\ \A i \in 1 .. n : g[i] = Turn("join", ranges, i, g[i - 1])
  <2>1. InOrder("join", ranges, <<>>, n, f[1 .. n])
    BY <1>7, FoldInOrder, Zenon
  <2> QED
    BY <2>1, Zenon DEF InOrder
<1>9. \A i \in 1 .. n : g[i] = Joined(g[i - 1], ranges[i])
  BY <1>8, Zenon DEF Turn
<1> QED
  BY <1>7, <1>8, <1>9

\* The allocator of a cohort after every slot was given back.
GivenBack(a, records) == FoldLeftDomain(LAMBDA b, i : GiveBack(b, i - 1), a, records)

\* The slots of a cohort, given back one by one.
LEMMA GivenBackInOrder ==
    ASSUME NEW a, NEW records, NEW n \in Nat, DOMAIN records = 1 .. n
    PROVE  \E g : /\ g[0] = a
                  /\ g[n] = GivenBack(a, records)
                  /\ \A i \in 1 .. n : g[i] = GiveBack(g[i - 1], i - 1)
<1> DEFINE own == [i \in DOMAIN records |-> i]
           Step(f) == [s \in SUBSET (DOMAIN own) |->
                         IF s = {} THEN a ELSE GiveBack(f[s \ {Max(s)}], own[Max(s)] - 1)]
           f0 == CHOOSE f : f = Step(f)
<1>1. GivenBack(a, records) = f0[DOMAIN own]
  BY Zenon DEF GivenBack, FoldLeftDomain, FoldLeft, MapThenFoldSet
<1>2. DOMAIN own = 1 .. n /\ \A i \in 1 .. n : own[i] = i
  OBVIOUS
<1> HIDE DEF own
<1>3. \A s \in SUBSET (1 .. n) : s # {} => own[Max(s)] = Max(s)
  BY <1>2, LastIndex
<1>4. \A f : Step(f) = Folded("give", own, a, f, SUBSET (1 .. n))
  <2>1. TAKE f
  <2>2. \A s \in SUBSET (1 .. n) :
          (IF s = {} THEN a ELSE GiveBack(f[s \ {Max(s)}], own[Max(s)] - 1))
            = (IF s = {} THEN a ELSE Turn("give", own, Max(s), f[s \ {Max(s)}]))
    <3>1. TAKE s \in SUBSET (1 .. n)
    <3>2. CASE s = {}
      BY <3>2, Zenon
    <3>3. CASE s # {}
      <4>1. own[Max(s)] = Max(s)
        BY <1>3, <3>3
      <4>2. "give" # "join"
        OBVIOUS
      <4> QED
        BY <3>3, <4>1, <4>2, Zenon DEF Turn
    <3> QED
      BY <3>2, <3>3
  <2> QED
    BY <1>2, <2>2, Zenon DEF Folded
<1>5. \E f : f = Step(f)
  BY <1>4, FoldExists, Zenon
<1> HIDE DEF Step
<1>6. f0 = Step(f0)
  BY <1>5, Zenon
<1>7. f0 = Folded("give", own, a, f0, SUBSET (1 .. n))
  BY <1>4, <1>6, Zenon
<1>8. \E f : /\ f = Folded("give", own, a, f, SUBSET (1 .. n))
             /\ GivenBack(a, records) = f[1 .. n]
  BY <1>1, <1>2, <1>7, Zenon
<1>9. PICK f : /\ f = Folded("give", own, a, f, SUBSET (1 .. n))
               /\ GivenBack(a, records) = f[1 .. n]
  BY <1>8, Zenon
<1>10. PICK g : g[0] = a /\ g[n] = f[1 .. n] /\ \A i \in 1 .. n : g[i] = Turn("give", own, i, g[i - 1])
  <2>1. InOrder("give", own, a, n, f[1 .. n])
    BY <1>9, FoldInOrder, Zenon
  <2> QED
    BY <2>1, Zenon DEF InOrder
<1>11. \A i \in 1 .. n : g[i] = GiveBack(g[i - 1], i - 1)
  BY <1>10 DEF Turn
<1> QED
  BY <1>9, <1>10, <1>11, Zenon

\* Lists of one, two and three, as the operators on sequences make them.
LEMMA ShortLists ==
    /\ \A x : <<>> \o <<x>> = <<x>> /\ <<x>> \o <<>> = <<x>>
    /\ \A x, y : <<x>> \o <<y>> = <<x, y>> /\ Append(<<x>>, y) = <<x, y>>
    /\ \A x, y, z : <<x, y>> \o <<z>> = <<x, y, z>>
    /\ \A x : SubSeq(<<x>>, 1, 0) = <<>> /\ SubSeq(<<x>>, 1, 1) = <<x>> /\ SubSeq(<<x>>, 2, 1) = <<>>
    /\ \A x, y : SubSeq(<<x, y>>, 1, 1) = <<x>> /\ SubSeq(<<x, y>>, 2, 2) = <<y>>
<1>1. \A x : <<>> \o <<x>> = <<x>> /\ <<x>> \o <<>> = <<x>>
  OBVIOUS
<1>2. ASSUME NEW x, NEW y PROVE <<x>> \o <<y>> = <<x, y>> /\ Append(<<x>>, y) = <<x, y>>
  <2> DEFINE S == {x, y}
             l == <<x, y>>
             a == <<x>>
             b == <<y>>
  <2>1. /\ l \in Seq(S) /\ Len(l) = 2 /\ l[1] = x /\ l[2] = y
        /\ a \in Seq(S) /\ Len(a) = 1 /\ a[1] = x
        /\ b \in Seq(S) /\ Len(b) = 1 /\ b[1] = y /\ y \in S
    OBVIOUS
  <2> HIDE DEF S, l, a, b
  <2>2. a \o b = l
    <3>1. a \o b \in Seq(S) /\ Len(a \o b) = 2 /\ (a \o b)[1] = x /\ (a \o b)[2] = y
      BY <2>1, ConcatProperties
    <3>2. \A i \in 1 .. 2 : (a \o b)[i] = l[i]
      BY <2>1, <3>1
    <3> QED
      BY <2>1, <3>1, <3>2, SeqEqual
  <2>3. Append(a, y) = l
    <3>1. Append(a, y) = a \o b
      BY <2>1, AppendIsConcat DEF b
    <3> QED
      BY <2>2, <3>1
  <2> QED
    BY <2>2, <2>3 DEF a, b, l
<1>3. ASSUME NEW x, NEW y, NEW z PROVE <<x, y>> \o <<z>> = <<x, y, z>>
  <2> DEFINE S == {x, y, z}
             l == <<x, y, z>>
             a == <<x, y>>
             b == <<z>>
  <2>1. /\ l \in Seq(S) /\ Len(l) = 3 /\ l[1] = x /\ l[2] = y /\ l[3] = z
        /\ a \in Seq(S) /\ Len(a) = 2 /\ a[1] = x /\ a[2] = y
        /\ b \in Seq(S) /\ Len(b) = 1 /\ b[1] = z
    OBVIOUS
  <2> HIDE DEF S, l, a, b
  <2>2. a \o b \in Seq(S) /\ Len(a \o b) = 3 /\ (a \o b)[1] = x /\ (a \o b)[2] = y /\ (a \o b)[3] = z
    <3>1. /\ a \o b \in Seq(S) /\ Len(a \o b) = Len(a) + Len(b)
          /\ \A i \in 1 .. Len(a) + Len(b) : (a \o b)[i] = IF i <= Len(a) THEN a[i] ELSE b[i - Len(a)]
      BY <2>1, ConcatProperties
    <3>2. Len(a) = 2 /\ Len(b) = 1 /\ Len(a) + Len(b) = 3
      BY <2>1
    <3>3. (a \o b)[1] = a[1] /\ (a \o b)[2] = a[2]
      BY <3>1, <3>2
    <3>4. (a \o b)[3] = b[1]
      BY <3>1, <3>2
    <3> QED
      BY <2>1, <3>1, <3>2, <3>3, <3>4
  <2>3. \A i \in 1 .. 3 : (a \o b)[i] = l[i]
    BY <2>1, <2>2
  <2>4. a \o b = l
    BY <2>1, <2>2, <2>3, SeqEqual
  <2> QED
    BY <2>4 DEF a, b, l
<1>4. ASSUME NEW x PROVE SubSeq(<<x>>, 1, 0) = <<>> /\ SubSeq(<<x>>, 1, 1) = <<x>> /\ SubSeq(<<x>>, 2, 1) = <<>>
  <2> DEFINE a == <<x>>
  <2>1. a \in Seq({x}) /\ Len(a) = 1
    OBVIOUS
  <2> HIDE DEF a
  <2>2. SubSeq(a, 1, 1) = a
    BY <2>1, SubSeqFull
  <2>3. SubSeq(a, 1, 0) = <<>> /\ SubSeq(a, 2, 1) = <<>>
    BY SubSeqEmpty
  <2> QED
    BY <2>2, <2>3 DEF a
<1>5. ASSUME NEW x, NEW y PROVE SubSeq(<<x, y>>, 1, 1) = <<x>> /\ SubSeq(<<x, y>>, 2, 2) = <<y>>
  <2> DEFINE S == {x, y}
             l == <<x, y>>
             a == <<x>>
             b == <<y>>
  <2>1. /\ l \in Seq(S) /\ Len(l) = 2 /\ l[1] = x /\ l[2] = y
        /\ a \in Seq(S) /\ Len(a) = 1 /\ a[1] = x
        /\ b \in Seq(S) /\ Len(b) = 1 /\ b[1] = y /\ x \in S /\ y \in S
    OBVIOUS
  <2> HIDE DEF S, l, a, b
  <2>2. /\ SubSeq(l, 1, 1) \in Seq(S) /\ Len(SubSeq(l, 1, 1)) = 1 /\ SubSeq(l, 1, 1)[1] = x
        /\ SubSeq(l, 2, 2) \in Seq(S) /\ Len(SubSeq(l, 2, 2)) = 1 /\ SubSeq(l, 2, 2)[1] = y
    <3>1. /\ \A i \in 1 .. 1 : l[i] \in S
          /\ \A i \in 2 .. 2 : l[i] \in S
      BY <2>1
    <3>2. /\ SubSeq(l, 1, 1) \in Seq(S) /\ Len(SubSeq(l, 1, 1)) = 1
          /\ \A i \in 1 .. 1 : SubSeq(l, 1, 1)[i] = l[1 + i - 1]
      BY <3>1, SubSeqProperties
    <3>3. /\ SubSeq(l, 2, 2) \in Seq(S) /\ Len(SubSeq(l, 2, 2)) = 1
          /\ \A i \in 1 .. 1 : SubSeq(l, 2, 2)[i] = l[2 + i - 1]
      BY <3>1, SubSeqProperties
    <3> QED
      BY <2>1, <3>2, <3>3
  <2>3. SubSeq(l, 1, 1) = a
    BY <2>1, <2>2, SeqEqual
  <2>4. SubSeq(l, 2, 2) = b
    BY <2>1, <2>2, SeqEqual
  <2> QED
    BY <2>3, <2>4 DEF l, a, b
<1> QED
  BY <1>1, <1>2, <1>3, <1>4, <1>5

\* The free list when the extents below block s were given back, of u in all.
Freed(s, u) ==
    IF s = u THEN << <<0, HostArenaBlocks>> >>
    ELSE IF s = 0 THEN Rest(u) ELSE << <<0, s>> >> \o Rest(u)

\* A range joins the last one of a list exactly when it begins where that one ends.
LEMMA JoinedCases ==
    /\ \A r : Joined(<<>>, r) = <<r>>
    /\ \A p, q, c, d \in Int :
         Joined(<< <<p, q>> >>, <<c, d>>)
           = IF p + q = c THEN << <<p, q + d>> >> ELSE << <<p, q>>, <<c, d>> >>
<1>1. ASSUME NEW r PROVE Joined(<<>>, r) = <<r>>
  BY DEF Joined
<1>2. ASSUME NEW p \in Int, NEW q \in Int, NEW c \in Int, NEW d \in Int
      PROVE  Joined(<< <<p, q>> >>, <<c, d>>)
               = IF p + q = c THEN << <<p, q + d>> >> ELSE << <<p, q>>, <<c, d>> >>
  <2> DEFINE m == << <<p, q>> >>
             r == <<c, d>>
  <2>1. Len(m) = 1 /\ m[1] = <<p, q>> /\ m[1][1] = p /\ m[1][2] = q /\ r[1] = c /\ r[2] = d
    OBVIOUS
  <2>2. CASE p + q = c
    <3>1. Joined(m, r) = [m EXCEPT ![1] = <<p, q + d>>]
      BY <2>1, <2>2 DEF Joined
    <3>2. [m EXCEPT ![1] = <<p, q + d>>] = << <<p, q + d>> >>
      OBVIOUS
    <3> QED
      BY <2>2, <3>1, <3>2
  <2>3. CASE p + q # c
    <3>1. Joined(m, r) = Append(m, r)
      BY <2>1, <2>3 DEF Joined
    <3>2. Append(m, r) = << <<p, q>>, <<c, d>> >>
      BY ShortLists
    <3> QED
      BY <2>3, <3>1, <3>2
  <2> QED
    BY <2>2, <2>3
<1> QED
  BY <1>1, <1>2

\* The free list that HostKVAllocator.recycle rebuilds from a list in order.
Merged(ranges) == FoldLeft(Joined, <<>>, ranges)

\* The joined ranges of lists of one, two and three.
LEMMA JoinedLists ==
    /\ \A r : Merged(<<r>>) = <<r>>
    /\ \A r, s : Merged(<<r, s>>) = Joined(<<r>>, s)
<1>1. ASSUME NEW r PROVE Merged(<<r>>) = <<r>>
  <2> DEFINE l == <<r>>
  <2>1. DOMAIN l = 1 .. 1 /\ l[1] = r
    OBVIOUS
  <2> HIDE DEF l
  <2>2. PICK g : /\ g[0] = <<>> /\ g[1] = Merged(l)
                 /\ \A i \in 1 .. 1 : g[i] = Joined(g[i - 1], l[i])
    BY <2>1, JoinedInOrder, 1 \in Nat DEF Merged
  <2>3. g[1] = Joined(g[0], l[1])
    <3>1. 1 \in 1 .. 1 /\ 1 - 1 = 0
      OBVIOUS
    <3> QED
      BY <2>2, <3>1
  <2> QED
    BY <2>1, <2>2, <2>3, JoinedCases DEF l
<1>2. ASSUME NEW r, NEW s PROVE Merged(<<r, s>>) = Joined(<<r>>, s)
  <2> DEFINE l == <<r, s>>
  <2>1. DOMAIN l = 1 .. 2 /\ l[1] = r /\ l[2] = s
    OBVIOUS
  <2> HIDE DEF l
  <2>2. PICK g : /\ g[0] = <<>> /\ g[2] = Merged(l)
                 /\ \A i \in 1 .. 2 : g[i] = Joined(g[i - 1], l[i])
    BY <2>1, JoinedInOrder, 2 \in Nat DEF Merged
  <2>3. g[1] = Joined(g[0], l[1]) /\ g[2] = Joined(g[1], l[2])
    <3>1. 1 \in 1 .. 2 /\ 1 - 1 = 0 /\ 2 \in 1 .. 2 /\ 2 - 1 = 1
      OBVIOUS
    <3> QED
      BY <2>2, <3>1
  <2>4. g[1] = <<r>>
    BY <2>1, <2>2, <2>3, JoinedCases
  <2> QED
    BY <2>1, <2>2, <2>3, <2>4 DEF l
<1> QED
  BY <1>1, <1>2

\* The same for a list of three.
LEMMA JoinedThree ==
    ASSUME NEW r, NEW s, NEW t
    PROVE  Merged(<<r, s, t>>) = Joined(Joined(<<r>>, s), t)
<1> DEFINE l == <<r, s, t>>
<1>1. DOMAIN l = 1 .. 3 /\ l[1] = r /\ l[2] = s /\ l[3] = t
  OBVIOUS
<1> HIDE DEF l
<1>2. PICK g : /\ g[0] = <<>> /\ g[3] = Merged(l)
               /\ \A i \in 1 .. 3 : g[i] = Joined(g[i - 1], l[i])
  BY <1>1, JoinedInOrder, 3 \in Nat DEF Merged
<1>3. g[1] = Joined(g[0], l[1]) /\ g[2] = Joined(g[1], l[2]) /\ g[3] = Joined(g[2], l[3])
  <2>1. 1 \in 1 .. 3 /\ 1 - 1 = 0 /\ 2 \in 1 .. 3 /\ 2 - 1 = 1 /\ 3 \in 1 .. 3 /\ 3 - 1 = 2
    OBVIOUS
  <2> QED
    BY <1>2, <2>1
<1>4. g[1] = <<r>>
  BY <1>1, <1>2, <1>3, JoinedCases
<1> QED
  BY <1>1, <1>2, <1>3, <1>4 DEF l

\* A range that goes in front of a list or behind its first range.
LEMMA InsertedCases ==
    /\ \A r : Inserted(<<>>, r) = <<r>>
    /\ \A r, x : ~(x[1] < r[1]) => Inserted(<<x>>, r) = <<r, x>>
    /\ \A r, x : x[1] < r[1] => Inserted(<<x>>, r) = <<x, r>>
<1> DEFINE Before(l, r) == {i \in DOMAIN l : l[i][1] < r[1]}
<1>1. ASSUME NEW r PROVE Inserted(<<>>, r) = <<r>>
  <2>1. Before(<<>>, r) = {}
    OBVIOUS
  <2>2. Cardinality(Before(<<>>, r)) = 0
    BY <2>1, FS_EmptySet
  <2>3. Inserted(<<>>, r) = SubSeq(<<>>, 1, 0) \o <<r>> \o SubSeq(<<>>, 1, 0)
    BY <2>2 DEF Inserted
  <2> QED
    BY <2>3
<1>2. ASSUME NEW r, NEW x, ~(x[1] < r[1]) PROVE Inserted(<<x>>, r) = <<r, x>>
  <2> DEFINE l == <<x>>
  <2>1. Len(l) = 1 /\ DOMAIN l = {1} /\ l[1] = x
    OBVIOUS
  <2>2. Before(l, r) = {}
    BY <1>2, <2>1
  <2>3. Cardinality(Before(l, r)) = 0
    BY <2>2, FS_EmptySet
  <2>4. Inserted(l, r) = SubSeq(l, 1, 0) \o <<r>> \o SubSeq(l, 1, 1)
    <3>1. Inserted(l, r) = SubSeq(l, 1, Cardinality(Before(l, r))) \o <<r>>
                             \o SubSeq(l, Cardinality(Before(l, r)) + 1, Len(l))
      BY Zenon DEF Inserted
    <3>2. Cardinality(Before(l, r)) = 0 /\ Cardinality(Before(l, r)) + 1 = 1 /\ Len(l) = 1
      BY <2>1, <2>3
    <3> QED
      BY <3>1, <3>2, Zenon
  <2>5. <<>> \o <<r>> \o <<x>> = <<r, x>>
    <3>1. <<>> \o <<r>> = <<r>> /\ <<r>> \o <<x>> = <<r, x>>
      BY ShortLists
    <3> QED
      BY <3>1, Zenon
  <2>6. SubSeq(l, 1, 0) = <<>> /\ SubSeq(l, 1, 1) = <<x>>
    BY ShortLists
  <2> QED
    BY <2>4, <2>5, <2>6, Zenon
<1>3. ASSUME NEW r, NEW x, x[1] < r[1] PROVE Inserted(<<x>>, r) = <<x, r>>
  <2> DEFINE l == <<x>>
  <2>1. Len(l) = 1 /\ DOMAIN l = {1} /\ l[1] = x
    OBVIOUS
  <2>2. Before(l, r) = {1}
    BY <1>3, <2>1
  <2>3. Cardinality(Before(l, r)) = 1
    BY <2>2, FS_Singleton
  <2>4. Inserted(l, r) = SubSeq(l, 1, 1) \o <<r>> \o SubSeq(l, 2, 1)
    <3>1. Inserted(l, r) = SubSeq(l, 1, Cardinality(Before(l, r))) \o <<r>>
                             \o SubSeq(l, Cardinality(Before(l, r)) + 1, Len(l))
      BY Zenon DEF Inserted
    <3>2. Cardinality(Before(l, r)) = 1 /\ Cardinality(Before(l, r)) + 1 = 2 /\ Len(l) = 1
      BY <2>1, <2>3
    <3> QED
      BY <3>1, <3>2, Zenon
  <2>5. <<x>> \o <<r>> \o <<>> = <<x, r>>
    <3>1. <<x>> \o <<r>> = <<x, r>>
      BY ShortLists
    <3>2. <<x, r>> \o <<>> = <<x, r>>
      OBVIOUS
    <3> QED
      BY <3>1, <3>2, Zenon
  <2>6. SubSeq(l, 1, 1) = <<x>> /\ SubSeq(l, 2, 1) = <<>>
    BY ShortLists
  <2> QED
    BY <2>4, <2>5, <2>6, Zenon
<1> QED
  BY <1>1, <1>2, <1>3

\* The same between two ranges.
LEMMA InsertedBetween ==
    ASSUME NEW r, NEW x, NEW y, x[1] < r[1], ~(y[1] < r[1])
    PROVE  Inserted(<<x, y>>, r) = <<x, r, y>>
<1> DEFINE Before(l) == {i \in DOMAIN l : l[i][1] < r[1]}
<1> DEFINE l == <<x, y>>
<1>1. Len(l) = 2 /\ DOMAIN l = {1, 2} /\ l[1] = x /\ l[2] = y
  OBVIOUS
<1>2. Before(l) = {1}
  BY <1>1
<1>3. Cardinality(Before(l)) = 1
  BY <1>2, FS_Singleton
<1>4. Inserted(l, r) = SubSeq(l, 1, 1) \o <<r>> \o SubSeq(l, 2, 2)
  <2>1. Inserted(l, r) = SubSeq(l, 1, Cardinality(Before(l))) \o <<r>>
                           \o SubSeq(l, Cardinality(Before(l)) + 1, Len(l))
    BY Zenon DEF Inserted
  <2>2. Cardinality(Before(l)) = 1 /\ Cardinality(Before(l)) + 1 = 2 /\ Len(l) = 2
    BY <1>1, <1>3
  <2> QED
    BY <2>1, <2>2, Zenon
<1>5. <<x>> \o <<r>> \o <<y>> = <<x, r, y>>
  <2>1. <<x>> \o <<r>> = <<x, r>> /\ <<x, r>> \o <<y>> = <<x, r, y>>
    BY ShortLists
  <2> QED
    BY <2>1, Zenon
<1>6. SubSeq(l, 1, 1) = <<x>> /\ SubSeq(l, 2, 2) = <<y>>
  BY ShortLists
<1> QED
  BY <1>4, <1>5, <1>6, Zenon

\* The free list when the next extent, from block s to t, is given back.
LEMMA FreedNext ==
    ASSUME NEW u \in Nat, u <= HostArenaBlocks, NEW s \in Nat, NEW t \in Nat, s < t, t <= u
    PROVE  Merged(Inserted(Freed(s, u), <<s, t - s>>)) = Freed(t, u)
<1> DEFINE N == HostArenaBlocks
           e == <<s, t - s>>
           x == <<0, s>>
           y == <<u, N - u>>
<1>1. N \in Nat /\ s # u /\ u # 0 /\ t # 0
  BY MemoryAssumption
<1>2. Freed(t, u) = IF t = u THEN << <<0, N>> >> ELSE << <<0, t>> >> \o Rest(u)
  BY <1>1 DEF Freed
<1>3. Rest(u) = IF u = N THEN <<>> ELSE <<y>>
  BY <1>1 DEF Rest
<1>4. e[1] = s /\ x[1] = 0 /\ y[1] = u
  OBVIOUS
<1>5. \A p, q, c, d \in Int :
         Joined(<< <<p, q>> >>, <<c, d>>)
           = IF p + q = c THEN << <<p, q + d>> >> ELSE << <<p, q>>, <<c, d>> >>
  BY JoinedCases
<1>6. u # N => Joined(<< <<0, t>> >>, y) = Freed(t, u)
  <2>1. SUFFICES ASSUME u # N PROVE Joined(<< <<0, t>> >>, y) = Freed(t, u)
    OBVIOUS
  <2>2. Joined(<< <<0, t>> >>, y) = IF 0 + t = u THEN << <<0, t + (N - u)>> >> ELSE << <<0, t>>, y >>
    BY <1>1, <1>5
  <2>3. t = u => t + (N - u) = N
    BY <1>1
  <2>4. << <<0, t>> >> \o <<y>> = << <<0, t>>, y >>
    BY ShortLists
  <2>5. CASE t = u
    <3>1. Joined(<< <<0, t>> >>, y) = << <<0, t + (N - u)>> >>
      BY <2>2, <2>5
    <3>2. t + (N - u) = N
      BY <2>3, <2>5
    <3>3. Freed(t, u) = << <<0, N>> >>
      BY <1>2, <2>5
    <3> HIDE DEF y
    <3> QED
      BY <3>1, <3>2, <3>3, Zenon
  <2>6. CASE t # u
    <3>1. Joined(<< <<0, t>> >>, y) = << <<0, t>>, y >>
      <4>1. ~(0 + t = u)
        BY <2>6
      <4> QED
        BY <2>2, <4>1, Zenon
    <3>2. Freed(t, u) = << <<0, t>> >> \o Rest(u) /\ Rest(u) = <<y>>
      BY <1>2, <1>3, <2>1, <2>6, Zenon
    <3> QED
      BY <2>4, <3>1, <3>2, Zenon
  <2> QED
    BY <2>5, <2>6, Zenon
<1>7. u = N => << <<0, t>> >> = Freed(t, u)
  <2>1. << <<0, t>> >> \o <<>> = << <<0, t>> >>
    OBVIOUS
  <2> QED
    BY <1>2, <1>3, <2>1
<1>8. CASE s = 0
  <2>1. e = <<0, t>> /\ Freed(s, u) = Rest(u)
    BY <1>1, <1>8 DEF Freed
  <2>2. CASE u = N
    <3>1. Inserted(Freed(s, u), e) = <<e>>
      BY <1>3, <2>1, <2>2, InsertedCases
    <3>2. Merged(<<e>>) = <<e>>
      BY JoinedLists
    <3> QED
      BY <1>7, <2>1, <2>2, <3>1, <3>2
  <2>3. CASE u # N
    <3>1. ~(y[1] < e[1])
      BY <1>1, <1>4, <1>8
    <3> HIDE DEF e, y
    <3>2. Inserted(Freed(s, u), e) = <<e, y>>
      BY <1>3, <2>1, <2>3, <3>1, InsertedCases
    <3>3. Merged(<<e, y>>) = Joined(<<e>>, y)
      BY JoinedLists
    <3> QED
      BY <1>6, <2>1, <2>3, <3>2, <3>3 DEF e
  <2> QED
    BY <2>2, <2>3
<1>9. CASE s # 0
  <2>1. Freed(s, u) = <<x>> \o Rest(u)
    BY <1>1, <1>9 DEF Freed
  <2>2. Joined(<<x>>, e) = << <<0, t>> >>
    <3>0. 0 \in Int /\ s \in Int /\ t - s \in Int
      OBVIOUS
    <3>1. Joined(<<x>>, e) = IF 0 + s = s THEN << <<0, s + (t - s)>> >> ELSE << x, e >>
      BY <1>5, <3>0
    <3>2. 0 + s = s /\ s + (t - s) = t
      OBVIOUS
    <3> QED
      BY <3>1, <3>2
  <2> HIDE DEF x, y, e
  <2>3. x[1] < e[1] /\ ~(y[1] < e[1])
    BY <1>1, <1>4, <1>9
  <2>4. <<x>> \o <<>> = <<x>> /\ <<x>> \o <<y>> = <<x, y>>
    BY ShortLists
  <2>5. CASE u = N
    <3>1. Inserted(Freed(s, u), e) = <<x, e>>
      BY <1>3, <2>1, <2>3, <2>4, <2>5, InsertedCases
    <3>2. Merged(<<x, e>>) = Joined(<<x>>, e)
      BY JoinedLists
    <3> QED
      BY <1>7, <2>2, <2>5, <3>1, <3>2 DEF e
  <2>6. CASE u # N
    <3>1. Inserted(Freed(s, u), e) = <<x, e, y>>
      <4>1. Freed(s, u) = <<x, y>>
        BY <1>3, <2>1, <2>4, <2>6, Zenon
      <4>2. Inserted(<<x, y>>, e) = <<x, e, y>>
        BY <2>3, InsertedBetween
      <4> QED
        BY <4>1, <4>2, Zenon
    <3>2. Merged(<<x, e, y>>) = Joined(Joined(<<x>>, e), y)
      BY JoinedThree
    <3> QED
      BY <1>6, <2>2, <2>6, <3>1, <3>2 DEF e
  <2> QED
    BY <2>5, <2>6
<1> QED
  BY <1>8, <1>9

-----------------------------------------------------------------------------
\* b is the allocator a of a cohort of u blocks after its first i slots were given back.
Given(a, b, i, u) ==
    /\ b = [blocks |-> b.blocks, free |-> b.free, extents |-> b.extents, generation |-> b.generation]
    /\ b.extents = [s \in SlotIds |-> IF s < i THEN NoExtent ELSE a.extents[s]]
    /\ b.free = Freed(Start(a, i), u)

\* HostKVAllocator.recycle of the next slot joins its blocks to those given back before.
LEMMA GiveBackNext ==
    ASSUME NEW a, NEW b, NEW n \in Nat, NEW u \in Nat, u <= HostArenaBlocks, Extents(a, n, u),
           NEW i \in 0 .. n - 1, Given(a, b, i, u)
    PROVE  Given(a, GiveBack(b, i), i + 1, u)
<1> DEFINE c == GiveBack(b, i)
           s == Start(a, i)
           t == Start(a, i + 1)
           e == a.extents[i]
           es == [b.extents EXCEPT ![i] = NoExtent]
           gs == [b.generation EXCEPT ![i] = @ + 1]
           f == FoldLeft(Joined, <<>>, Inserted(b.free, <<b.extents[i].offset, b.extents[i].capacity>>))
<1>1. /\ i \in SlotIds /\ e.capacity \in Nat \ {0} /\ e.offset = s /\ s \in 0 .. u /\ t \in 0 .. u
      /\ i + 1 # 0 /\ (i + 1) - 1 = i
  <2>1. i \in 0 .. n /\ i + 1 \in 0 .. n
    OBVIOUS
  <2> QED
    BY <2>1 DEF Extents
<1>2. t = e.offset + e.capacity
  BY <1>1 DEF Start
<1>3. s \in Nat /\ t \in Nat /\ s < t /\ t <= u /\ t - s = e.capacity
  <2> DEFINE k == e.capacity
  <2>1. k \in Nat \ {0} /\ s \in 0 .. u /\ t \in 0 .. u /\ t = s + k
    BY <1>1, <1>2
  <2> HIDE DEF k, s, t
  <2>2. s \in Nat /\ t \in Nat /\ s < t /\ t <= u /\ t - s = k
    BY <2>1
  <2> QED
    BY <2>2 DEF k
<1>4. /\ b = [blocks |-> b.blocks, free |-> b.free, extents |-> b.extents, generation |-> b.generation]
      /\ b.extents = [k \in SlotIds |-> IF k < i THEN NoExtent ELSE a.extents[k]]
      /\ b.free = Freed(s, u)
  BY DEF Given
<1>5. b.extents[i] = e
  BY <1>1, <1>4
<1>6. c = [b EXCEPT !.generation = gs, !.extents = es, !.free = f]
  <2>1. c = [b EXCEPT !.generation[i] = @ + 1, !.extents[i] = NoExtent, !.free = f]
    BY Zenon DEF GiveBack
  <2> QED
    BY <2>1
<1> HIDE DEF c, gs, es, f, e, s, t
<1>7. /\ c = [blocks |-> c.blocks, free |-> c.free, extents |-> c.extents, generation |-> c.generation]
      /\ c.extents = es /\ c.free = f
  BY <1>4, <1>6
<1>8. f = Freed(t, u)
  <2>1. f = FoldLeft(Joined, <<>>, Inserted(Freed(s, u), <<s, t - s>>))
    <3>1. b.extents[i].offset = s /\ b.extents[i].capacity = t - s
      BY <1>1, <1>3, <1>5
    <3> QED
      BY <1>4, <3>1, Zenon DEF f
  <2>2. Merged(Inserted(Freed(s, u), <<s, t - s>>)) = Freed(t, u)
    BY <1>3, FreedNext
  <2> QED
    BY <2>1, <2>2, Zenon DEF Merged
<1>9. es = [k \in SlotIds |-> IF k < i + 1 THEN NoExtent ELSE a.extents[k]]
  <2>1. es = [[k \in SlotIds |-> IF k < i THEN NoExtent ELSE a.extents[k]] EXCEPT ![i] = NoExtent]
    BY <1>4 DEF es
  <2>2. \A k \in SlotIds : k < i + 1 <=> (k < i \/ k = i)
    BY DEF SlotIds
  <2> QED
    BY <2>1, <2>2
<1> QED
  BY <1>7, <1>8, <1>9 DEF Given, c, t

\* HostKVAllocator.recycle of every slot leaves one free range and no extent.
LEMMA GiveBackAll ==
    ASSUME NEW a, NEW records, NEW n \in Nat, DOMAIN records = 1 .. n, NEW u \in Nat,
           u <= HostArenaBlocks, Extents(a, n, u), a.free = Rest(u),
           NEW b, b = GivenBack(a, records)
    PROVE  Extents(b, 0, 0) /\ b.free = Rest(0)
<1>1. PICK g : /\ g[0] = a /\ g[n] = b
               /\ \A i \in 1 .. n : g[i] = GiveBack(g[i - 1], i - 1)
  BY GivenBackInOrder
<1>2. HostArenaBlocks \in Nat \ {0} /\ AdmissionSlots \in Nat
  BY MemoryAssumption
<1> DEFINE S == {i \in Nat : i <= n => Given(a, g[i], i, u)}
<1>3. 0 \in S
  <2>1. Start(a, 0) = 0
    BY DEF Start
  <2>2. a.free = Freed(0, u)
    BY <1>2 DEF Freed, Rest
  <2>3. a.extents = [s \in SlotIds |-> IF s < 0 THEN NoExtent ELSE a.extents[s]]
    <3>1. \A s \in SlotIds : ~(s < 0)
      BY DEF SlotIds
    <3>2. a.extents = [s \in SlotIds |-> a.extents[s]]
      BY DEF Extents
    <3> QED
      BY <3>1, <3>2
  <2>4. a = [blocks |-> a.blocks, free |-> a.free, extents |-> a.extents, generation |-> a.generation]
    BY DEF Extents
  <2>5. Given(a, a, 0, u)
    BY <2>1, <2>2, <2>3, <2>4, Zenon DEF Given
  <2> QED
    BY <1>1, <2>5
<1>4. ASSUME NEW i \in S PROVE i + 1 \in S
  <2>1. SUFFICES ASSUME i + 1 <= n PROVE Given(a, g[i + 1], i + 1, u)
    OBVIOUS
  <2>2. i \in 0 .. n - 1 /\ i + 1 \in 1 .. n /\ (i + 1) - 1 = i /\ Given(a, g[i], i, u)
    BY <2>1
  <2>3. g[i + 1] = GiveBack(g[i], i)
    BY <1>1, <2>2
  <2> QED
    BY <2>2, <2>3, GiveBackNext
<1> HIDE DEF S
<1>5. n \in S
  BY <1>3, <1>4, AllNumbers, S \in SUBSET Nat DEF S
<1>6. Given(a, b, n, u)
  BY <1>1, <1>5 DEF S
<1>7. Start(a, n) = u
  BY DEF Extents
<1>8. b.free = Rest(0)
  BY <1>2, <1>6, <1>7 DEF Given, Freed, Rest
<1>9. \A s \in SlotIds : b.extents[s] = NoExtent
  <2>1. \A s \in SlotIds : s >= n => a.extents[s] = NoExtent
    BY DEF Extents
  <2>2. \A s \in SlotIds : b.extents[s] = IF s < n THEN NoExtent ELSE a.extents[s]
    BY <1>6 DEF Given
  <2>3. \A s \in SlotIds : s < n \/ s >= n
    BY DEF SlotIds
  <2> QED
    BY <2>1, <2>2, <2>3
<1>10. b.extents = [s \in SlotIds |-> b.extents[s]]
  BY <1>6 DEF Given
<1>11. Start(b, 0) = 0
  BY DEF Start
<1>12. b = [blocks |-> b.blocks, free |-> b.free, extents |-> b.extents, generation |-> b.generation]
  BY <1>6 DEF Given
<1>13. 0 .. 0 - 1 = {} /\ \A i \in 0 .. 0 : i = 0
  OBVIOUS
<1> QED
  BY <1>8, <1>9, <1>10, <1>11, <1>12, <1>13 DEF Extents

\* A cohort before its first request.
EmptyCohort ==
    /\ registry = [records |-> <<>>, used |-> NothingUsed, cohort |-> registry.cohort, state |-> "open"]
    /\ engine[<<"tokens", -1>>].head = 0 /\ engine[<<"configs", -1>>].head = 0
    /\ done = [next |-> 0, written |-> {}] /\ sent = {}
    /\ registry.cohort = 1 => \A a \in DraftArenas : worker[a].head = 0

\* Its budget is untouched.
LEMMA EmptyBudget == EmptyCohort => BudgetInv
<1> SUFFICES ASSUME EmptyCohort PROVE BudgetInv
  OBVIOUS
<1> USE DEF EmptyCohort
<1>1. Len(registry.records) = 0 /\ Records = {}
  BY DEF Records
<1>2. \A w : Over(w) = 0
  BY <1>1, TotalOfNothing DEF Over
<1>3. \A n \in Resources : registry.used[n] = 0
  BY DEF NothingUsed
<1>4. Within
  <2>1. registry.used = [n \in Resources |-> registry.used[n]]
    BY DEF NothingUsed
  <2>2. \A n \in Resources : 0 <= Limit(n)
    BY MemoryAssumption DEF Limit
  <2> QED
    BY <1>3, <2>1, <2>2 DEF Within
<1>5. Charged
  <2>1. /\ "engine_tokens" \in Resources /\ "config_bytes" \in Resources /\ "completions" \in Resources
        /\ "proposals" \in Resources /\ "snapshots" \in Resources
    BY DEF Resources
  <2> QED
    BY <1>2, <1>3, <2>1 DEF Charged
<1>6. RoundsBounded
  BY <1>1 DEF RoundsBounded
<1>7. Receipts
  BY <1>2, FS_EmptySet DEF Receipts
<1>8. Drafted
  BY <1>2 DEF Drafted
<1>9. NoRefusal
  <2>1. registry.state = "open"
    OBVIOUS
  <2> QED
    BY <2>1 DEF NoRefusal
<1> QED
  BY <1>4, <1>5, <1>6, <1>7, <1>8, <1>9 DEF BudgetInv

\* CohortRecycler.progress: the next cohort starts with an untouched budget.
LEMMA RecycleKeepsBudget ==
    ASSUME MemoryInv, BudgetInv, ExtentsInv, RecycleCohort
    PROVE  BudgetInv' /\ ExtentsInv'
<1>1. /\ registry' = [records |-> <<>>, used |-> NothingUsed, cohort |-> registry.cohort + 1,
                      state |-> "open"]
      /\ engine' = [a \in Arenas |-> RecycleArena(engine[a])]
      /\ done' = [next |-> 0, written |-> {}]
      /\ sent' = {}
  BY DEF RecycleCohort, MemoryInv, SentWork
<1>2. registry.cohort \in Nat \ {0} /\ Len(registry.records) \in Nat
      /\ DOMAIN registry.records = 1 .. Len(registry.records)
  BY RegistryForm
<1>3. registry'.cohort = registry.cohort + 1 /\ registry'.records = <<>> /\ registry'.used = NothingUsed
      /\ registry'.cohort # 1
  BY <1>1, <1>2
<1>4. engine'[<<"tokens", -1>>].head = 0 /\ engine'[<<"configs", -1>>].head = 0
  <2>1. <<"tokens", -1>> \in Arenas /\ <<"configs", -1>> \in Arenas
    BY ArenaFacts
  <2> QED
    BY <1>1, <2>1 DEF RecycleArena
<1>5. BudgetInv'
  <2>1. registry' = [records |-> <<>>, used |-> NothingUsed, cohort |-> registry'.cohort, state |-> "open"]
    BY <1>1, <1>3
  <2> QED
    <3>1. EmptyCohort'
      BY <1>1, <1>3, <1>4, <2>1 DEF EmptyCohort
    <3> QED
      BY <3>1, EmptyBudget, PTL
<1>6. /\ \A k \in Kinds : hostkv'[k] = GivenBack(hostkv[k], registry.records)
      /\ hostkv' = [m \in Kinds |-> hostkv'[m]]
  <2>1. hostkv' = [k \in Kinds |-> GivenBack(hostkv[k], registry.records)]
    BY Zenon DEF RecycleCohort, GivenBack
  <2> QED
    BY <2>1, Zenon
<1>7. ASSUME NEW k \in Kinds
      PROVE  Extents(hostkv'[k], 0, 0) /\ hostkv'[k].free = Rest(0)
  <2> DEFINE u == BlocksOf(k)
             a == hostkv[k]
             n == Len(registry.records)
             b == hostkv'[k]
  <2>1. u \in Nat /\ u <= HostArenaBlocks
    <3>1. \A m \in {"host_blocks", "draft_host_blocks"} : m \in Resources /\ Limit(m) = HostArenaBlocks
      BY DEF Resources, Limit
    <3> QED
      BY <3>1 DEF BudgetInv, Within, BlocksOf
  <2>2. Extents(a, n, u) /\ a.free = Rest(u)
    BY DEF ExtentsInv
  <2>3. b = GivenBack(a, registry.records)
    BY <1>6, Zenon
  <2>4. n \in Nat /\ DOMAIN registry.records = 1 .. n
    BY <1>2
  <2> HIDE DEF u, a, n, b
  <2>5. Extents(b, 0, 0) /\ b.free = Rest(0)
    BY <2>1, <2>2, <2>3, <2>4, GiveBackAll
  <2> QED
    BY <2>5 DEF b
<1>8. ExtentsInv'
  <2>1. \A k \in Kinds : BlocksOf(k)' = 0
    <3>1. "host_blocks" \in Resources /\ "draft_host_blocks" \in Resources
      BY DEF Resources
    <3> QED
      BY <1>3, <3>1 DEF BlocksOf, NothingUsed
  <2>2. Len(registry'.records) = 0
    BY <1>3
  <2>3. hostkv' = [k \in Kinds |-> hostkv'[k]]
    BY <1>6, Zenon
  <2>4. ASSUME NEW k \in Kinds
        PROVE  (Extents(hostkv[k], Len(registry.records), BlocksOf(k)) /\ hostkv[k].free = Rest(BlocksOf(k)))'
    <3>1. Extents(hostkv'[k], 0, 0) /\ hostkv'[k].free = Rest(0) /\ BlocksOf(k)' = 0
      BY <1>7, <2>1
    <3> QED
      BY <2>2, <3>1 DEF Extents, Rest, Start
  <2>5. (hostkv = [k \in Kinds |-> hostkv[k]])'
    BY <2>3
  <2> QED
    BY <2>4, <2>5 DEF ExtentsInv
<1> QED
  BY <1>5, <1>8

\* A session starts with an untouched budget and one free range per arena.
LEMMA BudgetStarts == InitMemory => BudgetInv /\ ExtentsInv
<1> SUFFICES ASSUME InitMemory PROVE BudgetInv /\ ExtentsInv
  OBVIOUS
<1>1. /\ registry = [records |-> <<>>, used |-> NothingUsed, cohort |-> 1, state |-> "open"]
      /\ hostkv = [k \in Kinds |-> NewAllocator(SlotIds, HostArenaBlocks)]
      /\ engine = [a \in Arenas |-> [generation |-> FirstGeneration(a), head |-> 0]]
      /\ worker = [a \in DraftArenas |-> [generation |-> FirstGeneration(a), head |-> 0]]
      /\ done = [next |-> 0, written |-> {}] /\ sent = {}
  BY DEF InitMemory
<1>2. BudgetInv
  <2>1. <<"tokens", -1>> \in Arenas /\ <<"configs", -1>> \in Arenas
    BY ArenaFacts
  <2>2. engine[<<"tokens", -1>>].head = 0 /\ engine[<<"configs", -1>>].head = 0
    BY <1>1, <2>1
  <2>3. \A a \in DraftArenas : worker[a].head = 0
    BY <1>1
  <2>4. registry = [records |-> <<>>, used |-> NothingUsed, cohort |-> registry.cohort, state |-> "open"]
    BY <1>1
  <2> QED
    BY <1>1, <2>2, <2>3, <2>4, EmptyBudget DEF EmptyCohort
<1>3. ExtentsInv
  <2> DEFINE a == NewAllocator(SlotIds, HostArenaBlocks)
  <2>1. HostArenaBlocks \in Nat \ {0}
    BY MemoryAssumption
  <2>2. /\ a = [blocks |-> a.blocks, free |-> a.free, extents |-> a.extents, generation |-> a.generation]
        /\ a.extents = [s \in SlotIds |-> NoExtent] /\ a.free = << <<0, HostArenaBlocks>> >>
    BY DEF NewAllocator
  <2> HIDE DEF a
  <2>3. Start(a, 0) = 0
    BY DEF Start
  <2>4. Rest(0) = << <<0, HostArenaBlocks>> >>
    BY <2>1 DEF Rest
  <2>5. 0 .. 0 - 1 = {} /\ \A i \in 0 .. 0 : i = 0
    OBVIOUS
  <2>6. Extents(a, 0, 0)
    BY <2>2, <2>3, <2>5 DEF Extents
  <2>7. Len(registry.records) = 0 /\ \A k \in Kinds : BlocksOf(k) = 0
    <3>1. "host_blocks" \in Resources /\ "draft_host_blocks" \in Resources
      BY DEF Resources
    <3> QED
      BY <1>1, <3>1 DEF BlocksOf, NothingUsed
  <2>8. hostkv = [k \in Kinds |-> hostkv[k]] /\ \A k \in Kinds : hostkv[k] = a
    BY <1>1 DEF a
  <2> QED
    BY <2>2, <2>4, <2>6, <2>7, <2>8 DEF ExtentsInv
<1> QED
  BY <1>2, <1>3

\* Every step keeps the budget and the extents.
LEMMA BudgetStep ==
    ASSUME MemoryInv, MemoryInv', BudgetInv, ExtentsInv, [MemoryNext]_memoryVars
    PROVE  BudgetInv' /\ ExtentsInv'
<1>1. CASE UNCHANGED memoryVars
  <2>1. /\ UNCHANGED <<registry, hostkv, engine, worker, done, sent>>
    BY <1>1 DEF memoryVars
  <2>2. /\ registry.records \in Seq(RecordShapes) /\ UNCHANGED registry.state
    BY <2>1, RegistryForm
  <2>3. \A i \in Records : Pending(i)' = Pending(i)
    BY <2>1 DEF Pending
  <2>4. Over(WrittenCompletions)' = Over(WrittenCompletions) => Receipts'
    BY <2>1 DEF BudgetInv, Receipts
  <2>5. NoRefusal'
    BY <2>1 DEF BudgetInv, NoRefusal
  <2> QED
    BY <2>1, <2>2, <2>3, <2>4, <2>5, SameCharges
<1>2. CASE \E shape \in Shapes : Admit(shape)
  BY <1>2, AdmitKeepsBudget
<1>3. \A role \in Kinds : \A b \in Batches(role) : b \in SUBSET Records /\ b # {}
  BY DEF Batches, ActiveRequests
<1>4. CASE \E w \in DraftIds, b \in Batches("draft") : IssueWork("draft", w, b)
  <2>1. PICK w \in DraftIds, b \in Batches("draft") : IssueWork("draft", w, b)
    BY <1>4
  <2>2. "draft" \in Kinds
    BY DEF Kinds
  <2>3. b \in SUBSET Records /\ b # {}
    BY <1>3, <2>2
  <2> QED
    BY <2>1, <2>2, <2>3, IssueKeepsBudget
<1>5. CASE \E b \in Batches("target") : IssueWork("target", -1, b)
  <2>1. PICK b \in Batches("target") : IssueWork("target", -1, b)
    BY <1>5
  <2>2. "target" \in Kinds
    BY DEF Kinds
  <2>3. b \in SUBSET Records /\ b # {}
    BY <1>3, <2>2
  <2> QED
    BY <2>1, <2>2, <2>3, IssueKeepsBudget
<1>6. CASE \E x \in sent : ReservePayloads(x) \/ Complete(x)
  <2>1. PICK x \in sent : ReservePayloads(x) \/ Complete(x)
    BY <1>6
  <2>2. CASE ReservePayloads(x)
    BY <2>2, ReserveKeepsBudget
  <2>3. CASE Complete(x)
    BY <2>3, CompleteKeepsBudget
  <2> QED
    BY <2>1, <2>2, <2>3
<1>7. CASE Retire
  BY <1>7, RetireKeepsBudget
<1>8. CASE RecycleCohort
  BY <1>8, RecycleKeepsBudget
<1> QED
  BY <1>1, <1>2, <1>4, <1>5, <1>6, <1>7, <1>8 DEF MemoryNext

\* The inductive invariant of a session: its payloads, its budget and its extents.
SessionInv == MemoryInv /\ BudgetInv /\ ExtentsInv

\* The budget, the extents of host KV and the payload arenas in every reachable state
\* of a session: any requests, limits, sizes, workers and cohorts.
THEOREM SessionInvariant == MemorySpec => []SessionInv
<1>1. InitMemory => SessionInv
  BY MemoryStarts, BudgetStarts DEF SessionInv
<1>2. SessionInv /\ [MemoryNext]_memoryVars => SessionInv'
  <2>1. SUFFICES ASSUME SessionInv, [MemoryNext]_memoryVars PROVE SessionInv'
    OBVIOUS
  <2>2. MemoryInv /\ BudgetInv /\ ExtentsInv
    BY <2>1 DEF SessionInv
  <2>3. MemoryInv'
    BY <2>1, <2>2, MemoryStep
  <2>4. BudgetInv' /\ ExtentsInv'
    BY <2>1, <2>2, <2>3, BudgetStep
  <2> QED
    BY <2>3, <2>4 DEF SessionInv
<1> QED
  BY <1>1, <1>2, PTL DEF MemorySpec

\* SessionBudget keeps its promise: none of the five places an admission allocates from
\* refuses what the budget accepted, and every round of the first cohort finds room in
\* the arenas of whichever worker runs it and for its completion record.
THEOREM AdmissionIsKept == MemorySpec => []AdmissionKept
<1>1. SessionInv => AdmissionKept
  BY DEF SessionInv, BudgetInv, NoRefusal, AdmissionKept, AdmissionIsAtomic, FirstCohortFits
<1> QED
  BY <1>1, SessionInvariant, PTL
=============================================================================
