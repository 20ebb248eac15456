----------------------------- MODULE NodeProofs -----------------------------
(***************************************************************************)
(* Proofs about two services of a node that share no state.              *)
(*                                                                         *)
(* The copy executors of a GPU (CopyStreams): closing them is clean.       *)
(* Whatever CUDA call fails and whenever the owner closes, host memory is  *)
(* registered while a stream may still use it, and a close without error   *)
(* leaves no registration behind.  Nothing about the plans, the chunks or  *)
(* the number of faults is used.                                           *)
(*                                                                         *)
(* The transport of commands (CommandTransport): commands arrive in order, *)
(* each once and with its own payload, for a ring, an arena and payloads   *)
(* of any size.  In the local arena the allocations follow each other      *)
(* around the circle as the entries follow each other in the ring; in the  *)
(* native one an entry owns the slot of its position.  The two ends agree  *)
(* on the last number although it wraps on the wire.                       *)
(***************************************************************************)
EXTENDS CopyStreams, CommandTransport, FiniteSetTheorems, TLAPS

\* The copy executors, with the steps of CopyStreams.
StreamsSpec == InitStreams /\ [][StreamsNext]_streamVars

-----------------------------------------------------------------------------
\* The fields of an executor.  Plan, chunks and tickets are whatever they are.
LaneShape(l) ==
    l \in [plan : {l.plan}, future : {"none", "pending", "done", "failed"},
           thread : {"idle", "launch", "wait"}, todo : {l.todo}, fence : {l.fence},
           tickets : {l.tickets}, seen : {l.seen}, plans : {l.plans}, closed : BOOLEAN,
           cleanup : {"none", "queued", "release", "ok", "error"},
           handle : BOOLEAN, record : BOOLEAN]

Shape ==
    /\ executor \in [Lanes -> {executor[b] : b \in Lanes}]
    /\ \A b \in Lanes : LaneShape(executor[b])
    /\ stream \in [Lanes -> {stream[b] : b \in Lanes}]
    /\ owner \in {"running", "closing", "closed", "failed"}

\* The registration of a lane: taken with its stream, unless its job failed there,
\* and given back before it, unless its cleanup failed there.
LaneRegistered(l, s) ==
    /\ s # <<>> => l.record
    /\ l.record => l.handle
    /\ l.handle /\ ~ l.record => l.future = "failed" \/ l.cleanup = "error"
    /\ l.thread # "idle" => l.future = "pending"

\* The cleanup of a lane: behind its last job, then behind its last copy.
LaneClosing(l, s) ==
    /\ l.cleanup # "none" => l.closed
    /\ l.cleanup \in {"release", "ok", "error"} => l.thread = "idle"
    /\ l.cleanup \in {"release", "ok"} => s = <<>>
    /\ l.cleanup = "ok" => ~ l.handle

\* The lanes that hold the registration are counted.
Held(l) == IF l.record THEN 1 ELSE 0
PoolCounts ==
    /\ pool.count = Held(executor[0]) + Held(executor[1])
    /\ \/ pool = [count |-> 0, registered |-> FALSE]
       \/ pool.count > 0 /\ pool = [count |-> pool.count, registered |-> TRUE]

\* The owner closes once, and is through when both lanes were joined.
OwnerCloses ==
    /\ owner = "running" => \A b \in Lanes : ~ executor[b].closed
    /\ owner \in {"closed", "failed"} => \A b \in Lanes : executor[b].cleanup \in {"ok", "error"}
    /\ owner = "closed" => \A b \in Lanes : executor[b].cleanup = "ok"

StreamsInv ==
    /\ Shape
    /\ \A b \in Lanes : LaneRegistered(executor[b], stream[b]) /\ LaneClosing(executor[b], stream[b])
    /\ PoolCounts
    /\ OwnerCloses

-----------------------------------------------------------------------------
\* A fresh executor has nothing to release.
LEMMA StreamsInit == ASSUME InitStreams PROVE StreamsInv
<1>1. Shape
  BY DEF InitStreams, Shape, LaneShape, NewLane, Lanes
<1>2. \A b \in Lanes : LaneRegistered(executor[b], stream[b]) /\ LaneClosing(executor[b], stream[b])
  BY DEF InitStreams, LaneRegistered, LaneClosing, NewLane, Lanes
<1>3. PoolCounts
  <2>1. pool = [count |-> 0, registered |-> FALSE]
    BY DEF InitStreams
  <2>2. Held(executor[0]) = 0 /\ Held(executor[1]) = 0
    BY DEF InitStreams, Held, NewLane, Lanes
  <2> QED
    BY <2>1, <2>2 DEF PoolCounts
<1>4. OwnerCloses
  BY DEF InitStreams, OwnerCloses, NewLane, Lanes
<1> QED
  BY <1>1, <1>2, <1>3, <1>4 DEF StreamsInv

\* What a step of one lane has to establish, when it takes the lane to l and its
\* stream to s.
LaneStep(b, l, s) ==
    /\ executor' = [executor EXCEPT ![b] = l]
    /\ stream' = [stream EXCEPT ![b] = s]
    /\ LaneShape(l) /\ LaneRegistered(l, s) /\ LaneClosing(l, s)
    /\ l.closed => executor[b].closed \/ owner = "closing"
    /\ executor[b].cleanup \in {"ok", "error"} => l.cleanup = executor[b].cleanup
    /\ owner' = owner

\* A step of one lane keeps the invariant of both, and of the owner; the pool is
\* the step's own.
LEMMA LaneSteps ==
    ASSUME StreamsInv, NEW b \in Lanes, NEW l, NEW s, LaneStep(b, l, s), PoolCounts'
    PROVE  StreamsInv'
<1>1. executor'[b] = l /\ stream'[b] = s
  BY DEF StreamsInv, Shape, LaneStep
<1>2. \A a \in Lanes \ {b} : executor'[a] = executor[a] /\ stream'[a] = stream[a]
  BY DEF StreamsInv, Shape, LaneStep
<1>3. Shape'
  <2>1. executor' \in [Lanes -> {executor'[a] : a \in Lanes}]
    BY DEF StreamsInv, Shape, LaneStep
  <2>2. \A a \in Lanes : LaneShape(executor'[a])
    BY <1>1, <1>2 DEF StreamsInv, Shape, LaneStep
  <2>3. stream' \in [Lanes -> {stream'[a] : a \in Lanes}]
    BY DEF StreamsInv, Shape, LaneStep
  <2>4. owner' \in {"running", "closing", "closed", "failed"}
    BY DEF StreamsInv, Shape, LaneStep
  <2> QED
    BY <2>1, <2>2, <2>3, <2>4 DEF Shape
<1>4. \A a \in Lanes : LaneRegistered(executor'[a], stream'[a]) /\ LaneClosing(executor'[a], stream'[a])
  BY <1>1, <1>2 DEF StreamsInv, LaneStep
<1>5. OwnerCloses'
  <2>1. owner' = "running" => \A a \in Lanes : ~ executor'[a].closed
    BY <1>1, <1>2 DEF StreamsInv, OwnerCloses, LaneStep
  <2>2. owner' \in {"closed", "failed"} => \A a \in Lanes : executor'[a].cleanup \in {"ok", "error"}
    BY <1>1, <1>2 DEF StreamsInv, OwnerCloses, LaneStep
  <2>3. owner' = "closed" => \A a \in Lanes : executor'[a].cleanup = "ok"
    BY <1>1, <1>2 DEF StreamsInv, OwnerCloses, LaneStep
  <2> QED
    BY <2>1, <2>2, <2>3 DEF OwnerCloses
<1> QED
  BY <1>3, <1>4, <1>5 DEF StreamsInv

\* The count follows the lane that changed.
LEMMA PoolFollows ==
    ASSUME StreamsInv, NEW b \in Lanes, NEW l, executor' = [executor EXCEPT ![b] = l],
           \/ pool' = pool /\ l.record = executor[b].record
           \/ pool' = Acquired(pool) /\ ~ executor[b].record /\ l.record
           \/ pool' = ReleasedOnce(pool) /\ executor[b].record /\ ~ l.record
    PROVE  PoolCounts'
<1>1. \A a \in Lanes : Held(executor[a]) \in {0, 1}
  BY DEF Held
<1>2. PICK a \in Lanes : Lanes = {a, b} /\ a # b
  BY DEF Lanes
<1>3. executor'[b] = l /\ executor'[a] = executor[a]
  BY <1>2 DEF StreamsInv, Shape
<1>4. pool.count = Held(executor[a]) + Held(executor[b])
  BY <1>1, <1>2 DEF StreamsInv, PoolCounts, Lanes
<1>5. pool'.count = Held(executor[a]) + Held(l)
  <2>1. CASE pool' = pool /\ l.record = executor[b].record
    BY <1>4, <2>1 DEF Held
  <2>2. CASE pool' = Acquired(pool) /\ ~ executor[b].record /\ l.record
    BY <1>1, <1>2, <1>4, <2>2 DEF Held, Acquired
  <2>3. CASE pool' = ReleasedOnce(pool) /\ executor[b].record /\ ~ l.record
    BY <1>1, <1>2, <1>4, <2>3 DEF Held, ReleasedOnce
  <2> QED
    BY <2>1, <2>2, <2>3
<1>7. \/ pool' = [count |-> 0, registered |-> FALSE]
      \/ pool'.count > 0 /\ pool' = [count |-> pool'.count, registered |-> TRUE]
  <2>1. CASE pool' = pool
    BY <2>1 DEF StreamsInv, PoolCounts
  <2>2. CASE pool' = Acquired(pool)
    BY <1>1, <1>2, <1>4, <2>2 DEF Acquired
  <2>3. CASE pool' = ReleasedOnce(pool) /\ executor[b].record
    <3>1. pool.count \in {1, 2}
      BY <1>1, <1>2, <1>4, <2>3 DEF Held
    <3>2. CASE pool.count = 1
      <4>1. ~ (pool.count > 1) /\ pool.count - 1 = 0
        BY <3>2
      <4>2. (pool.count > 1) = FALSE
        BY <4>1
      <4> QED
        BY <2>3, <4>1, <4>2 DEF ReleasedOnce
    <3>3. CASE pool.count = 2
      <4>1. pool.count > 1 /\ pool.count - 1 = 1
        BY <3>3
      <4>2. (pool.count > 1) = TRUE
        BY <4>1
      <4>3. pool' = [count |-> 1, registered |-> TRUE]
        BY <2>3, <4>1, <4>2 DEF ReleasedOnce
      <4> QED
        BY <4>3
    <3> QED
      BY <3>1, <3>2, <3>3
  <2> QED
    BY <2>1, <2>2, <2>3
<1>6. Held(executor[a]) + Held(l) = Held(executor'[0]) + Held(executor'[1])
  BY <1>1, <1>2, <1>3 DEF Lanes, Held
<1> QED
  BY <1>5, <1>6, <1>7 DEF PoolCounts

\* A lane that stays is a lane that was set to itself.
LEMMA LaneKept ==
    ASSUME StreamsInv, NEW b \in Lanes
    PROVE  /\ executor = [executor EXCEPT ![b] = executor[b]]
           /\ stream = [stream EXCEPT ![b] = stream[b]]
           /\ LaneShape(executor[b])
           /\ LaneRegistered(executor[b], stream[b])
           /\ LaneClosing(executor[b], stream[b])
  BY DEF StreamsInv, Shape

-----------------------------------------------------------------------------
\* A plan is taken by a lane that is not closed, when neither has failed.
LEMMA SubmitStep ==
    ASSUME StreamsInv, NEW b \in Lanes, NEW plan \in CopyPlans, SubmitPlan(b, plan)
    PROVE  StreamsInv'
<1> DEFINE l == [executor[b] EXCEPT !.plan = plan, !.future = "pending", !.thread = "launch",
                    !.todo = PlanChunks(plan), !.plans = @ + 1]
<1>1. executor' = [executor EXCEPT ![b] = l] /\ stream' = stream /\ pool' = pool /\ owner' = owner
  BY DEF SubmitPlan
<1>2. /\ owner = "running" /\ ~ executor[b].closed /\ executor[b].future # "failed"
  BY DEF SubmitPlan, Healthy
<1>3. LaneShape(executor[b]) /\ LaneRegistered(executor[b], stream[b]) /\ LaneClosing(executor[b], stream[b])
  BY LaneKept
<1>4. /\ LaneShape(l) /\ l.closed = executor[b].closed /\ l.cleanup = executor[b].cleanup
      /\ l.record = executor[b].record /\ l.handle = executor[b].handle
      /\ l.future = "pending" /\ l.thread = "launch"
  BY <1>3 DEF LaneShape
<1> HIDE DEF l
<1>5. LaneRegistered(l, stream[b]) /\ LaneClosing(l, stream[b])
  BY <1>2, <1>3, <1>4 DEF LaneRegistered, LaneClosing, LaneShape
<1>6. LaneStep(b, l, stream[b])
  BY <1>1, <1>4, <1>5, LaneKept DEF LaneStep
<1>7. PoolCounts'
  BY <1>1, <1>4, PoolFollows
<1> QED
  BY <1>6, <1>7, LaneSteps

\* The registration comes with the stream, or the job fails without it.
LEMMA InitializeStep ==
    ASSUME StreamsInv, NEW b \in Lanes, Initialize(b)
    PROVE  StreamsInv'
<1>1. LaneShape(executor[b]) /\ LaneRegistered(executor[b], stream[b]) /\ LaneClosing(executor[b], stream[b])
  BY LaneKept
<1>2. /\ executor[b].thread = "launch" /\ ~ executor[b].handle /\ ~ executor[b].record
      /\ stream' = stream /\ owner' = owner /\ stream[b] = <<>>
  BY <1>1 DEF Initialize, LaneRegistered
<1>3. CASE executor' = [executor EXCEPT ![b].handle = TRUE, ![b].record = TRUE] /\ pool' = Acquired(pool)
  <2> DEFINE l == [executor[b] EXCEPT !.handle = TRUE, !.record = TRUE]
  <2>1. executor' = [executor EXCEPT ![b] = l]
    BY <1>3 DEF StreamsInv, Shape
  <2>2. /\ LaneShape(l) /\ l.closed = executor[b].closed /\ l.cleanup = executor[b].cleanup
        /\ l.record /\ l.handle /\ l.future = executor[b].future /\ l.thread = executor[b].thread
    BY <1>1 DEF LaneShape
  <2> HIDE DEF l
  <2>3. LaneRegistered(l, stream[b]) /\ LaneClosing(l, stream[b])
    BY <1>1, <1>2, <2>2 DEF LaneRegistered, LaneClosing, LaneShape
  <2>4. LaneStep(b, l, stream[b])
    BY <1>2, <2>1, <2>2, <2>3, LaneKept DEF LaneStep
  <2>5. PoolCounts'
    BY <1>2, <1>3, <2>1, <2>2, PoolFollows
  <2> QED
    BY <2>4, <2>5, LaneSteps
<1>4. ASSUME NEW kept \in BOOLEAN,
             executor' = [executor EXCEPT ![b] = [JobFailed(@) EXCEPT !.handle = kept]], pool' = pool
      PROVE  StreamsInv'
  <2> DEFINE l == [JobFailed(executor[b]) EXCEPT !.handle = kept]
  <2>1. executor' = [executor EXCEPT ![b] = l]
    BY <1>4
  <2>2. /\ LaneShape(l) /\ l.closed = executor[b].closed /\ l.cleanup = executor[b].cleanup
        /\ l.record = executor[b].record /\ l.future = "failed" /\ l.thread = "idle"
    BY <1>1 DEF LaneShape, JobFailed
  <2> HIDE DEF l
  <2>3. LaneRegistered(l, stream[b]) /\ LaneClosing(l, stream[b])
    BY <1>1, <1>2, <2>2 DEF LaneRegistered, LaneClosing, LaneShape
  <2>4. LaneStep(b, l, stream[b])
    BY <1>2, <2>1, <2>2, <2>3, LaneKept DEF LaneStep
  <2>5. PoolCounts'
    BY <1>2, <1>4, <2>1, <2>2, PoolFollows
  <2> QED
    BY <2>4, <2>5, LaneSteps
<1> QED
  BY <1>3, <1>4 DEF Initialize

\* A lane launches only with its registration, whatever part of a chunk it enqueues.
LEMMA LaunchStep ==
    ASSUME StreamsInv, NEW b \in Lanes, Launch(b)
    PROVE  StreamsInv'
<1>1. LaneShape(executor[b]) /\ LaneRegistered(executor[b], stream[b]) /\ LaneClosing(executor[b], stream[b])
  BY LaneKept
<1>2. /\ executor[b].thread = "launch" /\ executor[b].handle /\ owner' = owner /\ pool' = pool
      /\ executor[b].record /\ executor[b].future = "pending"
      /\ executor[b].cleanup \in {"none", "queued"}
  BY <1>1 DEF Launch, LaneRegistered, LaneClosing, LaneShape
<1>3. PICK l, s :
        /\ executor' = [executor EXCEPT ![b] = l] /\ stream' = [stream EXCEPT ![b] = s]
        /\ \/ /\ l.future = "pending" /\ l.thread \in {"launch", "wait"}
           \/ /\ l.future = "failed" /\ l.thread = "idle"
        /\ LaneShape(l) /\ l.closed = executor[b].closed /\ l.cleanup = executor[b].cleanup
        /\ l.record = executor[b].record /\ l.handle = executor[b].handle
  <2> DEFINE launched == [executor[b] EXCEPT !.fence = GroupFence(executor[b]),
                        !.tickets = @ + 1, !.todo = Tail(@),
                        !.thread = IF \/ Len(executor[b].todo) = 1
                                      \/ executor[b].tickets + 1 - executor[b].seen = GroupOf(executor[b])
                                   THEN "wait" ELSE "launch"]
             failed == JobFailed(executor[b])
             ops == Enqueued(Head(executor[b].todo), executor[b].tickets + 1)
  <2>1. \/ /\ executor' = [executor EXCEPT ![b] = launched]
           /\ stream' = [stream EXCEPT ![b] = @ \o ops]
        \/ /\ executor' = [executor EXCEPT ![b] = failed]
           /\ \E n \in 0 .. Len(ops) - 1 : stream' = [stream EXCEPT ![b] = @ \o SubSeq(ops, 1, n)]
    BY DEF Launch
  <2>2. /\ launched.future = "pending" /\ launched.thread \in {"launch", "wait"}
        /\ LaneShape(launched) /\ launched.closed = executor[b].closed /\ launched.cleanup = executor[b].cleanup
        /\ launched.record = executor[b].record /\ launched.handle = executor[b].handle
    BY <1>1, <1>2 DEF LaneShape
  <2>3. /\ failed.future = "failed" /\ failed.thread = "idle"
        /\ LaneShape(failed) /\ failed.closed = executor[b].closed
        /\ failed.cleanup = executor[b].cleanup
        /\ failed.record = executor[b].record /\ failed.handle = executor[b].handle
    BY <1>1 DEF LaneShape, JobFailed
  <2> HIDE DEF launched, failed, ops
  <2>4. \E s : stream' = [stream EXCEPT ![b] = s]
    BY <2>1
  <2> QED
    BY <2>1, <2>2, <2>3, <2>4
<1>4. LaneRegistered(l, s) /\ LaneClosing(l, s)
  BY <1>1, <1>2, <1>3 DEF LaneRegistered, LaneClosing
<1>5. LaneStep(b, l, s)
  BY <1>2, <1>3, <1>4 DEF LaneStep
<1>6. PoolCounts'
  BY <1>2, <1>3, PoolFollows
<1> QED
  BY <1>5, <1>6, LaneSteps

\* A group was reached, or the wait for it failed.
LEMMA ObserveStep ==
    ASSUME StreamsInv, NEW b \in Lanes, Observe(b)
    PROVE  StreamsInv'
<1>1. LaneShape(executor[b]) /\ LaneRegistered(executor[b], stream[b]) /\ LaneClosing(executor[b], stream[b])
  BY LaneKept
<1>2. /\ executor[b].thread = "wait" /\ owner' = owner /\ pool' = pool /\ stream' = stream
      /\ executor[b].future = "pending"
      /\ executor[b].cleanup \in {"none", "queued"}
  BY <1>1 DEF Observe, LaneRegistered, LaneClosing, LaneShape
<1>3. PICK l :
        /\ executor' = [executor EXCEPT ![b] = l]
        /\ \/ l.future = "pending" /\ l.thread = "launch"
           \/ l.future \in {"done", "failed"} /\ l.thread = "idle"
        /\ LaneShape(l) /\ l.closed = executor[b].closed /\ l.cleanup = executor[b].cleanup
        /\ l.record = executor[b].record /\ l.handle = executor[b].handle
  <2> DEFINE more == executor[b].todo # <<>>
             seen == [executor[b] EXCEPT !.seen = executor[b].tickets, !.fence = 0,
                        !.thread = IF executor[b].todo = <<>> THEN "idle" ELSE "launch",
                        !.future = IF executor[b].todo = <<>> THEN "done" ELSE @]
             failed == JobFailed(executor[b])
  <2>1. executor' = [executor EXCEPT ![b] = seen] \/ executor' = [executor EXCEPT ![b] = failed]
    BY DEF Observe
  <2>2. /\ \/ seen.future = "pending" /\ seen.thread = "launch"
           \/ seen.future = "done" /\ seen.thread = "idle"
        /\ LaneShape(seen) /\ seen.closed = executor[b].closed /\ seen.cleanup = executor[b].cleanup
        /\ seen.record = executor[b].record /\ seen.handle = executor[b].handle
    BY <1>1, <1>2 DEF LaneShape
  <2>3. /\ failed.future = "failed" /\ failed.thread = "idle"
        /\ LaneShape(failed) /\ failed.closed = executor[b].closed
        /\ failed.cleanup = executor[b].cleanup
        /\ failed.record = executor[b].record /\ failed.handle = executor[b].handle
    BY <1>1 DEF LaneShape, JobFailed
  <2> HIDE DEF seen, failed
  <2> QED
    BY <2>1, <2>2, <2>3
<1>4. LaneRegistered(l, stream[b]) /\ LaneClosing(l, stream[b])
  BY <1>1, <1>2, <1>3 DEF LaneRegistered, LaneClosing
<1>5. LaneStep(b, l, stream[b])
  BY <1>2, <1>3, <1>4, LaneKept DEF LaneStep
<1>6. PoolCounts'
  BY <1>2, <1>3, PoolFollows
<1> QED
  BY <1>5, <1>6, LaneSteps

\* The GPU only shortens a stream.
LEMMA GPUSteps ==
    ASSUME StreamsInv, NEW b \in Lanes, GPUStep(b)
    PROVE  StreamsInv'
<1>1. /\ stream[b] # <<>> /\ stream' = [stream EXCEPT ![b] = Tail(stream[b])]
      /\ executor' = executor /\ pool' = pool /\ owner' = owner
  BY DEF GPUStep
<1>2. LaneRegistered(executor[b], Tail(stream[b])) /\ LaneClosing(executor[b], Tail(stream[b]))
  BY <1>1, LaneKept DEF LaneRegistered, LaneClosing
<1>3. LaneStep(b, executor[b], Tail(stream[b]))
  BY <1>1, <1>2, LaneKept DEF LaneStep
<1>4. PoolCounts'
  BY <1>1, LaneKept, PoolFollows
<1> QED
  BY <1>3, <1>4, LaneSteps

\* A lane is closed by an owner that is closing.
LEMMA CloseStep ==
    ASSUME StreamsInv, NEW b \in Lanes, CloseExecutor(b)
    PROVE  StreamsInv'
<1>1. LaneShape(executor[b]) /\ LaneRegistered(executor[b], stream[b]) /\ LaneClosing(executor[b], stream[b])
  BY LaneKept
<1> DEFINE l == [executor[b] EXCEPT !.closed = TRUE, !.cleanup = "queued"]
<1>2. /\ executor' = [executor EXCEPT ![b] = l] /\ stream' = stream /\ pool' = pool /\ owner' = owner
      /\ owner = "closing" /\ ~ executor[b].closed
  BY DEF CloseExecutor, StreamsInv, Shape
<1>3. executor[b].cleanup = "none"
  BY <1>1, <1>2 DEF LaneClosing
<1>4. /\ LaneShape(l) /\ l.closed /\ l.cleanup = "queued"
      /\ l.record = executor[b].record /\ l.handle = executor[b].handle
      /\ l.future = executor[b].future /\ l.thread = executor[b].thread
  BY <1>1 DEF LaneShape
<1> HIDE DEF l
<1>5. LaneRegistered(l, stream[b]) /\ LaneClosing(l, stream[b])
  BY <1>1, <1>3, <1>4 DEF LaneRegistered, LaneClosing, LaneShape
<1>6. LaneStep(b, l, stream[b])
  BY <1>2, <1>3, <1>4, <1>5, LaneKept DEF LaneStep
<1>7. PoolCounts'
  BY <1>2, <1>4, PoolFollows
<1> QED
  BY <1>6, <1>7, LaneSteps

\* The stream is empty when its cleanup goes on.
LEMMA SynchronizeStep ==
    ASSUME StreamsInv, NEW b \in Lanes, Synchronize(b)
    PROVE  StreamsInv'
<1>1. LaneShape(executor[b]) /\ LaneRegistered(executor[b], stream[b]) /\ LaneClosing(executor[b], stream[b])
  BY LaneKept
<1>2. /\ executor[b].cleanup = "queued" /\ executor[b].thread = "idle"
      /\ stream' = stream /\ pool' = pool /\ owner' = owner
  BY DEF Synchronize
<1>3. PICK to \in {"release", "error"} :
        /\ executor' = [executor EXCEPT ![b] = [executor[b] EXCEPT !.cleanup = to]]
        /\ to = "release" => stream[b] = <<>>
  <2>1. CASE executor' = [executor EXCEPT ![b].cleanup = "release"] /\ (executor[b].handle => stream[b] = <<>>)
    <3>1. stream[b] = <<>>
      BY <1>1, <2>1 DEF LaneRegistered
    <3> QED
      BY <2>1, <3>1 DEF StreamsInv, Shape
  <2>2. CASE executor' = [executor EXCEPT ![b].cleanup = "error"]
    BY <2>2 DEF StreamsInv, Shape
  <2> QED
    BY <2>1, <2>2 DEF Synchronize
<1> DEFINE l == [executor[b] EXCEPT !.cleanup = to]
<1>4. /\ LaneShape(l) /\ l.closed = executor[b].closed /\ l.cleanup = to
      /\ l.record = executor[b].record /\ l.handle = executor[b].handle
      /\ l.future = executor[b].future /\ l.thread = executor[b].thread
  BY <1>1 DEF LaneShape
<1>5. executor' = [executor EXCEPT ![b] = l]
  BY <1>3
<1> HIDE DEF l
<1>6. LaneRegistered(l, stream[b]) /\ LaneClosing(l, stream[b])
  BY <1>1, <1>2, <1>3, <1>4 DEF LaneRegistered, LaneClosing, LaneShape
<1>7. LaneStep(b, l, stream[b])
  BY <1>2, <1>4, <1>5, <1>6, LaneKept DEF LaneStep
<1>8. PoolCounts'
  BY <1>2, <1>4, <1>5, PoolFollows
<1> QED
  BY <1>7, <1>8, LaneSteps

\* The registration is given back once; an error before or behind it ends the cleanup.
LEMMA ReleaseStep ==
    ASSUME StreamsInv, NEW b \in Lanes, ReleaseRecord(b)
    PROVE  StreamsInv'
<1>1. LaneShape(executor[b]) /\ LaneRegistered(executor[b], stream[b]) /\ LaneClosing(executor[b], stream[b])
  BY LaneKept
<1>2. /\ executor[b].cleanup = "release" /\ executor[b].thread = "idle" /\ stream[b] = <<>>
      /\ stream' = stream /\ owner' = owner
  BY <1>1 DEF ReleaseRecord, LaneClosing
<1>3. CASE /\ pool' = IF executor[b].record THEN ReleasedOnce(pool) ELSE pool
           /\ executor' = [executor EXCEPT ![b] = [@ EXCEPT !.record = FALSE, !.handle = FALSE,
                                                    !.cleanup = "ok"]]
  <2> DEFINE l == [executor[b] EXCEPT !.record = FALSE, !.handle = FALSE, !.cleanup = "ok"]
  <2>1. executor' = [executor EXCEPT ![b] = l]
    BY <1>3
  <2>2. /\ LaneShape(l) /\ l.closed = executor[b].closed /\ l.cleanup = "ok"
        /\ ~ l.record /\ ~ l.handle /\ l.future = executor[b].future /\ l.thread = executor[b].thread
    BY <1>1 DEF LaneShape
  <2> HIDE DEF l
  <2>3. LaneRegistered(l, stream[b]) /\ LaneClosing(l, stream[b])
    BY <1>1, <1>2, <2>2 DEF LaneRegistered, LaneClosing, LaneShape
  <2>4. LaneStep(b, l, stream[b])
    BY <1>2, <2>1, <2>2, <2>3, LaneKept DEF LaneStep
  <2>5. CASE executor[b].record
    BY <1>3, <2>1, <2>2, <2>4, <2>5, PoolFollows, LaneSteps
  <2>6. CASE ~ executor[b].record
    <3>1. l.record = executor[b].record
      BY <1>1, <2>2, <2>6 DEF LaneShape
    <3> QED
      BY <1>3, <2>1, <2>4, <2>6, <3>1, PoolFollows, LaneSteps
  <2> QED
    BY <2>5, <2>6
<1>4. CASE executor' = [executor EXCEPT ![b].cleanup = "error"] /\ pool' = pool
  <2> DEFINE l == [executor[b] EXCEPT !.cleanup = "error"]
  <2>1. executor' = [executor EXCEPT ![b] = l]
    BY <1>4 DEF StreamsInv, Shape
  <2>2. /\ LaneShape(l) /\ l.closed = executor[b].closed /\ l.cleanup = "error"
        /\ l.record = executor[b].record /\ l.handle = executor[b].handle
        /\ l.future = executor[b].future /\ l.thread = executor[b].thread
    BY <1>1 DEF LaneShape
  <2> HIDE DEF l
  <2>3. LaneRegistered(l, stream[b]) /\ LaneClosing(l, stream[b])
    BY <1>1, <1>2, <2>2 DEF LaneRegistered, LaneClosing, LaneShape
  <2>4. LaneStep(b, l, stream[b])
    BY <1>2, <2>1, <2>2, <2>3, LaneKept DEF LaneStep
  <2>5. PoolCounts'
    BY <1>4, <2>1, <2>2, PoolFollows
  <2> QED
    BY <2>4, <2>5, LaneSteps
<1>5. CASE /\ pool' = IF executor[b].record THEN ReleasedOnce(pool) ELSE pool
           /\ executor' = [executor EXCEPT ![b] = [@ EXCEPT !.record = FALSE, !.cleanup = "error"]]
  <2> DEFINE l == [executor[b] EXCEPT !.record = FALSE, !.cleanup = "error"]
  <2>1. executor' = [executor EXCEPT ![b] = l]
    BY <1>5
  <2>2. /\ LaneShape(l) /\ l.closed = executor[b].closed /\ l.cleanup = "error"
        /\ ~ l.record /\ l.handle = executor[b].handle
        /\ l.future = executor[b].future /\ l.thread = executor[b].thread
    BY <1>1 DEF LaneShape
  <2> HIDE DEF l
  <2>3. LaneRegistered(l, stream[b]) /\ LaneClosing(l, stream[b])
    BY <1>1, <1>2, <2>2 DEF LaneRegistered, LaneClosing, LaneShape
  <2>4. LaneStep(b, l, stream[b])
    BY <1>2, <2>1, <2>2, <2>3, LaneKept DEF LaneStep
  <2>5. CASE executor[b].record
    BY <1>5, <2>1, <2>2, <2>4, <2>5, PoolFollows, LaneSteps
  <2>6. CASE ~ executor[b].record
    <3>1. l.record = executor[b].record
      BY <1>1, <2>2, <2>6 DEF LaneShape
    <3> QED
      BY <1>5, <2>1, <2>4, <2>6, <3>1, PoolFollows, LaneSteps
  <2> QED
    BY <2>5, <2>6
<1> QED
  BY <1>3, <1>4, <1>5 DEF ReleaseRecord

\* The owner goes through its close; the lanes stand still.
LEMMA OwnerStep ==
    ASSUME StreamsInv, BeginClose \/ EndClose
    PROVE  StreamsInv'
<1>1. UNCHANGED <<executor, stream, pool>>
  BY DEF BeginClose, EndClose
<1>2. Shape'
  BY <1>1 DEF StreamsInv, Shape, BeginClose, EndClose
<1>3. (\A b \in Lanes : LaneRegistered(executor[b], stream[b]) /\ LaneClosing(executor[b], stream[b]))'
  BY <1>1 DEF StreamsInv
<1>4. PoolCounts'
  BY <1>1 DEF StreamsInv, PoolCounts
<1>5. OwnerCloses'
  <2>1. CASE BeginClose
    BY <2>1 DEF BeginClose, OwnerCloses
  <2>2. CASE EndClose
    <3>1. \A b \in Lanes : executor[b].cleanup \in {"ok", "error"}
      BY <2>2 DEF EndClose, JoinedBoth
    <3>2. \/ owner' = "failed"
          \/ owner' = "closed" /\ \A b \in Lanes : executor[b].cleanup = "ok"
      BY <2>2 DEF EndClose
    <3> QED
      BY <1>1, <3>1, <3>2 DEF OwnerCloses
  <2> QED
    BY <2>1, <2>2
<1> QED
  BY <1>2, <1>3, <1>4, <1>5 DEF StreamsInv

\* Every step of the executors, and a stutter.
LEMMA StreamsSteps ==
    ASSUME StreamsInv, [StreamsNext]_streamVars
    PROVE  StreamsInv'
<1>1. ASSUME NEW b \in Lanes, NEW plan \in CopyPlans, SubmitPlan(b, plan) PROVE StreamsInv'
  BY <1>1, SubmitStep
<1>2. ASSUME NEW b \in Lanes, Initialize(b) PROVE StreamsInv'
  BY <1>2, InitializeStep
<1>3. ASSUME NEW b \in Lanes, Launch(b) PROVE StreamsInv'
  BY <1>3, LaunchStep
<1>4. ASSUME NEW b \in Lanes, Observe(b) PROVE StreamsInv'
  BY <1>4, ObserveStep
<1>5. ASSUME NEW b \in Lanes, GPUStep(b) PROVE StreamsInv'
  BY <1>5, GPUSteps
<1>6. ASSUME NEW b \in Lanes, Produce(b) PROVE StreamsInv'
  BY <1>6 DEF Produce, StreamsInv, Shape, PoolCounts, OwnerCloses
<1>7. ASSUME NEW b \in Lanes, CloseExecutor(b) PROVE StreamsInv'
  BY <1>7, CloseStep
<1>8. ASSUME NEW b \in Lanes, Synchronize(b) PROVE StreamsInv'
  BY <1>8, SynchronizeStep
<1>9. ASSUME NEW b \in Lanes, ReleaseRecord(b) PROVE StreamsInv'
  BY <1>9, ReleaseStep
<1>10. ASSUME BeginClose \/ EndClose PROVE StreamsInv'
  BY <1>10, OwnerStep
<1>11. CASE UNCHANGED streamVars
  BY <1>11 DEF streamVars, StreamsInv, Shape, PoolCounts, OwnerCloses
<1> QED
  BY <1>1, <1>2, <1>3, <1>4, <1>5, <1>6, <1>7, <1>8, <1>9, <1>10, <1>11 DEF StreamsNext

-----------------------------------------------------------------------------
\* A copy in a stream means a registration of its lane, hence of the pool; the
\* owner's end means that both lanes were joined.
LEMMA StreamsClean == ASSUME StreamsInv PROVE CloseIsClean
<1>1. RegisteredWhileCopying
  <2> SUFFICES ASSUME NEW b \in Lanes, NEW i \in DOMAIN stream[b] PROVE pool.registered
    BY DEF RegisteredWhileCopying
  <2>1. stream[b] # <<>>
    OBVIOUS
  <2>2. executor[b].record
    BY <2>1 DEF StreamsInv, LaneRegistered
  <2>3. \A a \in Lanes : Held(executor[a]) \in {0, 1}
    BY DEF Held
  <2>4. pool.count > 0
    BY <2>2, <2>3 DEF StreamsInv, PoolCounts, Held, Lanes
  <2> QED
    BY <2>4 DEF StreamsInv, PoolCounts
<1>2. ASSUME owner \in {"closed", "failed"}, NEW b \in Lanes
      PROVE  executor[b].thread = "idle" /\ (stream[b] = <<>> \/ executor[b].cleanup = "error")
  BY <1>2 DEF StreamsInv, OwnerCloses, LaneClosing
<1>3. ASSUME owner = "closed" PROVE pool = [count |-> 0, registered |-> FALSE]
  <2>1. \A b \in Lanes : ~ executor[b].record
    BY <1>3 DEF StreamsInv, OwnerCloses, LaneClosing, LaneRegistered
  <2>2. Held(executor[0]) = 0 /\ Held(executor[1]) = 0
    BY <2>1 DEF Held, Lanes
  <2> QED
    BY <2>2 DEF StreamsInv, PoolCounts
<1> QED
  BY <1>1, <1>2, <1>3 DEF CloseIsClean, CloseJoinsBoth

\* The registration of host memory follows the lanes that may use it, whatever
\* CUDA call fails (HostRegistrationPool, CudaCopyBackend.close).
THEOREM StreamsInvariant == StreamsSpec => []StreamsInv
<1>1. InitStreams => StreamsInv
  BY StreamsInit
<1>2. StreamsInv /\ [StreamsNext]_streamVars => StreamsInv'
  BY StreamsSteps
<1> QED
  BY <1>1, <1>2, PTL DEF StreamsSpec

\* Closing the executors of a GPU leaves nothing that still uses the host memory,
\* for every set of plans, chunk budget, group size and number of failing calls
\* (BankCopyExecutor.close, CudaCopyBackend.close).
THEOREM ClosesAreClean == StreamsSpec => []CloseIsClean
<1>1. StreamsInv => CloseIsClean
  BY StreamsClean
<1> QED
  BY <1>1, StreamsInvariant, PTL

-----------------------------------------------------------------------------
\* The transport, with the steps of CommandTransport.
TransportSpec == InitTransport /\ [][TransportNext]_transportVars

-----------------------------------------------------------------------------
\* The remainder of a division.
LEMMA ModRange ==
    ASSUME NEW m \in Nat \ {0}, NEW a \in Int
    PROVE  a % m \in 0 .. m - 1 /\ a = m * (a \div m) + (a % m) /\ a \div m \in Int
<1>1. a % m \in 0 .. m - 1
  OBVIOUS
<1>2. a = m * (a \div m) + (a % m)
  OBVIOUS
<1>3. a \div m \in Int
  OBVIOUS
<1> QED
  BY <1>1, <1>2, <1>3

\* Multiples do not change it.
LEMMA ModOfSum ==
    ASSUME NEW m \in Nat \ {0}, NEW x \in 0 .. m - 1, NEW k \in Int
    PROVE  (x + m * k) % m = x
OBVIOUS

\* A position of the arena, or its end.
LEMMA ModSmall ==
    ASSUME NEW m \in Nat \ {0}, NEW x \in 0 .. m
    PROVE  x % m = IF x = m THEN 0 ELSE x
OBVIOUS

\* A positive multiple is at least the modulus.
LEMMA Far ==
    ASSUME NEW m \in Nat \ {0}, NEW x \in Int, NEW k \in Int, x = m * k, 0 < x
    PROVE  m <= x
<1>1. k >= 1
  OBVIOUS
<1>2. m * k >= m * 1
  BY <1>1
<1> QED
  BY <1>1, <1>2

\* Positions of a ring that are less than a lap apart are in different slots.
LEMMA SlotsDiffer ==
    ASSUME NEW m \in Nat \ {0}, NEW a \in Nat, NEW b \in Nat, a < b, b - a < m
    PROVE  a % m # b % m
<1> SUFFICES ASSUME a % m = b % m PROVE FALSE
  OBVIOUS
<1> DEFINE k == a \div m
           l == b \div m
<1>1. a = m * k + (a % m) /\ k \in Int
  BY ModRange
<1>2. b = m * l + (b % m) /\ l \in Int
  BY ModRange
<1>3. a % m \in Int
  BY ModRange
<1> HIDE DEF k, l
<1>4. b - a = m * (l - k)
  BY <1>1, <1>2, <1>3
<1>5. l - k \in Int /\ b - a \in Int /\ 0 < b - a
  BY <1>1, <1>2
<1>6. m <= b - a
  BY <1>4, <1>5, Far
<1> QED
  BY <1>6

\* The slots of an arena are apart and inside it.
LEMMA SlotsApart ==
    ASSUME NEW a \in Nat, NEW b \in Nat, a < b, NEW n \in Nat
    PROVE  a * n + n <= b * n
<1>1. PICK k \in Nat : b = a + 1 + k
  <2>1. b - a - 1 \in Nat /\ b = a + 1 + (b - a - 1)
    OBVIOUS
  <2> QED
    BY <2>1
<1>2. k * n >= 0
  OBVIOUS
<1>3. b * n = a * n + n + k * n
  BY <1>1
<1> QED
  BY <1>2, <1>3

\* NativeRing: a position names one slot of the ring and of the arena, inside both.
LEMMA SlotInside ==
    ASSUME NEW p \in Nat
    PROVE  /\ p % RingSlots \in 0 .. RingSlots - 1
           /\ SlotBytes \in Nat
           /\ (p % RingSlots) * SlotBytes \in Nat
           /\ (p % RingSlots) * SlotBytes + SlotBytes <= PayloadBytes
<1>1. RingSlots \in Nat \ {0} /\ PayloadBytes \in Nat
  BY TransportAssumption
<1>2. p % RingSlots \in 0 .. RingSlots - 1
  BY <1>1, ModRange
<1>3. SlotBytes \in Nat /\ RingSlots * SlotBytes <= PayloadBytes
  BY <1>1 DEF SlotBytes
<1> HIDE DEF SlotBytes
<1>4. (p % RingSlots) * SlotBytes + SlotBytes <= RingSlots * SlotBytes
  BY <1>1, <1>2, <1>3, SlotsApart
<1>5. \A a, b \in Nat : a * b \in Nat
  OBVIOUS
<1>6. RingSlots * SlotBytes \in Nat /\ (p % RingSlots) * SlotBytes \in Nat
  BY <1>1, <1>2, <1>3, <1>5
<1> QED
  BY <1>1, <1>2, <1>3, <1>4, <1>6

\* A later number on the wire is newer, an earlier one is not.
LEMMA WireAdvances ==
    ASSUME NEW a \in Nat, NEW b \in a + 1 .. a + 2
    PROVE  /\ Wire(a) \in Nat /\ Wire(b) \in Nat
           /\ IsNewer(Wire(b), Wire(a))
           /\ Wire(a) # Wire(b) /\ ~IsNewer(Wire(a), Wire(b))
<1> DEFINE m == SeqModulus
<1>1. m \in Nat \ {0} /\ m > 4 /\ a \in Int /\ b \in Int
  BY TransportAssumption
<1> DEFINE k == a \div m
           l == b \div m
<1> HIDE DEF m
<1>2. a = m * k + (a % m) /\ k \in Int
  BY <1>1, ModRange
<1>3. b = m * l + (b % m) /\ l \in Int
  BY <1>1, ModRange
<1>4. a % m \in 0 .. m - 1 /\ b % m \in 0 .. m - 1
  BY <1>1, ModRange
<1> HIDE DEF k, l
<1> DEFINE d == b - a
<1>5. d \in 1 .. 2
  OBVIOUS
<1>6. (b % m) - (a % m) = d + m * (k - l)
  BY <1>1, <1>2, <1>3, <1>4
<1>7. (a % m) - (b % m) = (m - d) + m * (l - k - 1)
  BY <1>1, <1>2, <1>3, <1>4
<1> HIDE DEF d
<1>8. k - l \in Int /\ l - k - 1 \in Int /\ d \in 0 .. m - 1 /\ m - d \in 0 .. m - 1
  BY <1>1, <1>2, <1>3, <1>5
<1>9. ((b % m) - (a % m)) % m = d /\ ((a % m) - (b % m)) % m = m - d
  <2>1. (d + m * (k - l)) % m = d
    BY <1>1, <1>8, ModOfSum
  <2>2. ((m - d) + m * (l - k - 1)) % m = m - d
    BY <1>1, <1>8, ModOfSum
  <2> QED
    BY <1>6, <1>7, <2>1, <2>2
<1>10. d <= m \div 2 /\ ~(m - d <= m \div 2) /\ 0 < d
  BY <1>1, <1>5
<1>11. a % m # b % m
  <2> SUFFICES ASSUME a % m = b % m PROVE FALSE
    OBVIOUS
  <2>1. ((b % m) - (a % m)) = 0
    BY <1>4
  <2>2. 0 % m = 0
    BY <1>1
  <2> QED
    BY <1>9, <1>10, <2>1, <2>2
<1> QED
  BY <1>4, <1>9, <1>10, <1>11 DEF Wire, IsNewer, m

-----------------------------------------------------------------------------
\* The arena of the local transport.  Behind its tail the allocations follow each
\* other around the circle; those that have wrapped lie before the tail.
Allocation == [seq : Nat, offset : Nat, length : Nat]
Around(c, i) ==
    IF c.allocations[i].offset < c.tail THEN c.allocations[i].offset + PayloadBytes
    ELSE c.allocations[i].offset
End(c, i) == c.allocations[i].offset + c.allocations[i].length

Circles == [head : 0 .. PayloadBytes - 1, tail : 0 .. PayloadBytes - 1, allocations : Seq(Allocation)]

CircleOk(c) ==
    /\ c \in Circles
    /\ c.allocations = <<>> => c = EmptyCircle
    /\ c.allocations # <<>> => c.head = End(c, Len(c.allocations)) % PayloadBytes
    /\ \A i \in 1 .. Len(c.allocations) :
         /\ c.allocations[i].length >= 1 /\ End(c, i) <= PayloadBytes
         /\ Around(c, i) + c.allocations[i].length <= c.tail + PayloadBytes
    /\ \A i, j \in 1 .. Len(c.allocations) :
         i < j => Around(c, i) + c.allocations[i].length <= Around(c, j)

\* The fields of the circle and of an allocation.
LEMMA CircleFields ==
    ASSUME NEW c, CircleOk(c)
    PROVE  /\ PayloadBytes \in Nat \ {0}
           /\ c.head \in Nat /\ c.head < PayloadBytes
           /\ c.tail \in Nat /\ c.tail < PayloadBytes
           /\ Len(c.allocations) \in Nat
           /\ c.allocations # <<>> <=> 1 <= Len(c.allocations)
<1>1. PayloadBytes \in Nat \ {0}
  BY TransportAssumption
<1> QED
  BY <1>1 DEF CircleOk, Circles

\* The fields of an allocation in the circle.
LEMMA AllocationFields ==
    ASSUME NEW c, CircleOk(c), NEW i \in 1 .. Len(c.allocations)
    PROVE  /\ c.allocations[i] \in Allocation
           /\ c.allocations[i].offset \in Nat
           /\ c.allocations[i].length \in Nat /\ 1 <= c.allocations[i].length
           /\ End(c, i) = c.allocations[i].offset + c.allocations[i].length
           /\ End(c, i) \in Nat /\ 1 <= End(c, i) /\ End(c, i) <= PayloadBytes
           /\ Around(c, i) = IF c.allocations[i].offset < c.tail
                             THEN c.allocations[i].offset + PayloadBytes
                             ELSE c.allocations[i].offset
           /\ Around(c, i) \in Nat
           /\ Around(c, i) + c.allocations[i].length <= c.tail + PayloadBytes
<1>1. c.allocations[i] \in Allocation
  BY DEF CircleOk, Circles
<1>2. c.allocations[i].offset \in Nat /\ c.allocations[i].length \in Nat
  BY <1>1 DEF Allocation
<1>3. /\ c.allocations[i].length >= 1 /\ End(c, i) <= PayloadBytes
      /\ Around(c, i) + c.allocations[i].length <= c.tail + PayloadBytes
  BY DEF CircleOk
<1>4. End(c, i) = c.allocations[i].offset + c.allocations[i].length
  BY DEF End
<1>5. Around(c, i) = IF c.allocations[i].offset < c.tail
                     THEN c.allocations[i].offset + PayloadBytes
                     ELSE c.allocations[i].offset
  BY DEF Around
<1>6. PayloadBytes \in Nat
  BY TransportAssumption
<1> QED
  BY <1>1, <1>2, <1>3, <1>4, <1>5, <1>6

\* Pieces that follow each other around the circle are apart in the arena.
LEMMA PiecesApart ==
    ASSUME NEW bound \in Nat, NEW tail \in Nat, NEW x \in Nat, NEW y \in Nat,
           NEW xs \in Nat, NEW ys \in Nat, 1 <= xs,
           NEW ax \in Nat, ax = IF x < tail THEN x + bound ELSE x,
           NEW ay \in Nat, ay = IF y < tail THEN y + bound ELSE y,
           ax + xs <= ay, ay + ys <= tail + bound, y + ys <= bound
    PROVE  x + xs <= y \/ y + ys <= x
OBVIOUS

\* Two allocations share no byte.
LEMMA AllocationsApart ==
    ASSUME NEW c, CircleOk(c), NEW i \in 1 .. Len(c.allocations), NEW j \in 1 .. Len(c.allocations), i < j
    PROVE  End(c, i) <= c.allocations[j].offset \/ End(c, j) <= c.allocations[i].offset
<1> DEFINE x == c.allocations[i].offset
           xs == c.allocations[i].length
           ax == Around(c, i)
           y == c.allocations[j].offset
           ys == c.allocations[j].length
           ay == Around(c, j)
           tail == c.tail
<1>1. ax + xs <= ay
  BY DEF CircleOk
<1>2. PayloadBytes \in Nat /\ tail \in Nat
  BY CircleFields
<1>3. /\ x \in Nat /\ xs \in Nat /\ 1 <= xs /\ ax \in Nat /\ End(c, i) = x + xs
      /\ ax = IF x < tail THEN x + PayloadBytes ELSE x
  BY AllocationFields
<1>4. /\ y \in Nat /\ ys \in Nat /\ ay \in Nat /\ End(c, j) = y + ys /\ End(c, j) <= PayloadBytes
      /\ ay = IF y < tail THEN y + PayloadBytes ELSE y
      /\ ay + ys <= tail + PayloadBytes
  BY AllocationFields
<1>5. y + ys <= PayloadBytes
  BY <1>4
<1> HIDE DEF x, xs, ax, y, ys, ay, tail
<1>6. x + xs <= y \/ y + ys <= x
  BY <1>1, <1>2, <1>3, <1>4, <1>5, PiecesApart
<1> QED
  BY <1>3, <1>4, <1>6 DEF x, y

\* A sequence with one element more.
LEMMA OneMore ==
    ASSUME NEW T, NEW s \in Seq(T), NEW a \in T
    PROVE  /\ Append(s, a) \in Seq(T) /\ Len(Append(s, a)) = Len(s) + 1 /\ Append(s, a) # <<>>
           /\ \A i \in 1 .. Len(s) : Append(s, a)[i] = s[i]
           /\ Append(s, a)[Len(s) + 1] = a
OBVIOUS

\* One allocation more, behind the last one: the circle goes on.
LEMMA CircleGrows ==
    ASSUME NEW c, CircleOk(c), NEW a \in Allocation, NEW d \in Circles,
           1 <= a.length, a.offset + a.length <= PayloadBytes,
           c.allocations = <<>> => a.offset = 0,
           c.allocations # <<>> =>
               LET around == IF a.offset < c.tail THEN a.offset + PayloadBytes ELSE a.offset
               IN  /\ Around(c, Len(c.allocations)) + c.allocations[Len(c.allocations)].length <= around
                   /\ around + a.length <= c.tail + PayloadBytes,
           d.head = (a.offset + a.length) % PayloadBytes, d.tail = c.tail,
           d.allocations = Append(c.allocations, a)
    PROVE  CircleOk(d)
<1> DEFINE last == Len(c.allocations)
           around == IF a.offset < c.tail THEN a.offset + PayloadBytes ELSE a.offset
<1>1. /\ PayloadBytes \in Nat \ {0} /\ c.tail \in Nat /\ c.tail < PayloadBytes
      /\ last \in Nat /\ (c.allocations # <<>> <=> 1 <= last)
  BY CircleFields
<1>2. a.offset \in Nat /\ a.length \in Nat /\ c.allocations \in Seq(Allocation)
  BY DEF Allocation, CircleOk, Circles
<1>4. /\ Len(d.allocations) = last + 1
      /\ \A i \in 1 .. last : d.allocations[i] = c.allocations[i]
      /\ d.allocations[last + 1] = a /\ d.allocations # <<>>
  <2>1. d.allocations = Append(c.allocations, a)
    OBVIOUS
  <2>2. a \in Allocation /\ c.allocations \in Seq(Allocation)
    BY <1>2
  <2>3. /\ Len(Append(c.allocations, a)) = Len(c.allocations) + 1
        /\ Append(c.allocations, a) # <<>>
        /\ \A i \in 1 .. Len(c.allocations) : Append(c.allocations, a)[i] = c.allocations[i]
        /\ Append(c.allocations, a)[Len(c.allocations) + 1] = a
    BY <2>2, OneMore
  <2> QED
    BY <2>1, <2>3
<1>5. around + a.length <= c.tail + PayloadBytes
  <2>1. c.allocations = <<>> => c.tail = 0
    BY DEF CircleOk, EmptyCircle
  <2> QED
    BY <1>1, <1>2, <2>1
<1>6. /\ \A i \in 1 .. last : Around(d, i) = Around(c, i) /\ End(d, i) = End(c, i)
      /\ Around(d, last + 1) = around /\ End(d, last + 1) = a.offset + a.length
  BY <1>4 DEF Around, End
<1> HIDE DEF last, around
<1>7. \A i \in 1 .. last + 1 : i \in 1 .. last \/ i = last + 1
  BY <1>1
<1>8. ASSUME NEW i \in 1 .. last + 1
      PROVE  /\ d.allocations[i].length >= 1 /\ End(d, i) <= PayloadBytes
             /\ Around(d, i) + d.allocations[i].length <= d.tail + PayloadBytes
  <2>1. CASE i \in 1 .. last
    <3>1. /\ 1 <= c.allocations[i].length /\ End(c, i) <= PayloadBytes
          /\ Around(c, i) + c.allocations[i].length <= c.tail + PayloadBytes
          /\ c.allocations[i].length \in Nat
      BY <2>1, AllocationFields DEF last
    <3> QED
      BY <1>4, <1>6, <2>1, <3>1
  <2>2. CASE i = last + 1
    BY <1>2, <1>4, <1>5, <1>6, <2>2
  <2> QED
    BY <1>7, <2>1, <2>2
<1>9. ASSUME NEW i \in 1 .. last + 1, NEW j \in 1 .. last + 1, i < j
      PROVE  Around(d, i) + d.allocations[i].length <= Around(d, j)
  <2>1. i \in 1 .. last /\ last \in 1 .. last
    BY <1>1, <1>9
  <2>2. CASE j \in 1 .. last
    <3>1. Around(c, i) + c.allocations[i].length <= Around(c, j)
      BY <1>9, <2>1, <2>2 DEF CircleOk, last
    <3> QED
      BY <1>4, <1>6, <2>1, <2>2, <3>1
  <2>3. CASE j = last + 1
    <3>1. Around(c, last) + c.allocations[last].length <= around
      BY <1>1, <2>1 DEF last, around
    <3>2. i < last => Around(c, i) + c.allocations[i].length <= Around(c, last)
      BY <2>1 DEF CircleOk, last
    <3>3. /\ Around(c, i) \in Nat /\ c.allocations[i].length \in Nat
          /\ Around(c, last) \in Nat /\ c.allocations[last].length \in Nat
      BY <2>1, AllocationFields DEF last
    <3>4. around \in Nat
      BY <1>1, <1>2 DEF around
    <3>5. Around(c, i) + c.allocations[i].length <= around
      <4> DEFINE x == Around(c, i)
                 xs == c.allocations[i].length
                 y == Around(c, last)
                 ys == c.allocations[last].length
      <4>1. i = last \/ i < last
        BY <1>1, <2>1
      <4>2. CASE i = last
        BY <3>1, <4>2
      <4>3. CASE i < last
        <5>1. x + xs <= y /\ y + ys <= around /\ x \in Nat /\ xs \in Nat /\ y \in Nat /\ ys \in Nat
          BY <3>1, <3>2, <3>3, <4>3
        <5> HIDE DEF x, xs, y, ys
        <5>2. x + xs <= around
          BY <3>4, <5>1
        <5> QED
          BY <5>2 DEF x, xs
      <4> QED
        BY <4>1, <4>2, <4>3
    <3> QED
      BY <1>4, <1>6, <2>1, <2>3, <3>5
  <2> QED
    BY <1>7, <2>2, <2>3
<1> QED
  BY <1>4, <1>6, <1>8, <1>9 DEF CircleOk

\* The entry of an allocation, and the circle with it.
Entry(n, offset, length) == [seq |-> Wire(n), offset |-> offset, length |-> length]

\* CommandArena.allocate appends one allocation; head and tail stay where they were set.
LEMMA AllocatedFields ==
    ASSUME NEW c \in Circles, NEW n, NEW room, NEW length, room.head \in 0 .. PayloadBytes - 1,
           Entry(n, room.offset, length) \in Allocation
    PROVE  LET d == Allocated(c, n, room, length)
           IN  /\ d \in Circles /\ d.head = room.head /\ d.tail = c.tail
               /\ d.allocations = Append(c.allocations, Entry(n, room.offset, length))
<1> DEFINE a == Entry(n, room.offset, length)
           x == room.head
           d == [c EXCEPT !.head = x, !.allocations = Append(@, a)]
<1>1. Append(c.allocations, a) \in Seq(Allocation)
  BY DEF Circles
<1> HIDE DEF a, x
<1>2. /\ d \in Circles /\ d.head = x /\ d.tail = c.tail
      /\ d.allocations = Append(c.allocations, a)
  BY <1>1 DEF Circles, x
<1> QED
  BY <1>2 DEF Allocated, Entry, a, x

\* Where there is room the circle goes on.
LEMMA ReserveFits ==
    ASSUME NEW c, CircleOk(c), NEW length \in 1 .. PayloadBytes, NEW n,
           Wire(n) \in Nat, Reserve(c, length) # NoRoom
    PROVE  LET room == Reserve(c, length)
               d == Allocated(c, n, room, length)
           IN  /\ CircleOk(d) /\ d.tail = c.tail
               /\ d.allocations = Append(c.allocations, Entry(n, room.offset, length))
               /\ room.offset \in Nat /\ room.offset + length <= PayloadBytes
               /\ Entry(n, room.offset, length) \in Allocation
<1> DEFINE room == Reserve(c, length)
           o == room.offset
           a == Entry(n, o, length)
           d == Allocated(c, n, room, length)
           last == Len(c.allocations)
           size == c.allocations[last].length
           around == IF o < c.tail THEN o + PayloadBytes ELSE o
<1>1. /\ PayloadBytes \in Nat \ {0} /\ length \in Nat /\ 1 <= length /\ length <= PayloadBytes
      /\ c.head \in Nat /\ c.tail \in Nat /\ c.head < PayloadBytes /\ c.tail < PayloadBytes
      /\ last \in Nat /\ (c.allocations # <<>> <=> 1 <= last)
  BY CircleFields
<1>2. /\ o \in Nat /\ o + length <= PayloadBytes /\ room.head = (o + length) % PayloadBytes
      /\ c.allocations = <<>> => o = 0
      /\ c.allocations # <<>> =>
           Around(c, last) + size <= around /\ around + length <= c.tail + PayloadBytes
  <2>1. CASE c.allocations = <<>>
    <3>1. room = RoomAt(0, length)
      BY <2>1 DEF Reserve
    <3>2. o = 0 /\ room.head = (0 + length) % PayloadBytes
      BY <3>1 DEF RoomAt
    <3> QED
      BY <1>1, <2>1, <3>2
  <2>2. CASE c.allocations # <<>>
    <3> DEFINE stop == End(c, last)
               place == c.allocations[last].offset
               mine == Around(c, last)
               tail == c.tail
               head == c.head
    <3>1. last \in 1 .. last
      BY <1>1, <2>2
    <3>2. /\ stop = place + size /\ stop \in Nat /\ stop <= PayloadBytes
          /\ place \in Nat /\ size \in Nat /\ 1 <= size /\ mine \in Nat
          /\ mine = IF place < tail THEN place + PayloadBytes ELSE place
          /\ mine + size <= tail + PayloadBytes
      BY <3>1, AllocationFields
    <3>3. head = stop % PayloadBytes
      BY <2>2 DEF CircleOk
    <3>4. \/ head > tail /\ length <= PayloadBytes - head /\ room = RoomAt(head, length)
          \/ head > tail /\ length <= tail /\ room = RoomAt(0, length)
          \/ head < tail /\ length <= tail - head /\ room = RoomAt(head, length)
      BY <1>1, <2>2 DEF Reserve
    <3>5. \/ head > tail /\ length <= PayloadBytes - head /\ o = head
          \/ head > tail /\ length <= tail /\ o = 0
          \/ head < tail /\ length <= tail - head /\ o = head
      BY <3>4 DEF RoomAt
    <3>6. room.head = (o + length) % PayloadBytes
      BY <3>4 DEF RoomAt
    <3>7. tail \in Nat /\ head \in Nat /\ tail < PayloadBytes
      BY <1>1
    <3> HIDE DEF room, o, stop, place, last, size, mine, tail, head
    <3>8. head = IF stop = PayloadBytes THEN 0 ELSE stop
      <4>1. stop \in 0 .. PayloadBytes
        BY <1>1, <3>2
      <4> QED
        BY <1>1, <3>3, <4>1, ModSmall
    <3>9. o \in Nat /\ o + length <= PayloadBytes
      BY <1>1, <3>5, <3>7
    <3>10. o < tail => mine + size <= o + PayloadBytes /\ o + PayloadBytes + length <= tail + PayloadBytes
      BY <1>1, <3>2, <3>5, <3>7, <3>8
    <3>11. ~(o < tail) => mine + size <= o /\ o + length <= tail + PayloadBytes
      BY <1>1, <3>2, <3>5, <3>7, <3>8
    <3> QED
      BY <2>2, <3>6, <3>9, <3>10, <3>11 DEF mine, tail
  <2> QED
    BY <2>1, <2>2
<1> HIDE DEF room, o
<1>3. a \in Allocation /\ a.offset = o /\ a.length = length
  BY <1>1, <1>2 DEF Allocation, Entry
<1>4. room.head \in 0 .. PayloadBytes - 1
  <2>1. o + length \in Int
    BY <1>1, <1>2
  <2> QED
    BY <1>1, <1>2, <2>1, ModRange
<1>5. /\ d \in Circles /\ d.head = room.head /\ d.tail = c.tail
      /\ d.allocations = Append(c.allocations, a)
  BY <1>3, <1>4, AllocatedFields DEF CircleOk, o
<1> HIDE DEF a, d
<1>6. CircleOk(d)
  BY <1>1, <1>2, <1>3, <1>5, CircleGrows
<1> QED
  BY <1>2, <1>3, <1>5, <1>6 DEF a, d, o, room

\* Discarding the last allocation undoes it.
LEMMA DiscardUndoes ==
    ASSUME NEW c, CircleOk(c), NEW d \in Circles, NEW a \in Allocation,
           d.tail = c.tail, d.allocations = Append(c.allocations, a)
    PROVE  Discarded(d) = c
<1> DEFINE rest == Front(d.allocations)
<1>1. c \in Circles /\ c.allocations \in Seq(Allocation)
  BY DEF CircleOk, Circles
<1>2. rest = c.allocations
  BY <1>1 DEF Front
<1>3. CASE c.allocations = <<>>
  BY <1>2, <1>3 DEF Discarded, CircleOk
<1>4. CASE c.allocations # <<>>
  <2> DEFINE x == (Last(rest).offset + Last(rest).length) % PayloadBytes
             e == [d EXCEPT !.allocations = rest, !.head = x]
  <2>1. Discarded(d) = e
    BY <1>2, <1>4 DEF Discarded
  <2>2. x = c.head
    BY <1>2, <1>4 DEF CircleOk, Last, End
  <2> HIDE DEF x, rest
  <2>3. e \in Circles /\ e.head = c.head /\ e.tail = c.tail /\ e.allocations = c.allocations
    BY <1>1, <1>2, <2>2 DEF Circles
  <2> HIDE DEF e
  <2>4. e = c
    BY <1>1, <2>3 DEF Circles
  <2> QED
    BY <2>1, <2>4
<1> QED
  BY <1>3, <1>4

\* Where the tail moves past a piece, those behind it keep their order.
LEMMA TailMoves ==
    ASSUME NEW bound \in Nat, NEW tail \in Nat, tail < bound, NEW x \in Nat, NEW y \in Nat,
           NEW xs \in Nat, NEW ys \in Nat, 1 <= xs, 1 <= ys,
           NEW ax \in Nat, ax = IF x < tail THEN x + bound ELSE x,
           NEW ay \in Nat, ay = IF y < tail THEN y + bound ELSE y,
           ax + xs <= ay, ay + ys <= tail + bound, x + xs <= bound, y + ys <= bound,
           NEW new \in Nat, new = IF x + xs = bound THEN 0 ELSE x + xs,
           NEW shift \in Nat, shift = IF ax + xs >= bound THEN bound ELSE 0
    PROVE  /\ (IF y < new THEN y + bound ELSE y) = ay - shift
           /\ ay - shift + ys <= new + bound
OBVIOUS

\* An arena nothing is allocated in.
LEMMA EmptyIsOk == CircleOk(EmptyCircle)
<1>1. PayloadBytes \in Nat \ {0}
  BY TransportAssumption
<1>2. 0 \in 0 .. PayloadBytes - 1 /\ <<>> \in Seq(Allocation)
  BY <1>1
<1>3. EmptyCircle \in Circles /\ EmptyCircle.allocations = <<>>
  BY <1>2 DEF EmptyCircle, Circles
<1>4. Len(EmptyCircle.allocations) = 0
  BY <1>3
<1>5. 1 .. 0 = {}
  OBVIOUS
<1> QED
  BY <1>3, <1>4, <1>5 DEF CircleOk

\* What stays behind the first allocation is a circle from its end on.
LEMMA CircleShrinks ==
    ASSUME NEW c, CircleOk(c), 2 <= Len(c.allocations), NEW d \in Circles, d.head = c.head,
           d.tail = End(c, 1) % PayloadBytes,
           d.allocations = SubSeq(c.allocations, 2, Len(c.allocations))
    PROVE  /\ CircleOk(d) /\ Len(d.allocations) = Len(c.allocations) - 1
           /\ \A i \in 1 .. Len(d.allocations) : d.allocations[i] = c.allocations[i + 1]
<1> DEFINE last == Len(c.allocations)
           shift == IF Around(c, 1) + c.allocations[1].length >= PayloadBytes THEN PayloadBytes ELSE 0
<1>1. /\ PayloadBytes \in Nat \ {0} /\ c.tail \in Nat /\ c.tail < PayloadBytes
      /\ last \in Nat /\ 2 <= last /\ c.allocations \in Seq(Allocation)
  BY CircleFields DEF CircleOk, Circles
<1>2. /\ Len(d.allocations) = last - 1
      /\ \A i \in 1 .. last - 1 : d.allocations[i] = c.allocations[i + 1]
  BY <1>1
<1> HIDE DEF last
<1>3. \A i \in 1 .. last - 1 : End(d, i) = End(c, i + 1)
  BY <1>2 DEF End
<1>4. ASSUME NEW i \in 1 .. last - 1
      PROVE  /\ Around(d, i) = Around(c, i + 1) - shift
             /\ Around(d, i) + d.allocations[i].length <= d.tail + PayloadBytes
             /\ d.allocations[i].length >= 1 /\ End(d, i) <= PayloadBytes
  <2> DEFINE x == c.allocations[1].offset
             xs == c.allocations[1].length
             ax == Around(c, 1)
             y == c.allocations[i + 1].offset
             ys == c.allocations[i + 1].length
             ay == Around(c, i + 1)
             tail == c.tail
             new == d.tail
  <2>1. 1 \in 1 .. last /\ i + 1 \in 1 .. last /\ 1 < i + 1
    BY <1>1
  <2>2. ax + xs <= ay
    BY <2>1 DEF CircleOk, last
  <2>3. /\ x \in Nat /\ xs \in Nat /\ 1 <= xs /\ ax \in Nat
        /\ End(c, 1) = x + xs /\ End(c, 1) <= PayloadBytes
        /\ ax = IF x < tail THEN x + PayloadBytes ELSE x
    BY <2>1, AllocationFields DEF last
  <2>4. /\ y \in Nat /\ ys \in Nat /\ 1 <= ys /\ ay \in Nat
        /\ End(c, i + 1) = y + ys /\ End(c, i + 1) <= PayloadBytes
        /\ ay = IF y < tail THEN y + PayloadBytes ELSE y
        /\ ay + ys <= tail + PayloadBytes
    BY <2>1, AllocationFields DEF last
  <2>5. new = End(c, 1) % PayloadBytes
    OBVIOUS
  <2>6. /\ d.allocations[i].length = ys /\ End(d, i) = End(c, i + 1)
        /\ Around(d, i) = IF y < new THEN y + PayloadBytes ELSE y
    BY <1>2, <1>3 DEF Around
  <2>7. tail \in Nat /\ tail < PayloadBytes
    BY <1>1
  <2>8. shift = IF ax + xs >= PayloadBytes THEN PayloadBytes ELSE 0
    OBVIOUS
  <2> HIDE DEF x, xs, ax, y, ys, ay, tail, new, shift
  <2>9. x + xs \in 0 .. PayloadBytes /\ x + xs <= PayloadBytes /\ y + ys <= PayloadBytes
    BY <1>1, <2>3, <2>4
  <2>10. new = IF x + xs = PayloadBytes THEN 0 ELSE x + xs
    BY <1>1, <2>3, <2>5, <2>9, ModSmall
  <2>11. new \in Nat /\ shift \in Nat
    BY <1>1, <2>3, <2>8, <2>10
  <2>12. /\ (IF y < new THEN y + PayloadBytes ELSE y) = ay - shift
         /\ ay - shift + ys <= new + PayloadBytes
    BY <1>1, <2>2, <2>3, <2>4, <2>7, <2>8, <2>9, <2>10, <2>11, TailMoves
  <2> QED
    BY <2>4, <2>6, <2>12 DEF new, ay
<1>5. ASSUME NEW i \in 1 .. last - 1, NEW j \in 1 .. last - 1, i < j
      PROVE  Around(d, i) + d.allocations[i].length <= Around(d, j)
  <2> DEFINE x == Around(c, i + 1)
             y == Around(c, j + 1)
             xs == c.allocations[i + 1].length
  <2>1. i + 1 \in 1 .. last /\ j + 1 \in 1 .. last /\ i + 1 < j + 1
    BY <1>1, <1>5
  <2>2. x + xs <= y
    BY <2>1 DEF CircleOk, last
  <2>3. x \in Nat /\ xs \in Nat /\ y \in Nat
    BY <2>1, AllocationFields DEF last
  <2>4. Around(d, i) = x - shift /\ Around(d, j) = y - shift /\ d.allocations[i].length = xs
    BY <1>2, <1>4
  <2>5. shift \in Nat
    BY <1>1
  <2> HIDE DEF x, y, xs, shift
  <2>6. x - shift + xs <= y - shift
    BY <2>2, <2>3, <2>5
  <2> QED
    BY <2>4, <2>6
<1>6. d.allocations # <<>> /\ d.head = End(d, last - 1) % PayloadBytes
  <2>1. last - 1 \in 1 .. last - 1 /\ last - 1 + 1 = last
    BY <1>1
  <2>2. c.head = End(c, last) % PayloadBytes
    BY <1>1 DEF CircleOk, last
  <2>3. End(d, last - 1) = End(c, last)
    BY <1>3, <2>1
  <2>4. d.allocations # <<>>
    <3>1. Len(d.allocations) # 0
      BY <1>1, <1>2
    <3>2. Len(<<>>) = 0
      OBVIOUS
    <3> QED
      BY <3>1, <3>2
  <2> QED
    BY <2>2, <2>3, <2>4
<1> QED
  BY <1>2, <1>4, <1>5, <1>6 DEF CircleOk, last

\* The smallest index from which a sequence is kept.
LEMMA SecondIsFirst ==
    ASSUME NEW S \in SUBSET Nat, 2 \in S, \A i \in S : 2 <= i
    PROVE  Min(S) = 2
<1> DEFINE x == CHOOSE x \in S : \A y \in S : x =< y
<1>1. x \in S /\ \A y \in S : x =< y
  OBVIOUS
<1> HIDE DEF x
<1>2. x = 2
  BY <1>1
<1> QED
  BY <1>2 DEF Min, x

\* Releasing through the first allocation frees just that one.
LEMMA ReleaseFirst ==
    ASSUME NEW c, CircleOk(c), NEW n, c.allocations # <<>>, c.allocations[1].seq = n,
           2 <= Len(c.allocations) =>
               c.allocations[2].seq # n /\ ~IsNewer(n, c.allocations[2].seq)
    PROVE  LET d == ReleasedThrough(c, n)
           IN  /\ CircleOk(d) /\ Len(d.allocations) = Len(c.allocations) - 1
               /\ \A i \in 1 .. Len(d.allocations) : d.allocations[i] = c.allocations[i + 1]
<1> DEFINE s == c.allocations
           I == {i \in 1 .. Len(s) : s[i].seq # n /\ ~ IsNewer(n, s[i].seq)}
           stays == SelectInSeq(s, LAMBDA a : a.seq # n /\ ~ IsNewer(n, a.seq))
           last == s[stays - 1]
           d == ReleasedThrough(c, n)
<1>1. Len(s) \in Nat /\ 1 <= Len(s) /\ PayloadBytes \in Nat \ {0}
  BY CircleFields
<1>2. stays = IF I # {} THEN Min(I) ELSE 0
  BY DEF SelectInSeq
<1>3. 1 \notin I
  OBVIOUS
<1>4. CASE Len(s) = 1
  <2>1. I = {}
    BY <1>3, <1>4
  <2>2. stays = 0
    BY <1>2, <2>1
  <2>3. d = EmptyCircle
    BY <2>2 DEF ReleasedThrough
  <2>4. d.allocations = <<>> /\ Len(d.allocations) = 0
    BY <2>3 DEF EmptyCircle
  <2> QED
    BY <1>4, <2>3, <2>4, EmptyIsOk
<1>5. CASE 2 <= Len(s)
  <2>1. 2 \in I /\ I \in SUBSET Nat
    BY <1>1, <1>5
  <2>2. \A i \in I : 2 <= i
    BY <1>1, <1>3, <2>1
  <2> HIDE DEF I
  <2>3. Min(I) = 2
    BY <2>1, <2>2, SecondIsFirst
  <2>4. stays = 2
    BY <1>2, <2>1, <2>3
  <2> HIDE DEF stays
  <2> DEFINE x == (s[1].offset + s[1].length) % PayloadBytes
             r == SubSeq(s, 2, Len(s))
             e == [c EXCEPT !.allocations = r, !.tail = x]
             From(k, j) ==
                 IF k = 0 THEN EmptyCircle
                 ELSE IF k = 1 THEN c
                 ELSE [c EXCEPT !.allocations = SubSeq(@, k, Len(@)),
                                !.tail = (s[j].offset + s[j].length) % PayloadBytes]
  <2>5. stays - 1 = 1
    BY <2>4
  <2>6. d = e
    <3>1. d = From(stays, stays - 1)
      BY Zenon DEF ReleasedThrough, stays
    <3>2. 2 # 0 /\ 2 # 1
      OBVIOUS
    <3>3. From(2, 1) = e
      BY <3>2
    <3> HIDE DEF From, e, d
    <3> QED
      BY <2>4, <2>5, <3>1, <3>3
  <2>7. x \in 0 .. PayloadBytes - 1 /\ x = End(c, 1) % PayloadBytes
    <3>1. 1 \in 1 .. Len(s)
      BY <1>1
    <3>2. End(c, 1) \in Int
      BY <3>1, AllocationFields
    <3> QED
      BY <1>1, <3>2, ModRange DEF End
  <2>8. c \in Circles /\ r \in Seq(Allocation)
    BY <1>1 DEF CircleOk, Circles
  <2> HIDE DEF x, r
  <2>9. e \in Circles /\ e.head = c.head /\ e.tail = x /\ e.allocations = r
    BY <2>7, <2>8 DEF Circles
  <2> HIDE DEF e
  <2>10. /\ CircleOk(e) /\ Len(e.allocations) = Len(s) - 1
         /\ \A i \in 1 .. Len(e.allocations) : e.allocations[i] = s[i + 1]
    BY <1>5, <2>7, <2>9, CircleShrinks DEF r
  <2> QED
    BY <2>6, <2>10
<1>6. Len(s) = 1 \/ 2 <= Len(s)
  <2> DEFINE size == Len(s)
  <2>1. size \in Nat /\ 1 <= size
    BY <1>1
  <2> HIDE DEF size
  <2>2. size = 1 \/ 2 <= size
    BY <2>1
  <2> QED
    BY <2>2 DEF size
<1> QED
  BY <1>4, <1>5, <1>6

-----------------------------------------------------------------------------
\* The invariant.  A position of the ring names a command from its publication to
\* its acknowledgement.
At(g, p) == g.entries[p % RingSlots]
Positions(g) == g.head .. g.tail - 1

Headers == [n : Nat \ {0}, seq : Nat, offset : Nat, length : Nat \ {0}]
Rings == [entries : [0 .. RingSlots - 1 -> Headers \cup {NoHeader}], head : Nat, tail : Nat,
          produced : Int, consumed : Int, closed : BOOLEAN]
Contents == [0 .. PayloadBytes - 1 -> Nat]

HeaderOk(h) == h \in Headers /\ h.seq = Wire(h.n) /\ h.offset + h.length <= PayloadBytes
Intact(h, b) == \A i \in h.offset .. h.offset + h.length - 1 : b[i] = h.n

TransportShape ==
    /\ transport \in {"local", "native"}
    /\ ring \in Rings /\ ring.head <= ring.tail /\ ring.tail <= ring.head + RingSlots
    /\ bytes \in Contents
    /\ command \in Nat
    /\ received.n \in Nat /\ received.payload = {received.n}
    /\ received = [n |-> received.n, payload |-> received.payload]
    /\ \A p \in Positions(ring) : HeaderOk(At(ring, p))
    /\ pending # NoHeader => HeaderOk(pending)
    /\ taken # NoHeader => ring.head < ring.tail /\ taken = At(ring, ring.head)

\* Payloads stay what they were written as.
PayloadsKept ==
    /\ \A p \in Positions(ring) : Intact(At(ring, p), bytes)
    /\ pending # NoHeader => Intact(pending, bytes)

\* The number of the last command in the ring, or of the last one delivered.
Latest == IF ring.head = ring.tail THEN received.n ELSE At(ring, ring.tail - 1).n
OnWire(n) == IF n = 0 THEN NoSeq ELSE Wire(n)
Delivering == taken # NoHeader /\ received.n = taken.n

\* Commands lie in the ring in the order they were made, and what the two ends
\* remember is the command before.
NumbersFollow ==
    /\ \A p, q \in Positions(ring) : p < q => At(ring, p).n < At(ring, q).n
    /\ \A p \in Positions(ring) :
         p + 1 \in Positions(ring) => At(ring, p + 1).n <= At(ring, p).n + 2
    /\ ring.produced = OnWire(Latest)
    /\ Latest <= command
    /\ ~ ring.closed =>
         IF pending = NoHeader THEN command = Latest
         ELSE command = pending.n /\ Latest < command /\ command <= Latest + 2
    /\ ~ Delivering =>
         /\ ring.consumed = OnWire(received.n)
         /\ \A p \in Positions(ring) : received.n < At(ring, p).n
         /\ ring.head < ring.tail => At(ring, ring.head).n <= received.n + 2

\* Where payloads lie: native ones in the slot of their ring entry, local ones
\* where the arena has an allocation for each entry.
SlotOf(h, p) == h.offset = (p % RingSlots) * SlotBytes /\ h.length <= SlotBytes
NativePlaces ==
    transport = "native" =>
        /\ \A p \in Positions(ring) : SlotOf(At(ring, p), p)
        /\ pending # NoHeader => CanPush /\ SlotOf(pending, ring.tail)
EntryOf(h) == Entry(h.n, h.offset, h.length)
LocalPlaces ==
    transport = "local" =>
        /\ pending = NoHeader /\ taken = NoHeader
        /\ CircleOk(circle) /\ Len(circle.allocations) = ring.tail - ring.head
        /\ \A i \in 1 .. Len(circle.allocations) :
             circle.allocations[i] = EntryOf(At(ring, ring.head + i - 1))

TransportInv == TransportShape /\ PayloadsKept /\ NumbersFollow /\ NativePlaces /\ LocalPlaces

\* A header is not the absence of one.
LEMMA HeaderIsSome ==
    ASSUME NEW h, HeaderOk(h)
    PROVE  /\ h # NoHeader /\ h \in Headers /\ h.n \in Nat /\ 0 < h.n /\ h.seq \in Nat
           /\ h.offset \in Nat /\ h.length \in Nat /\ 1 <= h.length
           /\ h.seq = Wire(h.n) /\ h.offset + h.length <= PayloadBytes
<1>1. h.n \in Nat \ {0} /\ h.length \in Nat \ {0} /\ h.seq \in Nat /\ h.offset \in Nat
  BY DEF HeaderOk, Headers
<1>2. h # NoHeader
  BY <1>1 DEF NoHeader
<1> QED
  BY <1>1, <1>2 DEF HeaderOk

\* A header made for a command.
LEMMA HeaderMade ==
    ASSUME NEW n \in Nat \ {0}, NEW offset \in Nat, NEW length \in Nat, 1 <= length,
           offset + length <= PayloadBytes
    PROVE  LET h == Header(n, offset, length)
           IN  HeaderOk(h) /\ h.n = n /\ h.offset = offset /\ h.length = length /\ h.seq = Wire(n)
<1>1. Wire(n) \in Nat
  BY WireAdvances, n + 1 \in n + 1 .. n + 2
<1> QED
  BY <1>1 DEF Header, HeaderOk, Headers

\* A push leaves the entries that are queued, and adds one behind them.
LEMMA PushRing ==
    ASSUME NEW h \in Headers, ring \in Rings, ring.head <= ring.tail, CanPush
    PROVE  LET g == Published(h)
           IN  /\ g \in Rings /\ g.head = ring.head /\ g.tail = ring.tail + 1
               /\ g.produced = h.seq /\ g.consumed = ring.consumed /\ g.closed = ring.closed
               /\ g.head <= g.tail /\ g.tail <= g.head + RingSlots
               /\ At(g, ring.tail) = h
               /\ \A p \in Positions(ring) : At(g, p) = At(ring, p)
               /\ Positions(g) = Positions(ring) \cup {ring.tail}
<1> DEFINE g == Published(h)
           i == ring.tail % RingSlots
           f == [ring.entries EXCEPT ![i] = h]
<1>1. /\ RingSlots \in Nat \ {0} /\ ring.head \in Nat /\ ring.tail \in Nat
      /\ ring.tail - ring.head < RingSlots /\ h.seq \in Int
      /\ ring.entries \in [0 .. RingSlots - 1 -> Headers \cup {NoHeader}]
  BY TransportAssumption DEF Rings, CanPush, Headers
<1>2. i \in 0 .. RingSlots - 1
  <2>1. ring.tail \in Int
    BY <1>1
  <2> QED
    BY <1>1, <2>1, ModRange
<1>3. \A p \in Positions(ring) : p % RingSlots # i /\ p % RingSlots \in 0 .. RingSlots - 1
  <2> SUFFICES ASSUME NEW p \in Positions(ring)
               PROVE  p % RingSlots # i /\ p % RingSlots \in 0 .. RingSlots - 1
    OBVIOUS
  <2>1. p \in Nat /\ p \in Int /\ p < ring.tail /\ ring.tail - p < RingSlots
    BY <1>1 DEF Positions
  <2> QED
    BY <1>1, <2>1, SlotsDiffer, ModRange
<1> HIDE DEF i
<1>4. f \in [0 .. RingSlots - 1 -> Headers \cup {NoHeader}]
  BY <1>1, <1>2
<1>5. f[i] = h /\ \A p \in Positions(ring) : f[p % RingSlots] = ring.entries[p % RingSlots]
  BY <1>1, <1>2, <1>3
<1> HIDE DEF f
<1>6. /\ g \in Rings /\ g.head = ring.head /\ g.tail = ring.tail + 1 /\ g.entries = f
      /\ g.produced = h.seq /\ g.consumed = ring.consumed /\ g.closed = ring.closed
  <2> DEFINE x == ring.tail + 1
             y == h.seq
  <2>1. x \in Nat /\ y \in Int
    BY <1>1
  <2>2. g = [ring EXCEPT !.entries[i] = h, !.tail = x, !.produced = y]
    BY DEF Published, i
  <2> HIDE DEF g, x, y
  <2>3. /\ g \in Rings /\ g.head = ring.head /\ g.tail = x /\ g.produced = y
        /\ g.consumed = ring.consumed /\ g.closed = ring.closed
        /\ g.entries = [ring.entries EXCEPT ![i] = h]
    BY <1>2, <2>1, <2>2 DEF Rings
  <2> QED
    BY <2>3 DEF f, x, y
<1> HIDE DEF g
<1>7. /\ g.head <= g.tail /\ g.tail <= g.head + RingSlots
      /\ Positions(g) = Positions(ring) \cup {ring.tail}
  BY <1>1, <1>6 DEF Positions
<1>8. At(g, ring.tail) = h /\ \A p \in Positions(ring) : At(g, p) = At(ring, p)
  BY <1>5, <1>6 DEF At, i
<1> QED
  BY <1>6, <1>7, <1>8 DEF g

\* An acknowledgement takes the entry at the head away.
LEMMA PopRing ==
    ASSUME NEW h \in Headers, ring \in Rings, ring.head < ring.tail,
           ring.tail <= ring.head + RingSlots
    PROVE  LET g == Consumed(h)
           IN  /\ g \in Rings /\ g.head = ring.head + 1 /\ g.tail = ring.tail
               /\ g.produced = ring.produced /\ g.consumed = h.seq /\ g.closed = ring.closed
               /\ g.head <= g.tail /\ g.tail <= g.head + RingSlots
               /\ \A p \in Nat : At(g, p) = At(ring, p)
               /\ Positions(g) \subseteq Positions(ring) \ {ring.head}
<1> DEFINE g == Consumed(h)
<1>1. /\ RingSlots \in Nat \ {0} /\ ring.head \in Nat /\ ring.tail \in Nat /\ h.seq \in Int
  BY TransportAssumption DEF Rings, Headers
<1>2. /\ g \in Rings /\ g.head = ring.head + 1 /\ g.tail = ring.tail /\ g.entries = ring.entries
      /\ g.produced = ring.produced /\ g.consumed = h.seq /\ g.closed = ring.closed
  <2> DEFINE x == ring.head + 1
             y == h.seq
  <2>1. x \in Nat /\ y \in Int
    BY <1>1
  <2>2. g = [ring EXCEPT !.head = x, !.consumed = y]
    BY DEF Consumed
  <2> HIDE DEF g, x, y
  <2>3. /\ g \in Rings /\ g.head = x /\ g.tail = ring.tail /\ g.produced = ring.produced
        /\ g.consumed = y /\ g.closed = ring.closed /\ g.entries = ring.entries
    BY <2>1, <2>2 DEF Rings
  <2> QED
    BY <2>3 DEF x, y
<1> HIDE DEF g
<1>3. /\ g.head <= g.tail /\ g.tail <= g.head + RingSlots
      /\ Positions(g) \subseteq Positions(ring) \ {ring.head}
  BY <1>1, <1>2 DEF Positions
<1>4. \A p \in Nat : At(g, p) = At(ring, p)
  BY <1>2 DEF At
<1> QED
  BY <1>2, <1>3, <1>4 DEF g

\* Writing a payload: it is what was written, and leaves those that are apart.
LEMMA WritePayload ==
    ASSUME bytes \in Contents, NEW offset \in Nat, NEW length \in Nat, NEW n \in Nat,
           offset + length <= PayloadBytes
    PROVE  LET b == PayloadWritten(offset, length, n)
           IN  /\ b \in Contents
               /\ \A i \in offset .. offset + length - 1 : b[i] = n
               /\ \A h : HeaderOk(h) /\ Intact(h, bytes)
                          /\ (h.offset + h.length <= offset \/ offset + length <= h.offset)
                              => Intact(h, b)
<1> DEFINE b == PayloadWritten(offset, length, n)
<1>1. /\ PayloadBytes \in Nat \ {0} /\ DOMAIN bytes = 0 .. PayloadBytes - 1
      /\ \A i \in 0 .. PayloadBytes - 1 : bytes[i] \in Nat
  BY TransportAssumption DEF Contents
<1>2. b = [i \in 0 .. PayloadBytes - 1 |-> IF offset <= i /\ i < offset + length THEN n ELSE bytes[i]]
  BY <1>1 DEF PayloadWritten
<1> HIDE DEF b
<1>3. b \in Contents
  BY <1>1, <1>2 DEF Contents
<1>4. \A i \in offset .. offset + length - 1 : b[i] = n
  BY <1>1, <1>2
<1>5. ASSUME NEW h, HeaderOk(h), Intact(h, bytes),
             h.offset + h.length <= offset \/ offset + length <= h.offset
      PROVE  Intact(h, b)
  <2> DEFINE x == h.offset
             y == h.length
  <2>1. x \in Nat /\ y \in Nat /\ x + y <= PayloadBytes
    BY <1>5, HeaderIsSome
  <2>2. x + y <= offset \/ offset + length <= x
    BY <1>5
  <2>3. \A i \in x .. x + y - 1 : bytes[i] = h.n
    BY <1>5 DEF Intact
  <2> HIDE DEF x, y
  <2>4. ASSUME NEW i \in x .. x + y - 1
        PROVE  b[i] = h.n
    <3>1. i \in 0 .. PayloadBytes - 1 /\ ~(offset <= i /\ i < offset + length)
      BY <1>1, <2>1, <2>2
    <3>2. b[i] = bytes[i]
      BY <1>2, <3>1
    <3> QED
      BY <2>3, <3>2
  <2> QED
    BY <2>4 DEF Intact, x, y
<1> QED
  BY <1>3, <1>4, <1>5 DEF b

\* What is read of an intact payload.
LEMMA PayloadRead ==
    ASSUME NEW h, HeaderOk(h), Intact(h, bytes)
    PROVE  Payload(h) = {h.n}
<1>1. h.offset \in Nat /\ h.length \in Nat /\ 1 <= h.length
  BY HeaderIsSome
<1>2. h.offset \in h.offset .. h.offset + h.length - 1
  BY <1>1
<1> QED
  BY <1>2 DEF Payload, Intact

\* Everything queued is numbered up to the last command, and what was delivered too.
LEMMA LatestIsLast ==
    ASSUME TransportShape, NumbersFollow
    PROVE  /\ Latest \in Nat /\ received.n <= Latest
           /\ \A p \in Positions(ring) : At(ring, p).n \in Nat \ {0} /\ At(ring, p).n <= Latest
           /\ ring.head \in Nat /\ ring.tail \in Nat
<1>1. ring.head \in Nat /\ ring.tail \in Nat /\ received.n \in Nat /\ ring.head <= ring.tail
  BY DEF TransportShape, Rings
<1>2. \A p \in Positions(ring) : At(ring, p).n \in Nat \ {0}
  BY HeaderIsSome DEF TransportShape
<1>3. CASE ring.head = ring.tail
  <2>1. Positions(ring) = {} /\ Latest = received.n
    BY <1>1, <1>3 DEF Positions, Latest
  <2> QED
    BY <1>1, <2>1
<1>4. CASE ring.head < ring.tail
  <2> DEFINE top == ring.tail - 1
  <2>1. top \in Positions(ring) /\ ring.head \in Positions(ring) /\ Latest = At(ring, top).n
    BY <1>1, <1>4 DEF Positions, Latest
  <2>2. \A p \in Positions(ring) : p = top \/ p < top
    BY <1>1 DEF Positions
  <2> HIDE DEF top
  <2>3. \A p \in Positions(ring) : At(ring, p).n < Latest \/ At(ring, p).n = Latest
    BY <2>1, <2>2 DEF NumbersFollow
  <2>4. received.n = At(ring, ring.head).n \/ received.n < At(ring, ring.head).n
    BY <2>1 DEF NumbersFollow, Delivering, TransportShape
  <2> QED
    BY <1>1, <1>2, <2>1, <2>3, <2>4
<1> QED
  BY <1>1, <1>3, <1>4

\* The ring accepts the next command.
LEMMA NextIsAccepted ==
    ASSUME TransportShape, NumbersFollow, CanPush, ~ ring.closed, NEW h, HeaderOk(h),
           Latest < h.n, h.n <= Latest + 2
    PROVE  MayPublish(h)
<1>1. Latest \in Nat /\ h.n \in Nat /\ h.seq = Wire(h.n)
  BY LatestIsLast, HeaderIsSome
<1>2. ring.produced # NoSeq => ring.produced = Wire(Latest)
  BY DEF NumbersFollow, OnWire
<1> DEFINE l == Latest
           n == h.n
<1> HIDE DEF l, n
<1>3. n \in l + 1 .. l + 2
  BY <1>1 DEF l, n
<1>4. IsNewer(Wire(n), Wire(l))
  BY <1>1, <1>3, WireAdvances DEF l
<1> QED
  BY <1>1, <1>2, <1>4 DEF MayPublish, l, n

\* Pushing the next command, and acknowledging the first, keep the numbers in order.
LEMMA NumbersPush ==
    ASSUME TransportShape, NumbersFollow, CanPush, NEW h, HeaderOk(h), Latest < h.n, h.n <= Latest + 2,
           ring' = Published(h), UNCHANGED <<received, taken>>, pending' = NoHeader, command' = h.n
    PROVE  NumbersFollow'
<1> DEFINE last == Latest
           tail == ring.tail
           head == ring.head
<1>1. /\ ring'.head = head /\ ring'.tail = tail + 1
      /\ ring'.produced = h.seq /\ ring'.consumed = ring.consumed
      /\ At(ring', tail) = h
      /\ \A p \in Positions(ring) : At(ring', p) = At(ring, p)
      /\ Positions(ring') = Positions(ring) \cup {tail}
  BY PushRing, HeaderIsSome DEF TransportShape
<1>2. /\ last \in Nat /\ received.n <= last /\ received.n \in Nat
      /\ \A p \in Positions(ring) : At(ring, p).n \in Nat \ {0} /\ At(ring, p).n <= last
      /\ head \in Nat /\ tail \in Nat /\ head <= tail
  BY LatestIsLast DEF TransportShape
<1>3. h.n \in Nat /\ 0 < h.n /\ h.seq = Wire(h.n)
  BY HeaderIsSome
<1>4. Latest' = h.n
  BY <1>1, <1>2 DEF Latest
<1> HIDE DEF last
<1>5. last < h.n /\ h.n <= last + 2
  BY DEF last
<1>6. \A p, q \in Positions(ring') : p < q => At(ring', p).n < At(ring', q).n
  <2> SUFFICES ASSUME NEW p \in Positions(ring'), NEW q \in Positions(ring'), p < q
               PROVE  At(ring', p).n < At(ring', q).n
    OBVIOUS
  <2>1. p \in Positions(ring)
    BY <1>1, <1>2 DEF Positions
  <2>2. CASE q \in Positions(ring)
    BY <1>1, <2>1, <2>2 DEF NumbersFollow
  <2>3. CASE q = tail
    BY <1>1, <1>2, <1>3, <1>5, <2>1, <2>3
  <2> QED
    BY <1>1, <2>2, <2>3
<1>7. \A p \in Positions(ring') :
          p + 1 \in Positions(ring') => At(ring', p + 1).n <= At(ring', p).n + 2
  <2> SUFFICES ASSUME NEW p \in Positions(ring'), p + 1 \in Positions(ring')
               PROVE  At(ring', p + 1).n <= At(ring', p).n + 2
    OBVIOUS
  <2>1. p \in Positions(ring)
    BY <1>1, <1>2 DEF Positions
  <2>2. CASE p + 1 \in Positions(ring)
    BY <1>1, <2>1, <2>2 DEF NumbersFollow
  <2>3. CASE p + 1 = tail
    <3>1. p = tail - 1 /\ head # tail
      BY <1>2, <2>1, <2>3 DEF Positions
    <3>2. At(ring, p).n = last
      BY <3>1 DEF last, Latest
    <3> QED
      BY <1>1, <1>5, <2>1, <2>3, <3>2
  <2> QED
    BY <1>1, <2>2, <2>3
<1>8. ring'.produced = OnWire(Latest')
  BY <1>1, <1>3, <1>4 DEF OnWire
<1>9. ~ Delivering' => ~ Delivering
  BY DEF Delivering
<1>10. ASSUME ~ Delivering
       PROVE  /\ ring'.consumed = OnWire(received'.n)
              /\ \A p \in Positions(ring') : received'.n < At(ring', p).n
              /\ ring'.head < ring'.tail => At(ring', ring'.head).n <= received'.n + 2
  <2>1. /\ ring.consumed = OnWire(received.n)
        /\ \A p \in Positions(ring) : received.n < At(ring, p).n
        /\ head < tail => At(ring, head).n <= received.n + 2
    BY <1>10 DEF NumbersFollow
  <2>2. \A p \in Positions(ring') : received.n < At(ring', p).n
    BY <1>1, <1>2, <1>3, <1>5, <2>1
  <2>3. At(ring', head).n <= received.n + 2
    <3>1. CASE head = tail
      <4>1. last = received.n
        BY <3>1 DEF last, Latest
      <4> QED
        BY <1>1, <1>5, <3>1, <4>1
    <3>2. CASE head < tail
      <4>1. head \in Positions(ring)
        BY <1>2, <3>2 DEF Positions
      <4> QED
        BY <1>1, <2>1, <3>2, <4>1
    <3> QED
      BY <1>2, <3>1, <3>2
  <2> QED
    BY <1>1, <2>1, <2>2, <2>3
<1> QED
  BY <1>3, <1>4, <1>6, <1>7, <1>8, <1>9, <1>10 DEF NumbersFollow

\* CommandRing.consume: the numbers still follow each other without the entry at the head.
LEMMA NumbersPop ==
    ASSUME TransportShape, NumbersFollow, ring.head < ring.tail, ring' = Consumed(At(ring, ring.head)),
           received'.n = At(ring, ring.head).n, taken' = NoHeader, UNCHANGED <<command, pending>>
    PROVE  NumbersFollow'
<1> DEFINE tail == ring.tail
           head == ring.head
           h == At(ring, head)
<1>1. /\ head \in Nat /\ tail \in Nat /\ head < tail /\ head \in Positions(ring)
      /\ tail <= head + RingSlots /\ ring \in Rings /\ RingSlots \in Nat
  BY TransportAssumption DEF TransportShape, Rings, Positions
<1>2. HeaderOk(h)
  BY <1>1 DEF TransportShape
<1>3. h \in Headers /\ h.n \in Nat /\ 0 < h.n /\ h.seq = Wire(h.n)
  BY <1>2, HeaderIsSome
<1> HIDE DEF h
<1>4. ring' = Consumed(h) /\ received'.n = h.n
  BY DEF h
<1>5. /\ ring'.head = head + 1 /\ ring'.tail = tail
      /\ ring'.produced = ring.produced /\ ring'.consumed = h.seq /\ ring'.closed = ring.closed
      /\ \A p \in Nat : At(ring', p) = At(ring, p)
      /\ Positions(ring') \subseteq Positions(ring) \ {head}
  BY <1>1, <1>3, <1>4, PopRing
<1>6. /\ Positions(ring) \subseteq Nat
      /\ \A p \in Positions(ring') : p \in Nat /\ p \in Positions(ring) /\ head < p
  BY <1>1, <1>5 DEF Positions
<1>7. Latest' = Latest
  <2>1. CASE head + 1 = tail
    <3>1. Latest' = h.n
      BY <1>4, <1>5, <2>1 DEF Latest
    <3>2. Latest = At(ring, tail - 1).n /\ tail - 1 = head
      BY <1>1, <2>1 DEF Latest
    <3> QED
      BY <3>1, <3>2 DEF h
  <2>2. CASE head + 1 # tail
    <3>1. tail - 1 \in Nat
      BY <1>1
    <3> QED
      BY <1>1, <1>5, <2>2, <3>1 DEF Latest
  <2> QED
    BY <2>1, <2>2
<1>8. \A p, q \in Positions(ring') : p < q => At(ring', p).n < At(ring', q).n
  BY <1>5, <1>6 DEF NumbersFollow
<1>9. \A p \in Positions(ring') :
          p + 1 \in Positions(ring') => At(ring', p + 1).n <= At(ring', p).n + 2
  BY <1>5, <1>6 DEF NumbersFollow
<1>10. \A p \in Positions(ring') : received'.n < At(ring', p).n
  BY <1>1, <1>4, <1>5, <1>6 DEF NumbersFollow, h
<1>11. ring'.head < ring'.tail => At(ring', ring'.head).n <= received'.n + 2
  <2> SUFFICES ASSUME head + 1 < tail
               PROVE  At(ring', head + 1).n <= received'.n + 2
    BY <1>5
  <2>1. head + 1 \in Positions(ring) /\ head + 1 \in Nat
    BY <1>1 DEF Positions
  <2> QED
    BY <1>1, <1>4, <1>5, <2>1 DEF NumbersFollow, h
<1>12. ring'.consumed = OnWire(received'.n)
  BY <1>3, <1>4, <1>5 DEF OnWire
<1>13. /\ ring'.produced = OnWire(Latest') /\ Latest' <= command'
       /\ ~ ring'.closed =>
             IF pending' = NoHeader THEN command' = Latest'
             ELSE command' = pending'.n /\ Latest' < command' /\ command' <= Latest' + 2
  BY <1>5, <1>7 DEF NumbersFollow
<1> QED
  BY <1>8, <1>9, <1>10, <1>11, <1>12, <1>13 DEF NumbersFollow

-----------------------------------------------------------------------------
\* A header that is placed beside the queue disturbs nothing in it.
LEMMA SlotsHold ==
    ASSUME NEW p \in Nat, NEW q \in Nat, p % RingSlots # q % RingSlots, NEW h, HeaderOk(h), SlotOf(h, p),
           NEW length \in Nat, length <= SlotBytes
    PROVE  LET offset == (q % RingSlots) * SlotBytes
           IN  h.offset + h.length <= offset \/ offset + length <= h.offset
<1> DEFINE s == p % RingSlots
           t == q % RingSlots
           size == h.length
           place == h.offset
<1>1. /\ s \in Nat /\ t \in Nat /\ SlotBytes \in Nat
      /\ s * SlotBytes \in Nat /\ t * SlotBytes \in Nat
  <2>1. s \in 0 .. RingSlots - 1 /\ SlotBytes \in Nat /\ s * SlotBytes \in Nat
    BY SlotInside
  <2>2. t \in 0 .. RingSlots - 1 /\ t * SlotBytes \in Nat
    BY SlotInside
  <2> HIDE DEF s, t
  <2> QED
    BY <2>1, <2>2, TransportAssumption
<1>2. size \in Nat /\ size <= SlotBytes /\ place = s * SlotBytes
  BY HeaderIsSome DEF SlotOf
<1>3. s # t
  OBVIOUS
<1> HIDE DEF s, t, size, place
<1>4. s < t => s * SlotBytes + SlotBytes <= t * SlotBytes
  BY <1>1, SlotsApart
<1>5. t < s => t * SlotBytes + SlotBytes <= s * SlotBytes
  BY <1>1, SlotsApart
<1> DEFINE x == s * SlotBytes
           y == t * SlotBytes
<1> HIDE DEF x, y
<1>6. s < t \/ t < s
  BY <1>1, <1>3
<1>7. s < t => x + SlotBytes <= y
  BY <1>4 DEF x, y
<1>8. t < s => y + SlotBytes <= x
  BY <1>5 DEF x, y
<1>9. x \in Nat /\ y \in Nat /\ place = x
  BY <1>1, <1>2 DEF x, y
<1>10. place + size <= y \/ y + length <= place
  BY <1>1, <1>2, <1>6, <1>7, <1>8, <1>9
<1> QED
  BY <1>10 DEF y, t, size, place

\* A dispatch through the arena: the entry that is added shares no byte with those
\* that are queued; where it is refused nothing of it stays.
LEMMA DispatchLocalStep ==
    ASSUME TransportInv, NEW n \in NewCommands, NEW length \in PayloadSizes, DispatchLocal(n, length)
    PROVE  TransportInv'
<1> DEFINE room == Reserve(circle, length)
           o == room.offset
           d == Allocated(circle, n, room, length)
           h == Header(n, o, length)
           size == Len(circle.allocations)
           head == ring.head
           tail == ring.tail
<1>1. /\ length \in 1 .. PayloadBytes /\ length \in Nat /\ 1 <= length
      /\ n \in Nat \ {0} /\ n \in Nat /\ command < n /\ n <= command + 2 /\ command \in Nat
  BY TransportAssumption DEF NewCommands, TransportInv, TransportShape
<1>2. /\ transport = "local" /\ CanPush /\ room # NoRoom /\ command' = n
      /\ bytes' = PayloadWritten(o, length, n)
      /\ UNCHANGED <<transport, pending, taken, received>>
  BY DEF DispatchLocal
<1>3. /\ pending = NoHeader /\ taken = NoHeader /\ CircleOk(circle) /\ size = tail - head
      /\ \A i \in 1 .. size : circle.allocations[i] = EntryOf(At(ring, head + i - 1))
  BY <1>2 DEF TransportInv, LocalPlaces
<1>4. /\ ring \in Rings /\ head \in Nat /\ tail \in Nat /\ head <= tail /\ bytes \in Contents
      /\ PayloadBytes \in Nat
  BY TransportAssumption DEF TransportInv, TransportShape, Rings
<1>5. Wire(n) \in Nat
  BY <1>1, WireAdvances, n + 1 \in n + 1 .. n + 2
<1>6. /\ CircleOk(d) /\ d.tail = circle.tail
      /\ d.allocations = Append(circle.allocations, Entry(n, o, length))
      /\ o \in Nat /\ o + length <= PayloadBytes /\ Entry(n, o, length) \in Allocation
  BY <1>1, <1>2, <1>3, <1>5, ReserveFits
<1>7. /\ \/ MayPublish(h) /\ ring' = Published(h) /\ circle' = d
         \/ ~ MayPublish(h) /\ circle' = Discarded(d) /\ ring' = ring
  BY DEF DispatchLocal
<1> HIDE DEF room, o, d, h, size
<1>8. HeaderOk(h) /\ h.n = n /\ h.offset = o /\ h.length = length /\ h.seq = Wire(n) /\ h \in Headers
  <2>1. HeaderOk(h) /\ h.n = n /\ h.offset = o /\ h.length = length /\ h.seq = Wire(n)
    BY <1>1, <1>6, HeaderMade DEF h
  <2> QED
    BY <2>1, HeaderIsSome
<1>9. /\ Len(d.allocations) = size + 1 /\ size \in Nat
      /\ \A i \in 1 .. size : d.allocations[i] = circle.allocations[i]
      /\ d.allocations[size + 1] = Entry(n, o, length)
  BY <1>3, <1>6, OneMore DEF CircleOk, Circles, size
<1>10. \A p \in Positions(ring) :
           /\ p - head + 1 \in 1 .. size
           /\ circle.allocations[p - head + 1] = EntryOf(At(ring, p))
  <2> SUFFICES ASSUME NEW p \in Positions(ring)
               PROVE  /\ p - head + 1 \in 1 .. size
                      /\ circle.allocations[p - head + 1] = EntryOf(At(ring, p))
    OBVIOUS
  <2>1. p - head + 1 \in 1 .. size /\ head + (p - head + 1) - 1 = p
    BY <1>3, <1>4 DEF Positions
  <2> QED
    BY <1>3, <2>1
<1>11. /\ bytes' \in Contents
       /\ \A i \in o .. o + length - 1 : bytes'[i] = n
       /\ \A g : HeaderOk(g) /\ Intact(g, bytes)
                  /\ (g.offset + g.length <= o \/ o + length <= g.offset)
                      => Intact(g, bytes')
  BY <1>1, <1>2, <1>4, <1>6, WritePayload
<1>12. \A p \in Positions(ring) : Intact(At(ring, p), bytes')
  <2> SUFFICES ASSUME NEW p \in Positions(ring)
               PROVE  Intact(At(ring, p), bytes')
    OBVIOUS
  <2> DEFINE g == At(ring, p)
             i == p - head + 1
  <2>1. HeaderOk(g) /\ Intact(g, bytes)
    BY DEF TransportInv, TransportShape, PayloadsKept
  <2>2. i \in 1 .. size /\ d.allocations[i] = EntryOf(g)
    BY <1>9, <1>10
  <2> HIDE DEF g, i
  <2>3. i \in 1 .. size + 1 /\ size + 1 \in 1 .. size + 1 /\ i < size + 1
    BY <1>9, <2>2
  <2>4. End(d, i) <= d.allocations[size + 1].offset \/ End(d, size + 1) <= d.allocations[i].offset
    BY <1>6, <1>9, <2>3, AllocationsApart
  <2>5. g.offset + g.length <= o \/ o + length <= g.offset
    BY <1>9, <2>2, <2>4 DEF End, EntryOf, Entry
  <2> QED
    BY <1>11, <2>1, <2>5 DEF g
<1>13. Latest \in Nat /\ Latest <= command
  BY LatestIsLast DEF TransportInv, NumbersFollow
<1>14. ~ ring.closed => Latest < h.n /\ h.n <= Latest + 2
  BY <1>1, <1>3, <1>8 DEF TransportInv, NumbersFollow
<1>15. received'.n \in Nat /\ received'.payload = {received'.n}
       /\ received' = [n |-> received'.n, payload |-> received'.payload]
  BY <1>2 DEF TransportInv, TransportShape
<1>16. CASE MayPublish(h) /\ ring' = Published(h) /\ circle' = d
  <2>1. ~ ring.closed
    BY <1>16 DEF MayPublish
  <2>2. /\ ring' \in Rings /\ ring'.head = head /\ ring'.tail = tail + 1
        /\ ring'.head <= ring'.tail /\ ring'.tail <= ring'.head + RingSlots
        /\ At(ring', tail) = h
        /\ \A p \in Positions(ring) : At(ring', p) = At(ring, p)
        /\ Positions(ring') = Positions(ring) \cup {tail}
    BY <1>2, <1>4, <1>8, <1>16, PushRing
  <2>3. \A p \in Positions(ring') : HeaderOk(At(ring', p)) /\ Intact(At(ring', p), bytes')
    <3>1. Intact(h, bytes')
      BY <1>8, <1>11 DEF Intact
    <3> QED
      BY <1>8, <1>12, <2>2, <3>1 DEF TransportInv, TransportShape
  <2>4. TransportShape' /\ PayloadsKept'
    BY <1>1, <1>2, <1>3, <1>11, <1>15, <2>2, <2>3 DEF TransportInv, TransportShape, PayloadsKept
  <2>5. NumbersFollow'
    BY <1>2, <1>3, <1>8, <1>14, <1>16, <2>1, NumbersPush DEF TransportInv
  <2>6. NativePlaces'
    BY <1>2 DEF NativePlaces
  <2>7. ASSUME NEW i \in 1 .. size + 1
        PROVE  d.allocations[i] = EntryOf(At(ring', head + i - 1))
    <3>1. CASE i \in 1 .. size
      <4>1. head + i - 1 \in Positions(ring)
        BY <1>3, <1>4, <3>1 DEF Positions
      <4> QED
        BY <1>3, <1>9, <2>2, <3>1, <4>1
    <3>2. CASE i = size + 1
      <4>1. head + i - 1 = tail
        BY <1>3, <1>4, <3>2
      <4> QED
        BY <1>8, <1>9, <2>2, <3>2, <4>1 DEF EntryOf
    <3> QED
      BY <1>9, <3>1, <3>2
  <2>8. LocalPlaces'
    <3>1. Len(d.allocations) = ring'.tail - ring'.head
      BY <1>3, <1>4, <1>9, <2>2
    <3> QED
      BY <1>2, <1>3, <1>6, <1>9, <1>16, <2>2, <2>7, <3>1 DEF LocalPlaces
  <2> QED
    BY <2>4, <2>5, <2>6, <2>8 DEF TransportInv
<1>17. CASE ~ MayPublish(h) /\ circle' = Discarded(d) /\ ring' = ring
  <2>1. ring.closed
    BY <1>2, <1>8, <1>14, <1>17, NextIsAccepted DEF TransportInv
  <2>2. circle' = circle
    BY <1>3, <1>6, <1>17, DiscardUndoes DEF CircleOk
  <2>3. TransportShape' /\ PayloadsKept'
    BY <1>1, <1>2, <1>3, <1>11, <1>12, <1>17 DEF TransportInv, TransportShape, PayloadsKept
  <2>4. Latest' = Latest /\ Delivering' = Delivering
    BY <1>2, <1>17 DEF Latest, Delivering
  <2>5. NumbersFollow'
    BY <1>1, <1>2, <1>13, <1>17, <2>1, <2>4 DEF TransportInv, NumbersFollow
  <2>6. NativePlaces' /\ LocalPlaces'
    BY <1>2, <1>17, <2>2 DEF TransportInv, NativePlaces, LocalPlaces
  <2> QED
    BY <2>3, <2>5, <2>6 DEF TransportInv
<1> QED
  BY <1>7, <1>16, <1>17

\* Delivery through the arena frees the entry it delivers, and no other.
LEMMA ConsumeLocalStep ==
    ASSUME TransportInv, ConsumeLocal
    PROVE  TransportInv'
<1> DEFINE head == ring.head
           tail == ring.tail
           h == At(ring, head)
           d == ReleasedThrough(circle, h.seq)
           size == Len(circle.allocations)
<1>1. /\ transport = "local" /\ head < tail /\ ring' = Consumed(h) /\ received' = Delivered(h)
      /\ circle' = d /\ UNCHANGED <<transport, bytes, command, pending, taken>>
  BY DEF ConsumeLocal, At
<1>2. /\ pending = NoHeader /\ taken = NoHeader /\ CircleOk(circle) /\ size = tail - head
      /\ \A i \in 1 .. size : circle.allocations[i] = EntryOf(At(ring, head + i - 1))
  BY <1>1 DEF TransportInv, LocalPlaces
<1>3. /\ ring \in Rings /\ head \in Nat /\ tail \in Nat /\ tail <= head + RingSlots
      /\ head \in Positions(ring)
  BY <1>1 DEF TransportInv, TransportShape, Rings, Positions
<1>4. HeaderOk(h) /\ Intact(h, bytes)
  BY <1>3 DEF TransportInv, TransportShape, PayloadsKept
<1>5. /\ ring' \in Rings /\ ring'.head = head + 1 /\ ring'.tail = tail
      /\ ring'.head <= ring'.tail /\ ring'.tail <= ring'.head + RingSlots
      /\ \A p \in Nat : At(ring', p) = At(ring, p)
      /\ Positions(ring') \subseteq Positions(ring) \ {head}
  BY <1>1, <1>3, <1>4, HeaderIsSome, PopRing
<1>6. received'.n = h.n /\ received' = [n |-> h.n, payload |-> {h.n}] /\ h.n \in Nat
  BY <1>1, <1>4, PayloadRead, HeaderIsSome DEF Delivered
<1>7. Positions(ring) \subseteq Nat
  BY <1>3 DEF Positions
<1> HIDE DEF h, size, d
<1>8. \A p \in Positions(ring') :
          /\ p \in Positions(ring) /\ At(ring', p) = At(ring, p)
          /\ HeaderOk(At(ring', p)) /\ Intact(At(ring', p), bytes)
  BY <1>5, <1>7 DEF TransportInv, TransportShape, PayloadsKept
<1>9. TransportShape'
  BY <1>1, <1>2, <1>5, <1>6, <1>8 DEF TransportInv, TransportShape
<1>10. PayloadsKept'
  BY <1>1, <1>2, <1>8 DEF PayloadsKept
<1>11. NumbersFollow'
  BY <1>1, <1>2, <1>6, NumbersPop DEF TransportInv, h
<1>12. circle.allocations # <<>> /\ circle.allocations[1].seq = h.seq
  <2>1. 1 \in 1 .. size /\ head + 1 - 1 = head
    BY <1>1, <1>2, <1>3
  <2>2. circle.allocations[1] = EntryOf(h)
    BY <1>2, <2>1 DEF h
  <2>3. circle.allocations # <<>>
    BY <1>2, <2>1, CircleFields DEF size
  <2> QED
    BY <1>4, <2>2, <2>3, HeaderIsSome DEF EntryOf, Entry
<1>13. ASSUME 2 <= size
       PROVE  circle.allocations[2].seq # h.seq /\ ~ IsNewer(h.seq, circle.allocations[2].seq)
  <2> DEFINE g == At(ring, head + 1)
             n == h.n
             m == g.n
  <2>1. 2 \in 1 .. size /\ head + 2 - 1 = head + 1 /\ head + 1 \in Positions(ring)
    BY <1>2, <1>3, <1>13 DEF Positions
  <2>2. circle.allocations[2] = EntryOf(g)
    BY <1>2, <2>1
  <2>3. HeaderOk(g)
    BY <2>1 DEF TransportInv, TransportShape
  <2>4. n < m /\ m <= n + 2
    <3>1. head < head + 1
      BY <1>3
    <3> QED
      BY <1>3, <2>1, <3>1 DEF TransportInv, NumbersFollow, h
  <2>5. n \in Nat /\ m \in Nat /\ h.seq = Wire(n)
    BY <1>4, <2>3, HeaderIsSome
  <2>6. circle.allocations[2].seq = Wire(m)
    BY <2>2 DEF EntryOf, Entry
  <2> HIDE DEF g, n, m
  <2>7. m \in n + 1 .. n + 2
    BY <2>4, <2>5
  <2> QED
    BY <2>5, <2>6, <2>7, WireAdvances
<1>14. /\ CircleOk(d) /\ Len(d.allocations) = size - 1
       /\ \A i \in 1 .. Len(d.allocations) : d.allocations[i] = circle.allocations[i + 1]
  BY <1>2, <1>12, <1>13, ReleaseFirst DEF d, size
<1>15. \A i \in 1 .. Len(d.allocations) : d.allocations[i] = EntryOf(At(ring', ring'.head + i - 1))
  <2> SUFFICES ASSUME NEW i \in 1 .. Len(d.allocations)
               PROVE  d.allocations[i] = EntryOf(At(ring', ring'.head + i - 1))
    OBVIOUS
  <2>1. /\ i + 1 \in 1 .. size /\ head + (i + 1) - 1 = head + 1 + i - 1 /\ head + 1 + i - 1 \in Nat
    BY <1>1, <1>2, <1>3, <1>14
  <2>2. circle.allocations[i + 1] = EntryOf(At(ring, head + 1 + i - 1))
    BY <1>2, <2>1
  <2> QED
    BY <1>5, <1>14, <2>1, <2>2
<1>16. Len(d.allocations) = ring'.tail - ring'.head
  BY <1>1, <1>2, <1>3, <1>5, <1>14
<1>17. LocalPlaces' /\ NativePlaces'
  BY <1>1, <1>2, <1>14, <1>15, <1>16 DEF LocalPlaces, NativePlaces
<1> QED
  BY <1>9, <1>10, <1>11, <1>17 DEF TransportInv

\* The payload of the next native command goes to a slot nothing queued uses.
LEMMA AllocateNativeStep ==
    ASSUME TransportInv, NEW n \in NewCommands, NEW length \in PayloadSizes, AllocateNative(n, length)
    PROVE  TransportInv'
<1> DEFINE head == ring.head
           tail == ring.tail
           o == (tail % RingSlots) * SlotBytes
           h == Header(n, o, length)
<1>1. /\ length \in Nat /\ 1 <= length
      /\ n \in Nat \ {0} /\ n \in Nat /\ command < n /\ n <= command + 2 /\ command \in Nat
  BY TransportAssumption DEF NewCommands, TransportInv, TransportShape
<1>2. /\ transport = "native" /\ pending = NoHeader /\ length <= SlotBytes /\ CanPush /\ command' = n
      /\ bytes' = PayloadWritten(o, length, n) /\ pending' = h
      /\ UNCHANGED <<transport, ring, circle, taken, received>>
  BY DEF AllocateNative
<1>3. /\ ring \in Rings /\ head \in Nat /\ tail \in Nat /\ bytes \in Contents
      /\ RingSlots \in Nat \ {0} /\ PayloadBytes \in Nat
      /\ \A p \in Positions(ring) : p \in Nat /\ p < tail /\ tail - p < RingSlots
  <2>1. ring \in Rings /\ head \in Nat /\ tail \in Nat /\ bytes \in Contents
    BY DEF TransportInv, TransportShape, Rings
  <2>2. tail - head < RingSlots /\ RingSlots \in Nat \ {0} /\ PayloadBytes \in Nat
    BY <1>2, TransportAssumption DEF CanPush
  <2>3. Positions(ring) = head .. tail - 1
    BY DEF Positions
  <2> HIDE DEF head, tail
  <2>4. \A p \in head .. tail - 1 : p \in Nat /\ p < tail /\ tail - p < RingSlots
    BY <2>1, <2>2
  <2> QED
    BY <2>1, <2>2, <2>3, <2>4
<1>4. o \in Nat /\ SlotBytes \in Nat /\ o + SlotBytes <= PayloadBytes
  BY <1>3, SlotInside
<1> HIDE DEF o, h
<1>5. o + length <= PayloadBytes
  BY <1>1, <1>2, <1>3, <1>4
<1>6. HeaderOk(h) /\ h.n = n /\ h.offset = o /\ h.length = length /\ h.seq = Wire(n)
  BY <1>1, <1>4, <1>5, HeaderMade DEF h
<1>7. h # NoHeader
  BY <1>6, HeaderIsSome
<1>8. /\ bytes' \in Contents
      /\ \A i \in o .. o + length - 1 : bytes'[i] = n
      /\ \A g : HeaderOk(g) /\ Intact(g, bytes)
                 /\ (g.offset + g.length <= o \/ o + length <= g.offset)
                     => Intact(g, bytes')
  BY <1>1, <1>2, <1>3, <1>4, <1>5, WritePayload
<1>9. \A p \in Positions(ring) : Intact(At(ring, p), bytes')
  <2> SUFFICES ASSUME NEW p \in Positions(ring)
               PROVE  Intact(At(ring, p), bytes')
    OBVIOUS
  <2> DEFINE g == At(ring, p)
  <2>1. HeaderOk(g) /\ Intact(g, bytes) /\ SlotOf(g, p)
    BY <1>2 DEF TransportInv, TransportShape, PayloadsKept, NativePlaces
  <2> HIDE DEF g
  <2>2. p % RingSlots # tail % RingSlots /\ p \in Nat
    BY <1>3, SlotsDiffer
  <2>3. g.offset + g.length <= o \/ o + length <= g.offset
    BY <1>1, <1>2, <1>3, <2>1, <2>2, SlotsHold DEF o
  <2> QED
    BY <1>8, <2>1, <2>3 DEF g
<1>10. Intact(h, bytes')
  BY <1>6, <1>8 DEF Intact
<1>11. TransportShape' /\ PayloadsKept'
  BY <1>1, <1>2, <1>6, <1>8, <1>9, <1>10 DEF TransportInv, TransportShape, PayloadsKept
<1>12. Latest' = Latest /\ Delivering' = Delivering
  BY <1>2 DEF Latest, Delivering
<1>13. Latest \in Nat /\ Latest <= command /\ (~ ring.closed => command = Latest)
  BY <1>2, LatestIsLast DEF TransportInv, NumbersFollow
<1>14. NumbersFollow'
  <2>1. Latest <= command' /\ (~ ring.closed => Latest < command' /\ command' <= Latest + 2)
    BY <1>1, <1>2, <1>13
  <2> QED
    BY <1>2, <1>6, <1>7, <1>12, <2>1 DEF TransportInv, NumbersFollow
<1>15. SlotOf(h, tail)
  BY <1>2, <1>6 DEF SlotOf, o
<1>16. CanPush' = CanPush
  BY <1>2 DEF CanPush
<1>17. NativePlaces' /\ LocalPlaces'
  BY <1>2, <1>15, <1>16 DEF TransportInv, NativePlaces, LocalPlaces
<1> QED
  BY <1>11, <1>14, <1>17 DEF TransportInv

\* Only the native transport has a payload without its header, or a header without
\* its acknowledgement.
LEMMA BetweenCallsIsNative ==
    ASSUME TransportInv, pending # NoHeader \/ taken # NoHeader
    PROVE  transport = "native" /\ transport # "local"
BY DEF TransportInv, TransportShape, LocalPlaces

\* The header of a native command is pushed, or the producer was closed.
LEMMA PublishNativeStep ==
    ASSUME TransportInv, PublishNative
    PROVE  TransportInv'
<1> DEFINE head == ring.head
           tail == ring.tail
           h == pending
<1>1. /\ h # NoHeader /\ pending' = NoHeader
      /\ ring' = IF MayPublish(h) THEN Published(h) ELSE ring
      /\ UNCHANGED <<transport, circle, bytes, command, taken, received>>
  BY DEF PublishNative
<1>2. transport = "native" /\ transport # "local"
  BY <1>1, BetweenCallsIsNative
<1>3. /\ HeaderOk(h) /\ Intact(h, bytes) /\ CanPush /\ SlotOf(h, tail)
  BY <1>1, <1>2 DEF TransportInv, TransportShape, PayloadsKept, NativePlaces
<1>4. /\ ring \in Rings /\ head \in Nat /\ tail \in Nat /\ head <= tail
  BY DEF TransportInv, TransportShape, Rings
<1>5. ~ ring.closed => command = h.n /\ Latest < h.n /\ h.n <= Latest + 2
  BY <1>1 DEF TransportInv, NumbersFollow
<1>6. LocalPlaces'
  BY <1>1, <1>2 DEF LocalPlaces
<1> HIDE DEF h
<1>7. CASE MayPublish(h)
  <2>1. ring' = Published(h) /\ ~ ring.closed
    BY <1>1, <1>7 DEF MayPublish
  <2>2. /\ ring' \in Rings /\ ring'.head = head /\ ring'.tail = tail + 1
        /\ ring'.head <= ring'.tail /\ ring'.tail <= ring'.head + RingSlots
        /\ At(ring', tail) = h
        /\ \A p \in Positions(ring) : At(ring', p) = At(ring, p)
        /\ Positions(ring') = Positions(ring) \cup {tail}
    BY <1>3, <1>4, <2>1, HeaderIsSome, PushRing
  <2>3. \A p \in Positions(ring') :
            HeaderOk(At(ring', p)) /\ Intact(At(ring', p), bytes) /\ SlotOf(At(ring', p), p)
    BY <1>2, <1>3, <2>2 DEF TransportInv, TransportShape, PayloadsKept, NativePlaces
  <2>4. taken # NoHeader => ring'.head < ring'.tail /\ taken = At(ring', ring'.head)
    <3>1. taken # NoHeader => head < tail /\ taken = At(ring, head)
      BY DEF TransportInv, TransportShape
    <3>2. head < tail => head \in Positions(ring)
      BY <1>4 DEF Positions
    <3> QED
      BY <1>4, <2>2, <3>1, <3>2
  <2>5. TransportShape' /\ PayloadsKept'
    BY <1>1, <2>2, <2>3, <2>4 DEF TransportInv, TransportShape, PayloadsKept
  <2>6. NumbersFollow'
    BY <1>1, <1>3, <1>5, <2>1, NumbersPush DEF TransportInv
  <2>7. NativePlaces'
    BY <1>1, <2>3 DEF NativePlaces
  <2> QED
    BY <1>6, <2>5, <2>6, <2>7 DEF TransportInv
<1>8. CASE ~ MayPublish(h)
  <2>1. ring' = ring
    BY <1>1, <1>8
  <2>2. ring.closed
    BY <1>3, <1>5, <1>8, NextIsAccepted DEF TransportInv
  <2>3. Latest' = Latest /\ Delivering' = Delivering
    BY <1>1, <2>1 DEF Latest, Delivering
  <2>4. TransportShape' /\ PayloadsKept'
    BY <1>1, <2>1 DEF TransportInv, TransportShape, PayloadsKept
  <2>5. NumbersFollow'
    BY <1>1, <2>1, <2>2, <2>3 DEF TransportInv, NumbersFollow
  <2>6. NativePlaces'
    BY <1>1, <2>1 DEF TransportInv, NativePlaces
  <2> QED
    BY <1>6, <2>4, <2>5, <2>6 DEF TransportInv
<1> QED
  BY <1>7, <1>8

\* The header that is taken is the oldest, and not delivered yet.
LEMMA PeekStep ==
    ASSUME TransportInv, Peek
    PROVE  TransportInv'
<1> DEFINE head == ring.head
           h == At(ring, head)
<1>1. /\ transport = "native" /\ taken = NoHeader /\ head < ring.tail /\ taken' = h
      /\ UNCHANGED <<transport, ring, circle, bytes, command, pending, received>>
  BY DEF Peek, At
<1>2. head \in Positions(ring)
  BY <1>1 DEF TransportInv, TransportShape, Rings, Positions
<1>3. received.n < h.n /\ received.n \in Nat /\ h.n \in Nat
  BY <1>1, <1>2, HeaderIsSome DEF TransportInv, TransportShape, NumbersFollow, Delivering
<1> HIDE DEF h
<1>4. ~ Delivering /\ ~ Delivering'
  BY <1>1, <1>3 DEF Delivering
<1>5. Latest' = Latest
  BY <1>1 DEF Latest
<1>6. TransportShape' /\ PayloadsKept'
  BY <1>1 DEF TransportInv, TransportShape, PayloadsKept, h
<1>7. NumbersFollow'
  BY <1>1, <1>4, <1>5 DEF TransportInv, NumbersFollow
<1>8. CanPush' = CanPush
  BY <1>1 DEF CanPush
<1>9. NativePlaces' /\ LocalPlaces'
  BY <1>1, <1>8 DEF TransportInv, NativePlaces, LocalPlaces
<1> QED
  BY <1>6, <1>7, <1>9 DEF TransportInv

\* The payload is copied while its entry still is in the ring.
LEMMA ReadPayloadStep ==
    ASSUME TransportInv, ReadPayload
    PROVE  TransportInv'
<1> DEFINE head == ring.head
           h == taken
<1>1. /\ h # NoHeader /\ received' = Delivered(h)
      /\ UNCHANGED <<transport, ring, circle, bytes, command, pending, taken>>
  BY DEF ReadPayload
<1>2. head < ring.tail /\ h = At(ring, head) /\ head \in Positions(ring)
  BY <1>1 DEF TransportInv, TransportShape, Rings, Positions
<1>3. HeaderOk(h) /\ Intact(h, bytes)
  BY <1>2 DEF TransportInv, TransportShape, PayloadsKept
<1>4. received' = [n |-> h.n, payload |-> {h.n}] /\ h.n \in Nat
  BY <1>1, <1>3, PayloadRead, HeaderIsSome DEF Delivered
<1>5. received'.n = h.n /\ received'.payload = {h.n}
  BY <1>4
<1>6. Latest' = Latest
  <2>1. head # ring.tail
    BY <1>2 DEF TransportInv, TransportShape, Rings
  <2> QED
    BY <1>1, <2>1 DEF Latest
<1>7. Delivering'
  BY <1>1, <1>5 DEF Delivering
<1>8. TransportShape' /\ PayloadsKept'
  BY <1>1, <1>4, <1>5 DEF TransportInv, TransportShape, PayloadsKept
<1>9. NumbersFollow'
  BY <1>1, <1>6, <1>7 DEF TransportInv, NumbersFollow
<1>10. CanPush' = CanPush
  BY <1>1 DEF CanPush
<1>11. NativePlaces' /\ LocalPlaces'
  BY <1>1, <1>10 DEF TransportInv, NativePlaces, LocalPlaces
<1> QED
  BY <1>8, <1>9, <1>11 DEF TransportInv

\* From the acknowledgement on the slot is free.
LEMMA AckStep ==
    ASSUME TransportInv, Ack
    PROVE  TransportInv'
<1> DEFINE head == ring.head
           tail == ring.tail
           h == taken
<1>1. /\ h # NoHeader /\ received.n = h.n /\ ring' = Consumed(h) /\ taken' = NoHeader
      /\ UNCHANGED <<transport, circle, bytes, command, pending, received>>
  BY DEF Ack
<1>2. transport = "native" /\ transport # "local"
  BY <1>1, BetweenCallsIsNative
<1>3. /\ head < tail /\ h = At(ring, head) /\ ring \in Rings /\ head \in Nat /\ tail \in Nat
      /\ tail <= head + RingSlots /\ head \in Positions(ring) /\ RingSlots \in Nat
  BY <1>1, TransportAssumption DEF TransportInv, TransportShape, Rings, Positions
<1>4. HeaderOk(h) /\ h \in Headers
  BY <1>3, HeaderIsSome DEF TransportInv, TransportShape
<1>5. /\ ring' \in Rings /\ ring'.head = head + 1 /\ ring'.tail = tail
      /\ ring'.head <= ring'.tail /\ ring'.tail <= ring'.head + RingSlots
      /\ \A p \in Nat : At(ring', p) = At(ring, p)
      /\ Positions(ring') \subseteq Positions(ring) \ {head}
  BY <1>1, <1>3, <1>4, PopRing
<1>6. Positions(ring) \subseteq Nat
  BY <1>3 DEF Positions
<1>7. NumbersFollow'
  BY <1>1, <1>3, NumbersPop DEF TransportInv
<1> HIDE DEF h
<1>8. \A p \in Positions(ring') :
          /\ HeaderOk(At(ring', p)) /\ Intact(At(ring', p), bytes) /\ SlotOf(At(ring', p), p)
  BY <1>2, <1>5, <1>6 DEF TransportInv, TransportShape, PayloadsKept, NativePlaces
<1>9. TransportShape' /\ PayloadsKept'
  BY <1>1, <1>5, <1>8 DEF TransportInv, TransportShape, PayloadsKept
<1>10. CanPush => CanPush'
  BY <1>3, <1>5 DEF CanPush
<1>11. NativePlaces' /\ LocalPlaces'
  BY <1>1, <1>2, <1>5, <1>8, <1>10 DEF TransportInv, NativePlaces, LocalPlaces
<1> QED
  BY <1>7, <1>9, <1>11 DEF TransportInv

\* Closing the producer moves nothing.
LEMMA CloseProducerStep ==
    ASSUME TransportInv, CloseProducer
    PROVE  TransportInv'
<1>1. /\ ring' = [ring EXCEPT !.closed = TRUE]
      /\ UNCHANGED <<transport, circle, bytes, command, pending, taken, received>>
  BY DEF CloseProducer
<1>2. /\ ring' \in Rings /\ ring'.head = ring.head /\ ring'.tail = ring.tail
      /\ ring'.entries = ring.entries /\ ring'.produced = ring.produced
      /\ ring'.consumed = ring.consumed /\ ring'.closed
  BY <1>1 DEF TransportInv, TransportShape, Rings
<1>3. Positions(ring') = Positions(ring) /\ \A p : At(ring', p) = At(ring, p)
  BY <1>2 DEF Positions, At
<1>4. Latest' = Latest /\ Delivering' = Delivering /\ CanPush' = CanPush
  <2>1. Delivering' = Delivering /\ CanPush' = CanPush
    BY <1>1, <1>2 DEF Delivering, CanPush
  <2>2. At(ring', ring'.tail - 1) = At(ring, ring.tail - 1)
    BY <1>2, <1>3
  <2>3. Latest' = Latest
    BY <1>1, <1>2, <2>2 DEF Latest
  <2> QED
    BY <2>1, <2>3
<1>5. TransportShape' /\ PayloadsKept'
  BY <1>1, <1>2, <1>3 DEF TransportInv, TransportShape, PayloadsKept
<1>6. NumbersFollow'
  BY <1>1, <1>2, <1>3, <1>4 DEF TransportInv, NumbersFollow
<1>7. NativePlaces' /\ LocalPlaces'
  BY <1>1, <1>2, <1>3, <1>4 DEF TransportInv, NativePlaces, LocalPlaces
<1> QED
  BY <1>5, <1>6, <1>7 DEF TransportInv

-----------------------------------------------------------------------------
\* An empty ring and an empty arena.
LEMMA TransportInit ==
    ASSUME InitTransport
    PROVE  TransportInv
<1>1. RingSlots \in Nat \ {0} /\ PayloadBytes \in Nat
  BY TransportAssumption
<1>2. /\ transport \in {"local", "native"} /\ circle = EmptyCircle /\ command = 0
      /\ pending = NoHeader /\ taken = NoHeader
  BY DEF InitTransport
<1>13. /\ received = [n |-> 0, payload |-> {0}]
      /\ bytes = [i \in 0 .. PayloadBytes - 1 |-> 0]
      /\ ring = [entries |-> [i \in 0 .. RingSlots - 1 |-> NoHeader], head |-> 0, tail |-> 0,
                 produced |-> NoSeq, consumed |-> NoSeq, closed |-> FALSE]
  BY DEF InitTransport
<1>3. /\ ring \in Rings /\ ring.head = 0 /\ ring.tail = 0 /\ ring.produced = NoSeq
      /\ ring.consumed = NoSeq /\ ring.closed = FALSE
  <2> DEFINE f == [i \in 0 .. RingSlots - 1 |-> NoHeader]
  <2>1. f \in [0 .. RingSlots - 1 -> Headers \cup {NoHeader}]
    OBVIOUS
  <2> HIDE DEF f
  <2>2. ring = [entries |-> f, head |-> 0, tail |-> 0, produced |-> NoSeq, consumed |-> NoSeq,
                closed |-> FALSE]
    BY <1>13 DEF f
  <2>3. NoSeq \in Int
    BY DEF NoSeq
  <2> QED
    BY <2>1, <2>2, <2>3 DEF Rings
<1>4. Positions(ring) = {}
  BY <1>3 DEF Positions
<1>5. received.n = 0 /\ received.payload = {0} /\ received = [n |-> received.n, payload |-> received.payload]
  BY <1>13
<1>6. bytes \in Contents
  BY <1>13 DEF Contents
<1>7. TransportShape /\ PayloadsKept
  BY <1>1, <1>2, <1>3, <1>4, <1>5, <1>6 DEF TransportShape, PayloadsKept
<1>8. Latest = 0
  BY <1>3, <1>5 DEF Latest
<1>9. NumbersFollow
  BY <1>2, <1>3, <1>4, <1>5, <1>8 DEF NumbersFollow, OnWire
<1>10. EmptyCircle.allocations = <<>>
  BY DEF EmptyCircle
<1>11. Len(circle.allocations) = 0
  BY <1>2, <1>10
<1>12. NativePlaces /\ LocalPlaces
  BY <1>2, <1>3, <1>4, <1>11, EmptyIsOk DEF NativePlaces, LocalPlaces
<1> QED
  BY <1>7, <1>9, <1>12 DEF TransportInv

\* Every step of the transport.
LEMMA TransportStep ==
    ASSUME TransportInv, [TransportNext]_transportVars
    PROVE  TransportInv'
<1>1. ASSUME NEW n \in NewCommands, NEW length \in PayloadSizes, DispatchLocal(n, length)
      PROVE  TransportInv'
  BY <1>1, DispatchLocalStep
<1>2. ASSUME NEW n \in NewCommands, NEW length \in PayloadSizes, AllocateNative(n, length)
      PROVE  TransportInv'
  BY <1>2, AllocateNativeStep
<1>3. CASE ConsumeLocal
  BY <1>3, ConsumeLocalStep
<1>4. CASE PublishNative
  BY <1>4, PublishNativeStep
<1>5. CASE Peek
  BY <1>5, PeekStep
<1>6. CASE ReadPayload
  BY <1>6, ReadPayloadStep
<1>7. CASE Ack
  BY <1>7, AckStep
<1>8. CASE CloseProducer
  BY <1>8, CloseProducerStep
<1>9. CASE UNCHANGED transportVars
  <2>1. UNCHANGED <<transport, ring, circle, bytes, command, pending, taken, received>>
    BY <1>9 DEF transportVars
  <2>2. Latest' = Latest /\ Delivering' = Delivering /\ CanPush' = CanPush
    BY <2>1 DEF Latest, Delivering, CanPush
  <2>3. TransportShape' /\ PayloadsKept'
    BY <2>1 DEF TransportInv, TransportShape, PayloadsKept
  <2>4. NumbersFollow'
    BY <2>1, <2>2 DEF TransportInv, NumbersFollow
  <2>5. NativePlaces' /\ LocalPlaces'
    BY <2>1, <2>2 DEF TransportInv, NativePlaces, LocalPlaces
  <2> QED
    BY <2>3, <2>4, <2>5 DEF TransportInv
<1> QED
  BY <1>1, <1>2, <1>3, <1>4, <1>5, <1>6, <1>7, <1>8, <1>9 DEF TransportNext

\* What the invariant promises.
LEMMA TransportPromises ==
    ASSUME TransportInv
    PROVE  CommandsDelivered
<1> DEFINE head == ring.head
           tail == ring.tail
<1>1. ring \in Rings /\ head \in Nat /\ tail \in Nat /\ head <= tail
  BY DEF TransportInv, TransportShape, Rings
<1>2. \A h \in Queued : \E p \in Positions(ring) : h = At(ring, p)
  BY DEF Queued, Positions, At
<1>3. QueuedPayloadsIntact
  BY <1>2 DEF QueuedPayloadsIntact, TransportInv, PayloadsKept, Intact
<1>4. DeliveredIntact
  <2>1. received.payload = {received.n}
    BY DEF TransportInv, TransportShape
  <2>2. ASSUME NEW h \in Queued, h # taken
        PROVE  received.n < h.n
    <3>1. PICK p \in Positions(ring) : h = At(ring, p)
      BY <1>2
    <3>2. CASE ~ Delivering
      BY <3>1, <3>2 DEF TransportInv, NumbersFollow
    <3>3. CASE Delivering
      <4>1. taken = At(ring, head) /\ received.n = taken.n
        BY <3>3 DEF Delivering, TransportInv, TransportShape
      <4>2. head \in Positions(ring) /\ head < p
        BY <1>1, <2>2, <3>1, <4>1 DEF Positions
      <4> QED
        BY <3>1, <4>1, <4>2 DEF TransportInv, NumbersFollow
    <3> QED
      BY <3>2, <3>3
  <2> QED
    BY <2>1, <2>2 DEF DeliveredIntact
<1>5. ArenaReclaimed
  <2> SUFFICES ASSUME transport = "local", head = tail, NEW length \in PayloadSizes
               PROVE  Reserve(circle, length) # NoRoom /\ MayAllocate(circle, command + 1)
    BY DEF ArenaReclaimed
  <2>1. CircleOk(circle) /\ Len(circle.allocations) = tail - head
    BY DEF TransportInv, LocalPlaces
  <2>2. Len(circle.allocations) = 0
    BY <1>1, <2>1
  <2>3. circle.allocations = <<>>
    BY <2>1, <2>2, CircleFields
  <2>4. RoomAt(0, length).offset = 0 /\ NoRoom.offset = -1
    BY DEF RoomAt, NoRoom
  <2>5. RoomAt(0, length) # NoRoom
    BY <2>4
  <2> QED
    BY <2>3, <2>5 DEF Reserve, MayAllocate
<1>6. CommandsAdvance
  <2>1. ASSUME ~ ring.closed, CanPush, pending # NoHeader
        PROVE  MayPublish(pending)
    <3>1. HeaderOk(pending) /\ Latest < pending.n /\ pending.n <= Latest + 2
      BY <2>1 DEF TransportInv, TransportShape, NumbersFollow
    <3> QED
      BY <2>1, <3>1, NextIsAccepted DEF TransportInv
  <2>2. ASSUME head < tail, taken = NoHeader
        PROVE  MayConsume(At(ring, head))
    <3> DEFINE n == received.n
               h == At(ring, head)
               m == h.n
    <3>1. head \in Positions(ring)
      BY <1>1, <2>2 DEF Positions
    <3>2. HeaderOk(h)
      BY <3>1 DEF TransportInv, TransportShape
    <3>3. /\ ring.consumed = OnWire(n) /\ n < m /\ m <= n + 2
      BY <2>2, <3>1 DEF TransportInv, NumbersFollow, Delivering
    <3>4. n \in Nat /\ m \in Nat /\ h.seq = Wire(m)
      BY <3>2, HeaderIsSome DEF TransportInv, TransportShape
    <3> HIDE DEF n, h, m
    <3>5. m \in n + 1 .. n + 2
      BY <3>3, <3>4
    <3>6. IsNewer(Wire(m), Wire(n))
      BY <3>4, <3>5, WireAdvances
    <3>7. ring.consumed # NoSeq => ring.consumed = Wire(n)
      BY <3>3 DEF OnWire
    <3> QED
      BY <3>4, <3>6, <3>7 DEF MayConsume, h
  <2> QED
    BY <2>1, <2>2 DEF CommandsAdvance, At
<1> QED
  BY <1>3, <1>4, <1>5, <1>6 DEF CommandsDelivered

\* The transport keeps its invariant, whatever its sizes.
THEOREM TransportInvariant == TransportSpec => []TransportInv
<1>1. InitTransport => TransportInv
  BY TransportInit
<1>2. TransportInv /\ [TransportNext]_transportVars => TransportInv'
  BY TransportStep
<1> QED
  BY <1>1, <1>2, PTL DEF TransportSpec

\* Commands are delivered in order, each with its own payload, and neither the
\* arena nor the sequence numbers stop the transport: ring, arena and payloads of
\* any size, and however many commands.
THEOREM CommandsAreDelivered == TransportSpec => []CommandsDelivered
<1>1. TransportInv => CommandsDelivered
  BY TransportPromises
<1> QED
  BY <1>1, TransportInvariant, PTL

=============================================================================
