-------------------------- MODULE HostKVAllocator --------------------------
(***************************************************************************)
(* The HostKV arena of the Engine: extents of KV blocks given out at       *)
(* admission, first fit, and merged back when a request retires            *)
(* (kv/host_allocator.py, kv/arena.py).  An allocator is a record: the     *)
(* free list, the extents in use and the next generation of every slot.    *)
(***************************************************************************)
EXTENDS Integers, Sequences, FiniteSets, SequencesExt

\* A slot with no allocation.
NoExtent == [capacity |-> 0]

\* The arena before any request: one free range.
NewAllocator(slots, blocks) ==
    [blocks |-> blocks, free |-> << <<0, blocks>> >>,
     extents |-> [s \in slots |-> NoExtent], generation |-> [s \in slots |-> 1]]

\* SharedHostKVArena._validate_extent: an extent lies inside the arena.
ValidateExtent(a, e) == e.capacity > 0 /\ e.offset >= 0 /\ e.offset + e.capacity <= a.blocks

\* An extent: whose it is, its fences and its blocks.
HostKVExtent(slot, epoch, generation, lease, offset, capacity) ==
    [slot |-> slot, epoch |-> epoch, generation |-> generation, lease |-> lease,
     offset |-> offset, capacity |-> capacity]

\* SharedHostKVArena.make_extent, as the allocator calls it: host slot and lease
\* have the generation of the request slot.
MakeExtent(slot, epoch, generation, offset, capacity) ==
    HostKVExtent(slot, epoch, generation, generation, offset, capacity)

\* The free ranges that can hold `capacity` blocks.
Fitting(a, capacity) == {i \in DOMAIN a.free : a.free[i][2] >= capacity}

\* Allocation is refused to a slot in use and when no range is long enough.
CanTakeExtent(a, slot, capacity) ==
    a.extents[slot] = NoExtent /\ capacity > 0 /\ Fitting(a, capacity) # {}

\* HostKVAllocator.allocate: the head of the first range that fits.
TakeExtent(a, slot, epoch, capacity) ==
    LET i == CHOOSE k \in Fitting(a, capacity) : \A n \in Fitting(a, capacity) : k <= n
        offset == a.free[i][1]
        rest == a.free[i][2] - capacity
    IN  [a EXCEPT
          !.extents[slot] = MakeExtent(slot, epoch, a.generation[slot], offset, capacity),
          !.free = SubSeq(@, 1, i - 1)
                     \o (IF rest > 0 THEN << <<offset + capacity, rest>> >> ELSE <<>>)
                     \o SubSeq(@, i + 1, Len(@))]

\* HostKVAllocator.require: the request's own extent, of its own epoch.
HoldsExtent(a, slot, epoch) == a.extents[slot] # NoExtent /\ a.extents[slot].epoch = epoch

\* One range more: it joins its left neighbour when they touch.
Joined(merged, range) ==
    LET n == Len(merged)
    IN  IF n > 0 /\ merged[n][1] + merged[n][2] = range[1]
        THEN [merged EXCEPT ![n] = <<@[1], @[2] + range[2]>>]
        ELSE Append(merged, range)

\* sorted(free), when one range joins a list in order.
Inserted(ranges, range) ==
    LET n == Cardinality({i \in DOMAIN ranges : ranges[i][1] < range[1]})
    IN  SubSeq(ranges, 1, n) \o <<range>> \o SubSeq(ranges, n + 1, Len(ranges))

\* HostKVAllocator.recycle: the slot gets a new generation, and the free list
\* is rebuilt in order, with neighbours joined.
GiveBack(a, slot) ==
    LET e == a.extents[slot]
        ranges == Inserted(a.free, <<e.offset, e.capacity>>)
    IN  [a EXCEPT !.generation[slot] = @ + 1, !.extents[slot] = NoExtent,
                  !.free = FoldLeft(Joined, <<>>, ranges)]

=============================================================================
