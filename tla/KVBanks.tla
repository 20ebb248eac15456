------------------------------- MODULE KVBanks -------------------------------
(***************************************************************************)
(* The double-bank block manager of SwiftLLM (worker/block_manager.py) as  *)
(* operators on its state.  A manager m is a record                        *)
(*   bank    two banks, each with an epoch, a role, the batch it holds,    *)
(*           the bump pointer and one reserved range per row,              *)
(*   active  the active bank, the other one is the standby bank,           *)
(*   count   how many table entries of a row are valid,                    *)
(*   first   the physical block in the row's first table entry: a range is *)
(*           contiguous, so the other entries follow from it.              *)
(* An operation that the code rejects has a "Can" operator for its checks; *)
(* the callers take the operation's result only where that holds, since    *)
(* every rejected operation leaves the manager as it was.                  *)
(***************************************************************************)
EXTENDS Integers, Sequences, SequencesExt, FiniteSets

CONSTANTS Rows,        \* rows of the block table
          BankBlocks,  \* physical blocks in one bank
          BlockSize,   \* tokens in one block
          NoBatch      \* the batch of a bank that holds none

ASSUME BanksAssumption == /\ BankBlocks \in Nat \ {0}
                          /\ BlockSize \in Nat \ {0}

BankIds == 0..1
Standby(m) == 1 - m.active
Base(b) == b * BankBlocks
PhysicalBlocks == 0..(2 * BankBlocks - 1)
Blocks(len) == (len + BlockSize - 1) \div BlockSize

InitManager ==
    [bank   |-> [b \in BankIds |->
                   [epoch |-> 0, ptr |-> 0, batch |-> NoBatch, ranges |-> << >>,
                    role |-> IF b = 0 THEN "ACTIVE" ELSE "STANDBY"]],
     active |-> 0,
     count  |-> [r \in Rows |-> 0],
     first  |-> [r \in Rows |-> 0]]

HasRange(m, b, row) == row \in DOMAIN m.bank[b].ranges
Loc(m, b, row) == m.bank[b].ranges[row]
FirstPhysical(m, b, row) == Base(b) + Loc(m, b, row).start

\* The bank a row is looked up in: the first one that has a range for it.
BanksForRequest(m, row) == {b \in BankIds : HasRange(m, b, row)}
BankForRequest(m, row) == CHOOSE b \in BanksForRequest(m, row) :
                              \A c \in BanksForRequest(m, row) : b <= c

\* Point the first n table entries of a row at its range.
SetValidBlocks(m, b, row, n) ==
    [m EXCEPT !.count[row] = n,
              !.first[row] = IF n = 0 THEN @ ELSE FirstPhysical(m, b, row)]

\* Mutant: the bump pointer stays where it was.
ReserveInBankNoAdvance(m, b, item, batch) ==
    SetValidBlocks([m EXCEPT
        !.bank[b].batch = IF batch = NoBatch THEN @ ELSE batch,
        !.bank[b].ranges = [r \in DOMAIN @ \cup {item.row} |->
            IF r = item.row THEN [start |-> m.bank[b].ptr, cap |-> item.blocks,
                                  len |-> item.len, ver |-> item.ver] ELSE @[r]]],
        b, item.row, item.blocks)

ReserveInBank(m, b, item, batch) ==
    LET loc == [start |-> m.bank[b].ptr, cap |-> item.blocks,
                len |-> item.len, ver |-> item.ver]
        placed == [m EXCEPT
            !.bank[b].ptr = @ + item.blocks,
            !.bank[b].batch = IF batch = NoBatch THEN @ ELSE batch,
            !.bank[b].ranges = [r \in DOMAIN @ \cup {item.row} |->
                                   IF r = item.row THEN loc ELSE @[r]]]
    IN SetValidBlocks(placed, b, item.row, item.blocks)

ResetBank(m, b) ==
    [m EXCEPT !.bank[b] = [@ EXCEPT !.ptr = 0, !.epoch = @ + 1, !.batch = NoBatch,
                                    !.ranges = << >>,
                                    !.role = IF @ = "PREPARED" THEN "STANDBY" ELSE @]]

ItemRows(items) == {items[i].row : i \in DOMAIN items}
ItemBlocks(items) == FoldLeft(LAMBDA n, item : n + item.blocks, 0, items)

CanReserveBatch(m, b, items, reset) ==
    /\ Cardinality(ItemRows(items)) = Len(items)
    /\ \A row \in ItemRows(items) : ~HasRange(m, b, row)
    /\ ItemBlocks(items) <= IF reset THEN BankBlocks ELSE BankBlocks - m.bank[b].ptr

ReserveBatch(m, b, items, batch, reset) ==
    FoldLeft(LAMBDA acc, item : ReserveInBank(acc, b, item, batch),
             IF reset THEN ResetBank(m, b) ELSE m, items)

MarkPrepared(m, b, batch) ==
    [m EXCEPT !.bank[b].role = "PREPARED",
              !.bank[b].batch = IF batch = NoBatch THEN @ ELSE batch]

SwapActiveStandby(m) ==
    [m EXCEPT !.bank[m.active].role = "STANDBY",
              !.bank[Standby(m)].role = "ACTIVE",
              !.active = Standby(m)]

CanDiscardPrepared(m, b, epoch, batch) ==
    /\ b = Standby(m)
    /\ m.bank[b].role = "PREPARED"
    /\ m.bank[b].epoch = epoch /\ m.bank[b].batch = batch
    /\ DOMAIN m.bank[b].ranges = {}

DiscardPrepared(m, b) ==
    [m EXCEPT !.bank[b] = [@ EXCEPT !.role = "STANDBY", !.ptr = 0, !.batch = NoBatch]]

(***************************************************************************)
(* allocate_blocks_for_seqs: a row that already has the blocks is skipped, *)
(* a row with no range in the ACTIVE bank gets a new one there, and a row  *)
(* with a range must fit into it.  items is a sequence of rows and lengths.*)
(***************************************************************************)
Grows(m, item) == Blocks(item.len) > m.count[item.row]
NewInActive(m, items) ==
    SelectSeq(items, LAMBDA i : Grows(m, i) /\ ~HasRange(m, m.active, i.row))
Growing(m, items) ==
    SelectSeq(items, LAMBDA i : Grows(m, i) /\ HasRange(m, m.active, i.row))

CanAllocate(m, items) ==
    /\ \A i \in Range(Growing(m, items)) :
           Blocks(i.len) <= Loc(m, m.active, i.row).cap
    /\ FoldLeft(LAMBDA n, i : n + Blocks(i.len), 0, NewInActive(m, items))
         <= BankBlocks - m.bank[m.active].ptr

Allocate(m, items) ==
    LET b == m.active
        reserved == FoldLeft(
            LAMBDA acc, i : ReserveInBank(acc, b, [row |-> i.row, blocks |-> Blocks(i.len),
                                                  len |-> i.len, ver |-> 0], NoBatch),
            m, NewInActive(m, items))
    IN FoldLeft(LAMBDA acc, i : SetValidBlocks(
                    [acc EXCEPT !.bank[b].ranges[i.row].len = i.len], b, i.row, Blocks(i.len)),
                reserved, Growing(m, items))

CanCrop(m, items) ==
    \A i \in Range(items) :
        /\ Blocks(i.len) <= m.count[i.row]
        /\ BanksForRequest(m, i.row) # {} =>
             Blocks(i.len) <= Loc(m, BankForRequest(m, i.row), i.row).cap

\* A crop shortens the valid prefix and advances the range's KV version.
Crop(m, items) ==
    FoldLeft(LAMBDA acc, i :
        LET cut == [acc EXCEPT !.count[i.row] = Blocks(i.len)]
        IN IF BanksForRequest(m, i.row) = {} THEN cut
           ELSE [cut EXCEPT !.bank[BankForRequest(m, i.row)].ranges[i.row] =
                                [@ EXCEPT !.len = i.len, !.ver = @ + 1]],
        m, items)

SetKVVersion(m, b, row, ver) == [m EXCEPT !.bank[b].ranges[row].ver = ver]

WithoutRanges(m, b, gone) ==
    [m EXCEPT !.bank[b].ranges = [r \in DOMAIN @ \ gone |-> @[r]]]

(***************************************************************************)
(* release_bank_ranges_exact_batch: fences are records naming bank, epoch, *)
(* row, start, capacity and batch.  The whole batch is validated first.    *)
(* The table row is cleared only while it still points into the range.     *)
(***************************************************************************)
CanReleaseExact(m, fences) ==
    /\ \A f, g \in fences : f.bank = g.bank /\ f.row = g.row => f = g
    /\ \A f \in fences :
         /\ HasRange(m, f.bank, f.row)
         /\ m.bank[f.bank].epoch = f.epoch
         /\ Loc(m, f.bank, f.row).start = f.start
         /\ Loc(m, f.bank, f.row).cap = f.cap
         /\ f.batch = NoBatch \/ m.bank[f.bank].batch = f.batch

ReleaseExact(m, fences) ==
    LET gone(b) == {f.row : f \in {g \in fences : g.bank = b}}
        pointsInto(f) == /\ m.count[f.row] \in 1..Loc(m, f.bank, f.row).cap
                         /\ m.first[f.row] = FirstPhysical(m, f.bank, f.row)
        zero == {f.row : f \in {g \in fences : pointsInto(g)}}
        cleared == [m EXCEPT !.count = [r \in Rows |-> IF r \in zero THEN 0 ELSE @[r]]]
    IN WithoutRanges(WithoutRanges(cleared, 0, gone(0)), 1, gone(1))

(***************************************************************************)
(* What a caller of the manager relies on: the ranges of a bank lie below  *)
(* its bump pointer and do not overlap, one bank is active, and the valid  *)
(* table entries of a row that has a range point into that range.          *)
(***************************************************************************)
Extent(m, b, row) == {Base(b) + k : k \in Loc(m, b, row).start ..
                          (Loc(m, b, row).start + Loc(m, b, row).cap - 1)}
TableBlocks(m, row) == {m.first[row] + k : k \in 0..(m.count[row] - 1)}

BanksSound(m) ==
    /\ m.bank[m.active].role = "ACTIVE" /\ m.bank[Standby(m)].role # "ACTIVE"
    /\ \A b \in BankIds :
         /\ m.bank[b].ptr <= BankBlocks
         /\ \A r \in DOMAIN m.bank[b].ranges :
              /\ Loc(m, b, r).start + Loc(m, b, r).cap <= m.bank[b].ptr
              /\ TableBlocks(m, r) \subseteq Extent(m, b, r)
         /\ \A r, s \in DOMAIN m.bank[b].ranges :
              r # s => Extent(m, b, r) \cap Extent(m, b, s) = {}
    /\ DOMAIN m.bank[0].ranges \cap DOMAIN m.bank[1].ranges = {}
=============================================================================
