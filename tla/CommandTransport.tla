-------------------------- MODULE CommandTransport --------------------------
(***************************************************************************)
(* The way of a command to its worker: a payload in an arena, and a header *)
(* in a single-producer single-consumer ring.                              *)
(*                                                                         *)
(*   "local"   CommandRing and CommandArena (ipc/command_ring.py,          *)
(*             command_arena.py): a byte arena used as a circle, reclaimed *)
(*             by the sequence number of what was consumed;                *)
(*   "native"  NativeCommandRing and NativeCommandArena                    *)
(*             (ipc/native_command.py, native_ring.py, csrc): two          *)
(*             processes, one payload slot per ring entry.                 *)
(*                                                                         *)
(* A ring serves one generation of its worker: the fence that refuses a    *)
(* header of another one (StaleWorkerGeneration) is left out.              *)
(* A byte of the arena holds the number of the command that wrote it.      *)
(* Commands are numbered 1, 2, ...; the wire carries the number modulo     *)
(* SeqModulus (2^64 - 1 in the code).                                      *)
(***************************************************************************)
EXTENDS Integers, Sequences, FiniteSets, SequencesExt

CONSTANTS RingSlots,      \* entries of the ring
          PayloadBytes,   \* bytes of the arena
          PayloadSizes,   \* payload lengths
          SeqModulus,     \* modulus of command sequence numbers: it tells a number
                          \* from the two behind it
          MaxCommands     \* bound on the commands

ASSUME TransportAssumption ==
    /\ RingSlots \in Nat \ {0} /\ PayloadBytes \in Nat \ {0} /\ MaxCommands \in Nat
    /\ SeqModulus \in Nat /\ SeqModulus > 4 /\ PayloadSizes \subseteq 1 .. PayloadBytes

VARIABLES transport, \* "local" or "native"
          ring,      \* [entries, head, tail, produced, consumed, closed]
          circle,    \* the local arena: [head, tail, allocations]
          bytes,     \* content of the arena
          command,   \* number of the last command made
          pending,   \* the native producer: payload written, header not pushed
          taken,     \* the native consumer: header peeked, not acknowledged
          received   \* the last command delivered: its number, the content it came with

transportVars == <<transport, ring, circle, bytes, command, pending, taken, received>>

NoHeader == [n |-> 0]
NoSeq == -1
\* NativeCommandArena: the bytes of a ring entry.
SlotBytes == PayloadBytes \div RingSlots

\* UIntDomain.next and is_newer on the wire's numbers.
Wire(n) == n % SeqModulus
IsNewer(a, b) == LET d == (a - b) % SeqModulus IN 0 < d /\ d <= SeqModulus \div 2

\* Entries not acknowledged yet; an entry is in slot (position % RingSlots).
Queued == {ring.entries[i % RingSlots] : i \in ring.head .. ring.tail - 1}
CanPush == ring.tail - ring.head < RingSlots

EmptyCircle == [head |-> 0, tail |-> 0, allocations |-> <<>>]

InitTransport ==
    /\ transport \in {"local", "native"}
    /\ ring = [entries |-> [i \in 0 .. RingSlots - 1 |-> NoHeader], head |-> 0, tail |-> 0,
               produced |-> NoSeq, consumed |-> NoSeq, closed |-> FALSE]
    /\ circle = EmptyCircle
    /\ bytes = [i \in 0 .. PayloadBytes - 1 |-> 0]
    /\ command = 0
    /\ pending = NoHeader /\ taken = NoHeader
    /\ received = [n |-> 0, payload |-> {0}]

\* CommandArena._reserve: where `length` bytes go and the head behind them; a
\* negative offset is CommandBackpressure.
NoRoom == [offset |-> -1, head |-> 0]
RoomAt(offset, length) == [offset |-> offset, head |-> (offset + length) % PayloadBytes]
Reserve(c, length) ==
    IF c.allocations = <<>> THEN RoomAt(0, length)
    ELSE IF c.head = c.tail THEN NoRoom
    ELSE IF c.head >= c.tail
    THEN IF length <= PayloadBytes - c.head THEN RoomAt(c.head, length)
         ELSE IF length <= c.tail THEN RoomAt(0, length) ELSE NoRoom
    ELSE IF length <= c.tail - c.head THEN RoomAt(c.head, length) ELSE NoRoom

\* The bytes of the arena after a payload is written.
PayloadWritten(offset, length, n) ==
    [i \in DOMAIN bytes |-> IF offset <= i /\ i < offset + length THEN n ELSE bytes[i]]

\* ring.publish: the header goes to the tail slot, if the producer is open and
\* the sequence advances.
MayPublish(header) ==
    /\ ~ ring.closed
    /\ CanPush
    /\ ring.produced # NoSeq => IsNewer(header.seq, ring.produced)
Published(header) ==
    [ring EXCEPT !.entries[ring.tail % RingSlots] = header, !.tail = @ + 1,
                 !.produced = header.seq]

Header(n, offset, length) == [n |-> n, seq |-> Wire(n), offset |-> offset, length |-> length]

\* CommandArena.allocate: the last allocation is older.
Allocated(c, n, room, length) ==
    [c EXCEPT !.head = room.head,
              !.allocations = Append(@, [seq |-> Wire(n), offset |-> room.offset, length |-> length])]
MayAllocate(c, n) == c.allocations # <<>> => IsNewer(Wire(n), Last(c.allocations).seq)

\* CommandArena.discard_last.
Discarded(c) ==
    LET rest == Front(c.allocations)
    IN  IF rest = <<>> THEN EmptyCircle
        ELSE [c EXCEPT !.allocations = rest,
                       !.head = (Last(rest).offset + Last(rest).length) % PayloadBytes]

\* DispatchPlane.dispatch through the local transport: allocate, publish, and
\* discard the payload when the ring refuses it.  Numbers may be skipped: they
\* are shared by the workers.
DispatchLocal(n, length) ==
    LET room == Reserve(circle, length)
        held == Allocated(circle, n, room, length)
        header == Header(n, room.offset, length)
    IN  /\ transport = "local" /\ CanPush
        /\ MayAllocate(circle, n) /\ room # NoRoom
        /\ command' = n
        /\ bytes' = PayloadWritten(room.offset, length, n)
        /\ IF MayPublish(header)
           THEN ring' = Published(header) /\ circle' = held
           ELSE circle' = Discarded(held) /\ UNCHANGED ring
        /\ UNCHANGED <<transport, pending, taken, received>>

\* CommandArena.release_through: everything up to the sequence that was consumed.
ReleasedThrough(c, seq) ==
    LET stays == SelectInSeq(c.allocations, LAMBDA a : a.seq # seq /\ ~ IsNewer(seq, a.seq))
        last == c.allocations[stays - 1]
    IN  IF stays = 0 THEN EmptyCircle
        ELSE IF stays = 1 THEN c
        ELSE [c EXCEPT !.allocations = SubSeq(@, stays, Len(@)),
                       !.tail = (last.offset + last.length) % PayloadBytes]

\* What the consumer reads for a header.
Payload(header) == {bytes[i] : i \in header.offset .. header.offset + header.length - 1}
\* Checks of consume: the sequence advances.
MayConsume(header) == ring.consumed # NoSeq => IsNewer(header.seq, ring.consumed)
Consumed(header) == [ring EXCEPT !.head = @ + 1, !.consumed = header.seq]
Delivered(header) == [n |-> header.n, payload |-> Payload(header)]

\* CommandRing.consume: header, payload and release in one call.
ConsumeLocal ==
    LET header == ring.entries[ring.head % RingSlots]
    IN  /\ transport = "local" /\ ring.head < ring.tail
        /\ MayConsume(header)
        /\ ring' = Consumed(header)
        /\ received' = Delivered(header)
        /\ circle' = ReleasedThrough(circle, header.seq)
        /\ UNCHANGED <<transport, bytes, command, pending, taken>>

\* NativeCommandArena.allocate: the payload goes to the slot of the tail, which
\* no queued entry uses.
AllocateNative(n, length) ==
    LET offset == (ring.tail % RingSlots) * SlotBytes
    IN  /\ transport = "native" /\ pending = NoHeader
        /\ length <= SlotBytes /\ CanPush
        /\ command' = n
        /\ bytes' = PayloadWritten(offset, length, n)
        /\ pending' = Header(n, offset, length)
        /\ UNCHANGED <<transport, ring, circle, taken, received>>

\* NativeCommandRing.publish, sd_ring_push; discard_last when it is refused.
PublishNative ==
    /\ pending # NoHeader
    /\ ring' = IF MayPublish(pending) THEN Published(pending) ELSE ring
    /\ pending' = NoHeader
    /\ UNCHANGED <<transport, circle, bytes, command, taken, received>>

\* NativeCommandRing.consume, sd_ring_peek: the header is copied and checked.
PeekAndAck ==
    LET header == ring.entries[ring.head % RingSlots]
    IN  /\ transport = "native" /\ taken = NoHeader /\ ring.head < ring.tail
        /\ taken' = header
        /\ ring' = Consumed(header)
        /\ UNCHANGED <<transport, circle, bytes, command, pending, received>>
Peek ==
    LET header == ring.entries[ring.head % RingSlots]
    IN  /\ transport = "native" /\ taken = NoHeader /\ ring.head < ring.tail
        /\ MayConsume(header)
        /\ header.offset = (ring.head % RingSlots) * SlotBytes /\ header.length <= SlotBytes
        /\ taken' = header
        /\ UNCHANGED <<transport, ring, circle, bytes, command, pending, received>>

\* NativeCommandRing.consume: the payload is copied out of the shared slot.
ReadPayload ==
    /\ taken # NoHeader
    /\ received.n # taken.n
    /\ received' = Delivered(taken)
    /\ UNCHANGED <<transport, ring, circle, bytes, command, pending, taken>>

\* sd_ring_ack, only behind the copy: from here on the producer may reuse the slot.
Ack ==
    /\ taken # NoHeader
    /\ received.n = taken.n
    /\ ring' = Consumed(taken)
    /\ taken' = NoHeader
    /\ UNCHANGED <<transport, circle, bytes, command, pending, received>>

\* close_producer.
CloseProducer ==
    /\ ~ ring.closed
    /\ ring' = [ring EXCEPT !.closed = TRUE]
    /\ UNCHANGED <<transport, circle, bytes, command, pending, taken, received>>

NewCommands == command + 1 .. (IF command + 2 <= MaxCommands THEN command + 2 ELSE MaxCommands)

TransportNext ==
    \/ \E n \in NewCommands, length \in PayloadSizes :
         DispatchLocal(n, length) \/ AllocateNative(n, length)
    \/ ConsumeLocal \/ PublishNative \/ Peek \/ ReadPayload \/ Ack \/ CloseProducer

-----------------------------------------------------------------------------
\* The payload of every queued command is the one it was published with, although
\* the arena wraps, is reclaimed late and payloads are discarded.
QueuedPayloadsIntact ==
    \A h \in Queued : \A i \in h.offset .. h.offset + h.length - 1 : bytes[i] = h.n

\* The worker gets its commands in order, each once, with its own payload: the
\* slot of a command is not reused before its payload is copied.
DeliveredIntact ==
    /\ received.payload = {received.n}
    /\ \A h \in Queued \ {taken} : received.n < h.n

\* When nothing is queued, any payload fits again: no path, a refused publication
\* included, leaks bytes of the arena.
ArenaReclaimed ==
    (transport = "local" /\ ring.head = ring.tail) =>
        \A length \in PayloadSizes : Reserve(circle, length) # NoRoom /\ MayAllocate(circle, command + 1)

\* The ring and the consumer accept what the producer sends: sequence numbers that
\* wrap, and skip those of other workers, still advance.
CommandsAdvance ==
    /\ ~ ring.closed /\ CanPush /\ pending # NoHeader => MayPublish(pending)
    /\ (ring.head < ring.tail /\ taken = NoHeader) => MayConsume(ring.entries[ring.head % RingSlots])

\* Commands arrive in order with their own payloads, and the transport goes on:
\* over wrapping arenas and sequence numbers, refusals and skipped numbers.
CommandsDelivered == QueuedPayloadsIntact /\ DeliveredIntact /\ ArenaReclaimed /\ CommandsAdvance
=============================================================================
