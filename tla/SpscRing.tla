------------------------------ MODULE SpscRing ------------------------------
(***************************************************************************)
(* SPSC_Ring_buffer/rb.c: the lock-free single-producer single-consumer    *)
(* ring, driven by test_two_threads.                                       *)
(*                                                                         *)
(* head and tail are C11 atomics.  The model keeps the whole modification  *)
(* order of each: headLog and tailLog hold one message per store, with the *)
(* value stored and the number of slot accesses its storer had made (what  *)
(* a release store hands over).  A load of the other side's index returns  *)
(* any message that is not older than the last one the loader has seen; an *)
(* acquire load also takes over the message's view.  Each index has one    *)
(* writer, so a thread's load of its own index returns its last store.     *)
(*                                                                         *)
(* Slots are plain memory: an access that the other side's accesses of the *)
(* same slot do not all happen before is a data race.                      *)
(***************************************************************************)
EXTENDS Integers, Sequences

CONSTANTS Capacity,  \* ring->capacity
          Wrap,      \* the values of a uint64_t index: 2^64
          NItems     \* N_ITEMS

(* init_ring accepts powers of two, all of which divide 2^64; next_pow2 of *)
(* a positive long is at most 2^63.                                        *)
ASSUME CapacityAssumption == Capacity \in Nat \ {0}
ASSUME WrapAssumption == Wrap \in Nat /\ \E k \in 2..Wrap : Wrap = k * Capacity
ASSUME NItemsAssumption == NItems \in Nat \ {0}

VARIABLES buf,        \* ring->buf, by slot
          headLog,    \* the stores to ring->head, oldest first
          tailLog,    \* the stores to ring->tail, oldest first
          prod,       \* the producer: pc, i, seen (index in tailLog), view
          cons,       \* the consumer: pc, i, seen (index in headLog), view, v
          lastWrite,  \* lastWrite[s]: which of the producer's slot writes hit s last
          lastRead,   \* lastRead[s]: which of the consumer's slot reads hit s last
          got,        \* the values ring_read has returned, in order
          mainPc      \* where main is

vars == <<buf, headLog, tailLog, prod, cons, lastWrite, lastRead, got, mainPc>>

Slots == 0..(Capacity - 1)

(* index & ring->mask *)
Slot(index) == index % Capacity

(* Unsigned arithmetic on indices *)
Wrapped(n) == n % Wrap
Minus(a, b) == Wrapped(a - b)

(* Where test_single_thread leaves both indices: it fills and drains the   *)
(* ring once, and then moves half a ring and five rings through it.        *)
Start == 6 * Capacity + (Capacity \div 2)

HeadIndex == headLog[Len(headLog)].val
TailIndex == tailLog[Len(tailLog)].val

(* How many slot writes, how many slot reads have been made. *)
Writes == IF prod.pc = "store" THEN prod.i + 1 ELSE prod.i
Reads == IF cons.pc = "store" THEN cons.i + 1 ELSE cons.i

Loop(i) == IF i < NItems THEN "load" ELSE "done"

(* The ring is empty when the threads start; its slots hold values of the  *)
(* single-threaded test, which the two threads must not deliver again.     *)
Init ==
  /\ buf = [s \in Slots |-> NItems]
  /\ headLog = <<[val |-> Wrapped(Start), view |-> 0]>>
  /\ tailLog = <<[val |-> Wrapped(Start), view |-> 0]>>
  /\ prod = [pc |-> "unborn", i |-> 0, seen |-> 1, view |-> 0]
  /\ cons = [pc |-> "unborn", i |-> 0, seen |-> 1, view |-> 0, v |-> NItems]
  /\ lastWrite = [s \in Slots |-> 0]
  /\ lastRead = [s \in Slots |-> 0]
  /\ got = <<>>
  /\ mainPc = "createCons"

Running == mainPc \in {"createCons", "createProd", "join"}

-----------------------------------------------------------------------------
(* Whether the producer that loads head and tail must report a full ring. *)
FullOffByOne(head, tail) == Minus(head, tail) = Capacity + 1
Full(head, tail) == Minus(head, tail) = Capacity

(* ring_write: load both indices; when the ring is full it returns false   *)
(* and the producer's while calls it again.                                *)
WriteLoadRelaxed(k) ==
  /\ Running /\ prod.pc = "load"
  /\ prod' = [prod EXCEPT !.seen = k,
                          !.pc = IF Full(HeadIndex, tailLog[k].val) THEN "load" ELSE "slot"]
  /\ UNCHANGED <<buf, headLog, tailLog, cons, lastWrite, lastRead, got, mainPc>>

WriteLoad(k) ==
  /\ Running /\ prod.pc = "load"
  /\ prod' = [prod EXCEPT !.seen = k,
                          !.view = tailLog[k].view,
                          !.pc = IF Full(HeadIndex, tailLog[k].val) THEN "load" ELSE "slot"]
  /\ UNCHANGED <<buf, headLog, tailLog, cons, lastWrite, lastRead, got, mainPc>>

(* ring_write: the plain store into the slot *)
WriteSlot ==
  /\ Running /\ prod.pc = "slot"
  /\ buf' = [buf EXCEPT ![Slot(HeadIndex)] = prod.i]
  /\ lastWrite' = [lastWrite EXCEPT ![Slot(HeadIndex)] = prod.i + 1]
  /\ prod' = [prod EXCEPT !.pc = "store"]
  /\ UNCHANGED <<headLog, tailLog, cons, lastRead, got, mainPc>>

(* ring_write: the release store of head + 1; the producer's i++ *)
WriteStore ==
  /\ Running /\ prod.pc = "store"
  /\ headLog' = Append(headLog, [val |-> Wrapped(HeadIndex + 1), view |-> Writes])
  /\ prod' = [prod EXCEPT !.i = @ + 1, !.pc = Loop(prod.i + 1)]
  /\ UNCHANGED <<buf, tailLog, cons, lastWrite, lastRead, got, mainPc>>

-----------------------------------------------------------------------------
(* ring_read: load both indices; when they agree it returns false and the  *)
(* consumer's while calls it again.                                        *)
ReadLoadLeavesLast(k) ==
  /\ Running /\ cons.pc = "load"
  /\ cons' = [cons EXCEPT !.seen = k,
                          !.view = headLog[k].view,
                          !.pc = IF Minus(headLog[k].val, TailIndex) <= 1 THEN "load" ELSE "slot"]
  /\ UNCHANGED <<buf, headLog, tailLog, prod, lastWrite, lastRead, got, mainPc>>

ReadLoad(k) ==
  /\ Running /\ cons.pc = "load"
  /\ cons' = [cons EXCEPT !.seen = k,
                          !.view = headLog[k].view,
                          !.pc = IF headLog[k].val = TailIndex THEN "load" ELSE "slot"]
  /\ UNCHANGED <<buf, headLog, tailLog, prod, lastWrite, lastRead, got, mainPc>>

(* ring_read: the plain load of the slot *)
ReadSlotNext ==
  /\ Running /\ cons.pc = "slot"
  /\ cons' = [cons EXCEPT !.v = buf[Slot(Wrapped(TailIndex + 1))], !.pc = "store"]
  /\ lastRead' = [lastRead EXCEPT ![Slot(TailIndex)] = cons.i + 1]
  /\ UNCHANGED <<buf, headLog, tailLog, prod, lastWrite, got, mainPc>>

ReadSlot ==
  /\ Running /\ cons.pc = "slot"
  /\ cons' = [cons EXCEPT !.v = buf[Slot(TailIndex)], !.pc = "store"]
  /\ lastRead' = [lastRead EXCEPT ![Slot(TailIndex)] = cons.i + 1]
  /\ UNCHANGED <<buf, headLog, tailLog, prod, lastWrite, got, mainPc>>

(* ring_read: the release store of tail + 1; the consumer's i++.  Its      *)
(* check(v == i) is the invariant InOrder.                                 *)
ReadStore ==
  /\ Running /\ cons.pc = "store"
  /\ tailLog' = Append(tailLog, [val |-> Wrapped(TailIndex + 1), view |-> Reads])
  /\ got' = Append(got, cons.v)
  /\ cons' = [cons EXCEPT !.i = @ + 1, !.pc = Loop(cons.i + 1)]
  /\ UNCHANGED <<buf, headLog, prod, lastWrite, lastRead, mainPc>>

-----------------------------------------------------------------------------
(* test_two_threads: create the consumer, create the producer, join both;  *)
(* then main frees the slots.                                              *)
MainCreateConsumer ==
  /\ mainPc = "createCons"
  /\ cons' = [cons EXCEPT !.pc = "load"]
  /\ mainPc' = "createProd"
  /\ UNCHANGED <<buf, headLog, tailLog, prod, lastWrite, lastRead, got>>

MainCreateProducer ==
  /\ mainPc = "createProd"
  /\ prod' = [prod EXCEPT !.pc = "load"]
  /\ mainPc' = "join"
  /\ UNCHANGED <<buf, headLog, tailLog, cons, lastWrite, lastRead, got>>

MainCreateFails ==
  /\ mainPc \in {"createCons", "createProd"}
  /\ mainPc' = "failed"
  /\ UNCHANGED <<buf, headLog, tailLog, prod, cons, lastWrite, lastRead, got>>

MainJoin ==
  /\ mainPc = "join"
  /\ prod.pc = "done" /\ cons.pc = "done"
  /\ mainPc' = "killed"
  /\ UNCHANGED <<buf, headLog, tailLog, prod, cons, lastWrite, lastRead, got>>

-----------------------------------------------------------------------------
Producer == WriteSlot \/ WriteStore \/ \E k \in prod.seen..Len(tailLog) : WriteLoad(k)
Consumer == ReadSlot \/ ReadStore \/ \E k \in cons.seen..Len(headLog) : ReadLoad(k)
Main == MainCreateConsumer \/ MainCreateProducer \/ MainCreateFails \/ MainJoin

Next == Producer \/ Consumer \/ Main

Spec == Init /\ [][Next]_vars

(* Both threads and main are scheduled, and a store becomes visible to a   *)
(* thread that keeps loading: it cannot read an old message for ever.      *)
Fairness ==
  /\ WF_vars(WriteSlot \/ WriteStore) /\ WF_vars(WriteLoad(Len(tailLog)))
  /\ WF_vars(ReadSlot \/ ReadStore) /\ WF_vars(ReadLoad(Len(headLog)))
  /\ WF_vars(Main)

FairSpec == Spec /\ Fairness

-----------------------------------------------------------------------------
Message == [val : 0..(Wrap - 1), view : Nat]

TypeOK ==
  /\ buf \in [Slots -> 0..NItems]
  /\ headLog \in Seq(Message) /\ headLog # <<>>
  /\ tailLog \in Seq(Message) /\ tailLog # <<>>
  /\ prod \in [pc : {"unborn", "load", "slot", "store", "done"},
               i : 0..NItems, seen : Nat \ {0}, view : Nat]
  /\ cons \in [pc : {"unborn", "load", "slot", "store", "done"},
               i : 0..NItems, seen : Nat \ {0}, view : Nat, v : 0..NItems]
  /\ lastWrite \in [Slots -> 0..NItems]
  /\ lastRead \in [Slots -> 0..NItems]
  /\ got \in Seq(0..NItems)
  /\ mainPc \in {"createCons", "createProd", "join", "killed", "failed"}

(* Two plain accesses of a slot, one of them a write, are always ordered   *)
(* by a release store and the acquire load that read it: the producer      *)
(* reuses a slot only after a read it knows of, and the consumer reads     *)
(* only what it knows to be written, however stale the indices they load.  *)
RaceFree ==
  /\ prod.pc = "slot" => lastRead[Slot(HeadIndex)] <= prod.view
  /\ cons.pc = "slot" => lastWrite[Slot(TailIndex)] <= cons.view

(* The consumer's check(v == i) (rb.c:149) never fails. *)
InOrder == cons.pc = "store" => cons.v = cons.i

(* Whatever the two threads know of each other, there are never more items *)
(* between the indices than slots, also when the indices have wrapped.     *)
NeverOverfull == Minus(HeadIndex, TailIndex) \in 0..Capacity

-----------------------------------------------------------------------------
(* The inductive invariant behind the four.                                *)
(* Both indices count: message k of a log stores index k-1 past Start.     *)
LogsCount ==
  /\ Len(headLog) = prod.i + 1
  /\ Len(tailLog) = cons.i + 1
  /\ \A k \in 1..Len(headLog) :
       headLog[k].val = Wrapped(Start + k - 1) /\ headLog[k].view = k - 1
  /\ \A k \in 1..Len(tailLog) :
       tailLog[k].val = Wrapped(Start + k - 1) /\ tailLog[k].view = k - 1

(* What the two sides know of each other bounds how far they may be apart. *)
Knowledge ==
  /\ prod.view = prod.seen - 1 /\ cons.view = cons.seen - 1
  /\ prod.view <= cons.i /\ cons.view <= prod.i
  /\ prod.i - prod.view <= Capacity
  /\ prod.pc \in {"slot", "store"} => prod.i - prod.view < Capacity
  /\ cons.i <= cons.view
  /\ cons.pc \in {"slot", "store"} => cons.i < cons.view

(* lastWrite and lastRead name accesses of the slot they are kept for. *)
WriteHistory ==
  \A s \in Slots :
    /\ lastWrite[s] <= Writes
    /\ lastWrite[s] > 0 => s = Slot(Start + lastWrite[s] - 1)
ReadHistory ==
  \A s \in Slots :
    /\ lastRead[s] <= Reads
    /\ lastRead[s] > 0 => s = Slot(Start + lastRead[s] - 1)

(* Every item written and not yet delivered is in its slot. *)
Undelivered ==
  \A j \in 0..(NItems - 1) : cons.i <= j /\ j < Writes => buf[Slot(Start + j)] = j

(* A thread is in its loop only while it has items left, and not before    *)
(* main has created it.                                                    *)
Places ==
  /\ prod.pc \in {"load", "slot", "store"} => prod.i < NItems
  /\ cons.pc \in {"load", "slot", "store"} => cons.i < NItems
  /\ mainPc \in {"createCons", "createProd"} => prod.pc = "unborn" /\ prod.i = 0
  /\ mainPc = "createCons" => cons.pc = "unborn" /\ cons.i = 0

IndInv == TypeOK /\ LogsCount /\ Knowledge /\ InOrder /\ Places
          /\ WriteHistory /\ ReadHistory /\ Undelivered

(* Every item crosses the ring: main gets past both joins. *)
Termination == <>(mainPc \in {"killed", "failed"})

-----------------------------------------------------------------------------
(* The ring as a queue: what lies between the two indices, in the order of *)
(* the slots.  A value enters at the store of head and leaves at the store *)
(* of tail.                                                                *)
Contents ==
  [j \in 1..Minus(HeadIndex, TailIndex) |-> buf[Slot(Wrapped(TailIndex + j - 1))]]

Fifo == INSTANCE BoundedFifo WITH Values <- 0..(NItems - 1), queue <- Contents

(* The ring is a bounded queue: nothing is lost, delivered twice, invented *)
(* or reordered, and at most Capacity values are inside.                   *)
ImplementsBoundedFifo == Fifo!Spec
=============================================================================
