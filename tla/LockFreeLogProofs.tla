-------------------------- MODULE LockFreeLogProofs --------------------------
(***************************************************************************)
(* Theorems about LockFreeLog, for any CPUs, readers, entries, slots and   *)
(* words.                                                                  *)
(***************************************************************************)
EXTENDS LockFreeLog, RingLemmas, FiniteSetTheorems

(* Slots and tickets of the lock-free log.                                 *)
LEMMA SlotOf == \A t \in Nat : Slot(t) \in Slots
<1> TAKE t \in Nat
<1>1. (t % LogSlots) \in 0..(LogSlots - 1)
  BY LogSlotsAssumption
<1> QED
  BY <1>1 DEF Slot, Slots

(* The last LOG_SLOTS tickets have different slots, ... *)
LEMMA OwnSlot ==
  ASSUME NEW h \in Nat, NEW t \in Nat, NEW u \in Nat, t < h, u < h,
         h <= t + LogSlots, h <= u + LogSlots, Slot(t) = Slot(u)
  PROVE  t = u
<1>1. -LogSlots < t - u /\ t - u < LogSlots
  BY LogSlotsAssumption
<1>2. (t % LogSlots) = (u % LogSlots)
  BY DEF Slot
<1>3. t \in Int /\ u \in Int
  OBVIOUS
<1> QED
  BY <1>1, <1>2, <1>3, ModInjective, LogSlotsAssumption, Zenon

(* ... and the next one has the slot of the first of them. *)
LEMMA NextSlot == \A t \in Nat : Slot(t + LogSlots) = Slot(t)
<1> TAKE t \in Nat
<1>1. t + LogSlots = t + LogSlots * 1
  BY LogSlotsAssumption
<1>2. ((t + LogSlots * 1) % LogSlots) = (t % LogSlots)
  <2>1. t \in Int /\ 1 \in Int
    OBVIOUS
  <2> QED
    BY <2>1, ModCongruent, LogSlotsAssumption, Zenon
<1> QED
  BY <1>1, <1>2 DEF Slot

LEMMA Parity == \A t \in Nat : /\ Writing(t) % 2 = 1 /\ Committed(t) % 2 = 0
                               /\ Writing(t) \in Nat /\ Committed(t) \in Nat \ {0}
  BY DEF Writing, Committed

(* Readers do not see a slot's seq go back. *)
LEMMA SeqMoves ==
  ASSUME TypeOK, NEW s \in Slots, NEW v \in Nat, v > seq[s], seq' = [seq EXCEPT ![s] = v], rd' = rd,
         NEW r \in Readers, ReaderInv(r)
  PROVE  ReaderInv(r)'
<1> DEFINE T == rd[r].ticket
<1>1. T \in Nat /\ Slot(T) \in Slots /\ seq[Slot(T)] \in Nat /\ Committed(T) \in Nat /\ seq[s] \in Nat
  BY SlotOf, Parity DEF TypeOK
<1>2. CASE Slot(T) = s
  <2>1. seq'[Slot(T)] = v
    BY <1>1, <1>2 DEF TypeOK
  <2>2. rd[r].pc = "copy" => v > Committed(T)
    BY <1>1, <1>2 DEF ReaderInv
  <2> QED
    BY <1>1, <2>1, <2>2 DEF ReaderInv
<1>3. CASE Slot(T) # s
  BY <1>1, <1>3 DEF ReaderInv, TypeOK
<1> QED
  BY <1>2, <1>3

(* log_write's four steps *)
LEMMA ReserveStep ==
  ASSUME TypeOK, UnlappedInv, NEW c \in Cpus, Reserve(c), ~lapped'
  PROVE  UnlappedInv'
<1>1. /\ head \in Nat /\ head' = head + 1 /\ LogSlots \in Nat /\ LogSlots > 0
      /\ UNCHANGED <<seq, entry, rd>> /\ seq \in [Slots -> Nat]
  BY LogSlotsAssumption DEF Reserve, TypeOK
<1>2. /\ ~Busy(c) /\ wr'[c].pc = "mark" /\ wr'[c].ticket = head
      /\ \A d \in Cpus : d # c => wr'[d] = wr[d]
      /\ \A d \in Cpus : Busy(d) => Slot(wr[d].ticket) # Slot(head)
      /\ \A d \in Cpus : wr[d].ticket \in Nat
  BY DEF Reserve, TypeOK, Busy
<1>3. Busy(c)' /\ \A d \in Cpus : d # c => (Busy(d)' <=> Busy(d))
  BY <1>2 DEF Busy
<1>4. ASSUME NEW s \in Slots PROVE SlotInv(s)'
  BY <1>1 DEF UnlappedInv, SlotInv
<1>5. WriterInv(c)'
  <2>1. seq[Slot(head)] <= 2 * head /\ seq[Slot(head)] \in Nat
    BY <1>1, SlotOf DEF UnlappedInv, SlotInv
  <2>2. head < head' /\ head' <= head + LogSlots /\ seq'[Slot(head)] < Writing(head)
    BY <1>1, <2>1 DEF Writing
  <2> QED
    BY <1>2, <2>2 DEF WriterInv
<1>6. ASSUME NEW d \in Cpus, d # c PROVE WriterInv(d)'
  <2> SUFFICES ASSUME Busy(d) PROVE WriterInv(d)'
    BY <1>3, <1>6 DEF WriterInv
  <2>1. WriterInv(d) /\ wr[d].ticket \in Nat
    BY <1>2 DEF UnlappedInv
  <2>2. head # wr[d].ticket + LogSlots
    BY <1>2, <2>1, NextSlot
  <2>3. wr[d].ticket < head' /\ head' <= wr[d].ticket + LogSlots
    BY <1>1, <2>1, <2>2 DEF WriterInv
  <2> QED
    BY <1>1, <1>2, <1>6, <2>1, <2>3 DEF WriterInv
<1>7. Apart'
  <2> SUFFICES ASSUME NEW d \in Cpus, NEW e \in Cpus, Busy(d)', Busy(e)',
                      Slot(wr'[d].ticket) = Slot(wr'[e].ticket)
               PROVE  d = e
    BY DEF Apart, Slot
  <2>1. CASE d # c /\ e # c
    BY <1>2, <1>3, <2>1 DEF UnlappedInv, Apart
  <2> QED
    BY <1>2, <1>3, <2>1
<1>8. ASSUME NEW t \in 0..(head' - 1) PROVE TicketInv(t)'
  <2>1. CASE t = head
    BY <1>2, <1>3, <2>1 DEF TicketInv
  <2>2. CASE t < head
    <3>1. TicketInv(t) /\ t \in Nat
      BY <1>1, <2>2 DEF UnlappedInv
    <3>2. CASE t + LogSlots < head
      BY <1>1, <3>1, <3>2 DEF TicketInv
    <3>3. CASE seq[Slot(t)] = Committed(t)
      BY <1>1, <3>3 DEF TicketInv, Slot, Committed
    <3>4. CASE \E d \in Cpus : Busy(d) /\ wr[d].ticket = t
      BY <1>2, <1>3, <3>4 DEF TicketInv
    <3> QED
      BY <3>1, <3>2, <3>3, <3>4 DEF TicketInv
  <2> QED
    BY <1>1, <2>1, <2>2
<1>9. \A r \in Readers : ReaderInv(r)'
  BY <1>1 DEF UnlappedInv, ReaderInv
<1> QED
  BY <1>4, <1>5, <1>6, <1>7, <1>8, <1>9 DEF UnlappedInv

LEMMA MarkStep ==
  ASSUME TypeOK, UnlappedInv, NEW c \in Cpus, Mark(c)
  PROVE  UnlappedInv'
<1> DEFINE u == wr[c].ticket
           z == Slot(u)
<1>1. /\ u \in Nat /\ z \in Slots /\ Busy(c) /\ WriterInv(c) /\ head \in Nat
      /\ u < head /\ head <= u + LogSlots /\ seq[z] < Writing(u) /\ Writing(u) \in Nat
  BY SlotOf, Parity DEF Mark, TypeOK, UnlappedInv, Busy, WriterInv
<1>2. /\ UNCHANGED <<head, entry, rd>> /\ seq' = [seq EXCEPT ![z] = Writing(u)]
      /\ seq'[z] = Writing(u) /\ \A s \in Slots : s # z => seq'[s] = seq[s]
      /\ wr'[c].pc = "copy" /\ wr'[c].ticket = u /\ wr'[c].w = 0
      /\ \A d \in Cpus : d # c => wr'[d] = wr[d]
  BY <1>1 DEF Mark, TypeOK
<1>3. \A d \in Cpus : (Busy(d)' <=> Busy(d)) /\ wr'[d].ticket = wr[d].ticket /\ wr[d].ticket \in Nat
  BY <1>1, <1>2 DEF Busy, TypeOK
<1>4. ASSUME NEW s \in Slots PROVE SlotInv(s)'
  <2>1. CASE s = z
    <3>1. Writing(u) <= 2 * head /\ Writing(u) % 2 = 1
      BY <1>1, Parity DEF Writing
    <3> QED
      BY <1>2, <2>1, <3>1 DEF SlotInv
  <2>2. CASE s # z
    BY <1>2, <2>2 DEF UnlappedInv, SlotInv
  <2> QED
    BY <2>1, <2>2
<1>5. WriterInv(c)'
  BY <1>1, <1>2 DEF WriterInv
<1>6. ASSUME NEW d \in Cpus, d # c PROVE WriterInv(d)'
  <2> SUFFICES ASSUME Busy(d) PROVE WriterInv(d)'
    BY <1>3 DEF WriterInv
  <2>1. Slot(wr[d].ticket) # z /\ Slot(wr[d].ticket) \in Slots
    BY <1>1, <1>3, <1>6, SlotOf DEF UnlappedInv, Apart
  <2>2. WriterInv(d) /\ wr'[d] = wr[d]
    BY <1>2, <1>6 DEF UnlappedInv
  <2>3. /\ seq'[Slot(wr[d].ticket)] = seq[Slot(wr[d].ticket)]
        /\ entry'[Slot(wr[d].ticket)] = entry[Slot(wr[d].ticket)] /\ head' = head
    BY <1>2, <2>1
  <2> QED
    BY <2>2, <2>3 DEF WriterInv, Busy
<1>7. Apart'
  BY <1>3 DEF UnlappedInv, Apart
<1>8. ASSUME NEW t \in 0..(head' - 1) PROVE TicketInv(t)'
  <2>1. TicketInv(t) /\ t \in Nat /\ t < head /\ Slot(t) \in Slots
    BY <1>1, <1>2, SlotOf DEF UnlappedInv
  <2>2. CASE t + LogSlots < head
    BY <1>2, <2>2 DEF TicketInv
  <2>3. CASE ~(t + LogSlots < head) /\ Slot(t) = z
    <3>1. head <= t + LogSlots
      BY <1>1, <2>1, <2>3, LogSlotsAssumption
    <3>2. t = u
      BY <1>1, <2>1, <2>3, <3>1, OwnSlot
    <3>3. Busy(c)' /\ wr'[c].ticket = t
      BY <1>1, <1>3, <3>2
    <3> QED
      BY <3>3 DEF TicketInv
  <2>4. CASE Slot(t) # z
    <3>1. seq'[Slot(t)] = seq[Slot(t)] /\ head' = head
      BY <1>2, <2>1, <2>4
    <3> QED
      BY <1>2, <1>3, <2>1, <2>4, <3>1 DEF TicketInv
  <2> QED
    BY <2>2, <2>3, <2>4
<1>9. \A r \in Readers : ReaderInv(r)'
  BY <1>1, <1>2, SeqMoves DEF UnlappedInv, TypeOK
<1> QED
  BY <1>4, <1>5, <1>6, <1>7, <1>8, <1>9 DEF UnlappedInv

(* A seq belongs to one ticket. *)
LEMMA CommittedInjective ==
  ASSUME NEW a \in Int, NEW b \in Int, Committed(a) = Committed(b)
  PROVE  a = b
BY DEF Committed

(* The words copied before the next one. *)
LEMMA WordsBefore ==
  ASSUME NEW b \in Nat, b + 1 \in 1..Words, Words \in Nat, NEW w \in 1..(b + 1), w # b + 1
  PROVE  w \in 1..b /\ w \in 1..Words
OBVIOUS

LEMMA CopyWordStep ==
  ASSUME TypeOK, UnlappedInv, NEW c \in Cpus, Copy(c)
  PROVE  UnlappedInv'
<1> DEFINE u == wr[c].ticket
           z == Slot(u)
           n == wr[c].w + 1
<1>1. /\ u \in Nat /\ z \in Slots /\ Busy(c) /\ WriterInv(c)
      /\ u < head /\ head <= u + LogSlots /\ seq[z] = Writing(u)
      /\ n \in 1..Words /\ wr[c].w \in Nat /\ Words \in Nat
  <2>1. wr[c] \in [pc : {"loop", "mark", "copy"}, i : 0..Entries, ticket : Nat, w : 0..Words]
    BY DEF TypeOK
  <2>2. wr[c].w \in 0..Words /\ wr[c].w < Words /\ u \in Nat /\ z \in Slots
    BY <2>1, SlotOf DEF Copy
  <2>3. n \in 1..Words /\ wr[c].w \in Nat /\ Words \in Nat
    BY <2>2, WordsAssumption
  <2> QED
    BY <2>2, <2>3 DEF Copy, UnlappedInv, Busy, WriterInv
<1>2. /\ UNCHANGED <<head, seq, rd>> /\ \A s \in Slots : s # z => entry'[s] = entry[s]
      /\ entry'[z] = [entry[z] EXCEPT ![n] = u] /\ entry[z] \in [1..Words -> Int]
      /\ wr'[c].pc = "copy" /\ wr'[c].ticket = u /\ wr'[c].w = n
      /\ \A d \in Cpus : d # c => wr'[d] = wr[d]
  BY <1>1 DEF Copy, TypeOK
<1>3. \A d \in Cpus : (Busy(d)' <=> Busy(d)) /\ wr'[d].ticket = wr[d].ticket /\ wr[d].ticket \in Nat
  BY <1>1, <1>2 DEF Busy, TypeOK
<1>4. ASSUME NEW s \in Slots PROVE SlotInv(s)'
  <2>1. CASE s = z
    <3>1. seq[z] % 2 = 1
      BY <1>1, Parity
    <3> QED
      BY <1>2, <2>1, <3>1 DEF UnlappedInv, SlotInv
  <2>2. CASE s # z
    <3>1. SlotInv(s) /\ entry'[s] = entry[s]
      BY <1>2, <2>2 DEF UnlappedInv
    <3> QED
      BY <1>2, <3>1 DEF SlotInv
  <2> QED
    BY <2>1, <2>2
<1>5. WriterInv(c)'
  <2>1. ASSUME NEW w \in 1..n PROVE entry'[z][w] = u
    <3>1. CASE w = n
      BY <1>1, <1>2, <3>1
    <3>2. CASE w # n
      <4>1. w \in 1..wr[c].w /\ w \in 1..Words
        BY <1>1, <3>2, WordsBefore, Zenon
      <4>2. entry[z][w] = u
        BY <1>1, <4>1 DEF WriterInv, Copy
      <4> QED
        BY <1>2, <3>2, <4>1, <4>2
    <3> QED
      BY <3>1, <3>2
  <2> QED
    BY <1>1, <1>2, <2>1 DEF WriterInv
<1>6. ASSUME NEW d \in Cpus, d # c PROVE WriterInv(d)'
  <2> SUFFICES ASSUME Busy(d) PROVE WriterInv(d)'
    BY <1>3 DEF WriterInv
  <2>1. Slot(wr[d].ticket) # z /\ Slot(wr[d].ticket) \in Slots
    BY <1>1, <1>3, <1>6, SlotOf DEF UnlappedInv, Apart
  <2>2. WriterInv(d) /\ wr'[d] = wr[d]
    BY <1>2, <1>6 DEF UnlappedInv
  <2>3. /\ seq'[Slot(wr[d].ticket)] = seq[Slot(wr[d].ticket)]
        /\ entry'[Slot(wr[d].ticket)] = entry[Slot(wr[d].ticket)] /\ head' = head
    BY <1>2, <2>1
  <2> QED
    BY <2>2, <2>3 DEF WriterInv, Busy
<1>7. Apart'
  BY <1>3 DEF UnlappedInv, Apart
<1>8. \A t \in 0..(head' - 1) : TicketInv(t)'
  <2> TAKE t \in 0..(head' - 1)
  <2>1. TicketInv(t)
    BY <1>2 DEF UnlappedInv
  <2> QED
    BY <1>2, <1>3, <2>1 DEF TicketInv
<1>9. \A r \in Readers : ReaderInv(r)'
  BY <1>2 DEF UnlappedInv, ReaderInv
<1> QED
  BY <1>4, <1>5, <1>6, <1>7, <1>8, <1>9 DEF UnlappedInv

LEMMA PublishStep ==
  ASSUME TypeOK, UnlappedInv, NEW c \in Cpus, Publish(c)
  PROVE  UnlappedInv'
<1> DEFINE u == wr[c].ticket
           z == Slot(u)
<1>1. /\ u \in Nat /\ z \in Slots /\ Busy(c) /\ WriterInv(c) /\ head \in Nat
      /\ u < head /\ head <= u + LogSlots /\ seq[z] = Writing(u) /\ Committed(u) \in Nat
      /\ \A w \in 1..Words : entry[z][w] = u
  BY SlotOf, Parity DEF Publish, TypeOK, UnlappedInv, Busy, WriterInv
<1>2. /\ UNCHANGED <<head, entry, rd>> /\ seq' = [seq EXCEPT ![z] = Committed(u)]
      /\ seq'[z] = Committed(u) /\ \A s \in Slots : s # z => seq'[s] = seq[s]
      /\ wr'[c].pc = "loop" /\ \A d \in Cpus : d # c => wr'[d] = wr[d]
  BY <1>1 DEF Publish, TypeOK
<1>3. ~Busy(c)' /\ \A d \in Cpus : (d # c => (Busy(d)' <=> Busy(d))) /\ wr[d].ticket \in Nat
  BY <1>1, <1>2 DEF Busy, TypeOK
<1>4. ASSUME NEW s \in Slots PROVE SlotInv(s)'
  <2>1. CASE s = z
    <3>1. Committed(u) <= 2 * head
      BY <1>1 DEF Committed
    <3>2. \A w \in 1..Words : Committed(entry'[z][w]) = seq'[z]
      BY <1>1, <1>2
    <3> QED
      BY <1>2, <2>1, <3>1, <3>2 DEF SlotInv
  <2>2. CASE s # z
    BY <1>2, <2>2 DEF UnlappedInv, SlotInv
  <2> QED
    BY <2>1, <2>2
<1>5. WriterInv(c)'
  BY <1>3 DEF WriterInv
<1>6. ASSUME NEW d \in Cpus, d # c PROVE WriterInv(d)'
  <2> SUFFICES ASSUME Busy(d) PROVE WriterInv(d)'
    BY <1>3, <1>6 DEF WriterInv
  <2>1. Slot(wr[d].ticket) # z /\ Slot(wr[d].ticket) \in Slots
    BY <1>1, <1>3, <1>6, SlotOf DEF UnlappedInv, Apart
  <2>2. WriterInv(d) /\ wr'[d] = wr[d]
    BY <1>2, <1>6 DEF UnlappedInv
  <2>3. /\ seq'[Slot(wr[d].ticket)] = seq[Slot(wr[d].ticket)]
        /\ entry'[Slot(wr[d].ticket)] = entry[Slot(wr[d].ticket)] /\ head' = head
    BY <1>2, <2>1
  <2> QED
    BY <2>2, <2>3 DEF WriterInv, Busy
<1>7. Apart'
  BY <1>2, <1>3 DEF UnlappedInv, Apart
<1>8. ASSUME NEW t \in 0..(head' - 1) PROVE TicketInv(t)'
  <2>1. TicketInv(t) /\ t \in Nat /\ t < head /\ Slot(t) \in Slots
    BY <1>1, <1>2, SlotOf DEF UnlappedInv
  <2>2. CASE t + LogSlots < head
    BY <1>2, <2>2 DEF TicketInv
  <2>3. CASE ~(t + LogSlots < head) /\ Slot(t) = z
    <3>1. head <= t + LogSlots
      BY <1>1, <2>1, <2>3, LogSlotsAssumption
    <3>2. t = u
      BY <1>1, <2>1, <2>3, <3>1, OwnSlot
    <3> QED
      BY <1>2, <3>2 DEF TicketInv
  <2>4. CASE Slot(t) # z
    <3>1. seq'[Slot(t)] = seq[Slot(t)] /\ head' = head
      BY <1>2, <2>1, <2>4
    <3> QED
      BY <1>2, <1>3, <2>1, <2>4, <3>1 DEF TicketInv
  <2> QED
    BY <2>2, <2>3, <2>4
<1>9. \A r \in Readers : ReaderInv(r)'
  <2>1. Committed(u) > seq[z]
    BY <1>1 DEF Writing, Committed
  <2> QED
    BY <1>1, <1>2, <2>1, SeqMoves DEF UnlappedInv
<1> QED
  BY <1>4, <1>5, <1>6, <1>7, <1>8, <1>9 DEF UnlappedInv

(* log_read: only the reader changes. *)
LEMMA ReadStep ==
  ASSUME TypeOK, UnlappedInv, NEW r \in Readers, UNCHANGED <<head, seq, entry, wr>>,
         \A q \in Readers : q # r => rd'[q] = rd[q], ReaderInv(r)'
  PROVE  UnlappedInv'
<1>1. \A q \in Readers : ReaderInv(q)'
  <2> TAKE q \in Readers
  <2>1. CASE q # r
    <3>1. ReaderInv(q) /\ rd'[q] = rd[q] /\ seq' = seq
      BY <2>1 DEF UnlappedInv
    <3> QED
      BY <3>1 DEF ReaderInv
  <2> QED
    BY <2>1
<1>2. (\A s \in Slots : SlotInv(s)') /\ (\A c \in Cpus : WriterInv(c)') /\ Apart'
  BY DEF UnlappedInv, SlotInv, WriterInv, Busy, Apart
<1>3. \A t \in 0..(head' - 1) : TicketInv(t)'
  BY DEF UnlappedInv, TicketInv, Busy
<1> QED
  BY <1>1, <1>2, <1>3 DEF UnlappedInv

LEMMA ReadFirstStep ==
  ASSUME TypeOK, UnlappedInv, NEW r \in Readers, NEW t \in Tickets, ReadFirst(r, t)
  PROVE  UnlappedInv'
<1>1. /\ rd'[r] = [pc |-> "copy", ticket |-> t, w |-> 0, out |-> Blank]
      /\ \A q \in Readers : q # r => rd'[q] = rd[q]
  BY DEF ReadFirst, TypeOK
<1>2. seq[Slot(t)] \in Nat
  <2>1. t \in Nat
    BY DEF Tickets
  <2> QED
    BY <2>1, SlotOf DEF TypeOK
<1>3. ReaderInv(r)'
  <2>1. rd'[r].pc = "copy" /\ rd'[r].ticket = t /\ rd'[r].w = 0
    BY <1>1
  <2>2. seq'[Slot(t)] = Committed(t) /\ seq'[Slot(t)] \in Nat
    BY <1>2 DEF ReadFirst
  <2>3. \A x, y \in Nat : x = y => x >= y
    OBVIOUS
  <2>4. seq'[Slot(t)] >= Committed(t)
    BY <2>2, <2>3, ZenonT(30)
  <2> QED
    BY <2>1, <2>4 DEF ReaderInv
<1> QED
  BY <1>1, <1>3, ReadStep DEF ReadFirst

LEMMA ReadCopyStep ==
  ASSUME TypeOK, UnlappedInv, NEW r \in Readers, ReadCopy(r)
  PROVE  UnlappedInv'
<1> DEFINE T == rd[r].ticket
           n == rd[r].w + 1
<1>1. /\ T \in Nat /\ Slot(T) \in Slots /\ rd[r].w \in Nat /\ n \in 1..Words /\ Words \in Nat
      /\ rd[r].out \in [1..Words -> Int]
  <2>1. rd[r] \in [pc : {"idle", "copy", "ok"}, ticket : Nat, w : 0..Words, out : [1..Words -> Int]]
    BY DEF TypeOK
  <2>2. rd[r].w \in 0..Words /\ rd[r].w < Words /\ T \in Nat /\ rd[r].out \in [1..Words -> Int]
    BY <2>1 DEF ReadCopy
  <2>3. n \in 1..Words /\ rd[r].w \in Nat /\ Words \in Nat
    BY <2>2, WordsAssumption
  <2> QED
    BY <2>2, <2>3, SlotOf
<1>2. /\ rd'[r].pc = "copy" /\ rd'[r].ticket = T /\ rd'[r].w = n
      /\ rd'[r].out = [rd[r].out EXCEPT ![n] = entry[Slot(T)][n]]
      /\ \A q \in Readers : q # r => rd'[q] = rd[q]
  BY DEF ReadCopy, TypeOK
<1>3. ASSUME seq[Slot(T)] = Committed(T), NEW w \in 1..n PROVE rd'[r].out[w] = T
  <2>1. CASE w = n
    <3>1. Committed(entry[Slot(T)][n]) = Committed(T)
      <4>0. Committed(T) # 0 /\ Committed(T) % 2 = 0
        BY <1>1, Parity
      <4>1. seq[Slot(T)] # 0 /\ seq[Slot(T)] % 2 = 0
        BY <1>3, <4>0, Zenon
      <4>2. SlotInv(Slot(T))
        BY <1>1 DEF UnlappedInv
      <4> QED
        BY <1>1, <1>3, <4>1, <4>2, Zenon DEF SlotInv
    <3>2. entry[Slot(T)][n] = T
      <4>1. entry[Slot(T)][n] \in Int /\ T \in Int
        BY <1>1 DEF TypeOK
      <4> QED
        BY <3>1, <4>1, CommittedInjective, Zenon
    <3> QED
      BY <1>1, <1>2, <2>1, <3>2
  <2>2. CASE w # n
    <3>1. w \in 1..rd[r].w /\ w \in 1..Words
      BY <1>1, <2>2, WordsBefore, Zenon
    <3>2. rd[r].out[w] = T
      <4>1. ReaderInv(r)
        BY DEF UnlappedInv
      <4>2. rd[r].pc = "copy"
        BY ZenonT(30) DEF ReadCopy
      <4> QED
        BY <1>3, <3>1, <4>1, <4>2 DEF ReaderInv
    <3> QED
      BY <1>1, <1>2, <2>2, <3>1, <3>2, SMTT(30)
  <2> QED
    BY <2>1, <2>2
<1>4. ReaderInv(r)'
  BY <1>2, <1>3 DEF UnlappedInv, ReaderInv, ReadCopy
<1> QED
  BY <1>2, <1>4, ReadStep DEF ReadCopy

LEMMA ReadSecondStep ==
  ASSUME TypeOK, UnlappedInv, NEW r \in Readers, ReadSecond(r) \/ ReadAgain(r)
  PROVE  UnlappedInv'
<1>1. /\ rd'[r].ticket = rd[r].ticket /\ rd'[r].out = rd[r].out
      /\ \A q \in Readers : q # r => rd'[q] = rd[q]
  BY DEF ReadSecond, ReadAgain, TypeOK
<1>2. \/ rd'[r].pc = "idle"
      \/ /\ rd'[r].pc = "ok" /\ seq[Slot(rd[r].ticket)] = Committed(rd[r].ticket)
         /\ rd[r].pc = "copy" /\ rd[r].w = Words
  BY DEF ReadSecond, ReadAgain, TypeOK
<1>3. ReaderInv(r)'
  BY <1>1, <1>2 DEF UnlappedInv, ReaderInv
<1> QED
  BY <1>1, <1>3, ReadStep DEF ReadSecond, ReadAgain

-----------------------------------------------------------------------------
(* Types *)
WriterType == [pc : {"loop", "mark", "copy"}, i : 0..Entries, ticket : Nat, w : 0..Words]
ReaderType == [pc : {"idle", "copy", "ok"}, ticket : Nat, w : 0..Words, out : [1..Words -> Int]]

LEMMA WriterTypes ==
  ASSUME TypeOK, CountInv, NEW c \in Cpus, Worker(c)
  PROVE  TypeOK'
<1> DEFINE x == wr[c]
<1>1. /\ x \in WriterType /\ x.ticket \in Nat /\ x.i \in 0..Entries /\ x.w \in 0..Words
      /\ Slot(x.ticket) \in Slots /\ Words \in Nat /\ 0 \in 0..Words /\ Entries \in Nat
      /\ Writing(x.ticket) \in Nat /\ Committed(x.ticket) \in Nat
  <2>1. x \in WriterType
    BY DEF TypeOK, WriterType
  <2>2. x.ticket \in Nat /\ x.i \in 0..Entries /\ x.w \in 0..Words
    BY <2>1 DEF WriterType
  <2>3. Words \in Nat /\ 0 \in 0..Words /\ Entries \in Nat
    BY WordsAssumption, EntriesAssumption
  <2>4. Writing(x.ticket) \in Nat /\ Committed(x.ticket) \in Nat
    BY <2>2, Parity
  <2> QED
    BY <2>1, <2>2, <2>3, <2>4, SlotOf
<1>2. ASSUME NEW y \in WriterType, wr' = [wr EXCEPT ![c] = y] PROVE wr' \in [Cpus -> WriterType]
  BY <1>2 DEF TypeOK, WriterType
<1>3. CASE Reserve(c)
  <2>1. wr' = [wr EXCEPT ![c] = [x EXCEPT !.pc = "mark", !.ticket = head]] /\ head \in Nat
    BY <1>3 DEF Reserve, TypeOK
  <2>2. [x EXCEPT !.pc = "mark", !.ticket = head] \in WriterType
    BY <1>1, <2>1 DEF WriterType
  <2>3. wr' \in [Cpus -> WriterType]
    BY <1>2, <2>1, <2>2
  <2>4. head' \in Nat /\ lapped' \in BOOLEAN
    BY <1>3 DEF Reserve, TypeOK
  <2> QED
    BY <1>3, <2>3, <2>4 DEF Reserve, TypeOK, WriterType
<1>4. CASE Mark(c)
  <2>1. wr' = [wr EXCEPT ![c] = [x EXCEPT !.pc = "copy", !.w = 0]]
    BY <1>4 DEF Mark, TypeOK
  <2>2. [x EXCEPT !.pc = "copy", !.w = 0] \in WriterType
    BY <1>1 DEF WriterType
  <2>3. wr' \in [Cpus -> WriterType]
    BY <1>2, <2>1, <2>2
  <2> QED
    BY <1>1, <1>4, <2>3 DEF Mark, TypeOK, WriterType
<1>5. CASE Copy(c)
  <2>0. x.w + 1 \in 0..Words /\ x.w + 1 \in 1..Words /\ x.ticket \in Int
    BY <1>1, <1>5 DEF Copy
  <2>1. wr' = [wr EXCEPT ![c] = [x EXCEPT !.w = x.w + 1]]
    BY <1>5 DEF Copy, TypeOK
  <2>2. [x EXCEPT !.w = x.w + 1] \in WriterType
    BY <1>1, <2>0 DEF WriterType
  <2>3. wr' \in [Cpus -> WriterType]
    BY <1>2, <2>1, <2>2
  <2>4. entry' \in [Slots -> [1..Words -> Int]]
    BY <1>1, <1>5, <2>0 DEF Copy, TypeOK
  <2>5. UNCHANGED <<head, seq, rd, lapped>>
    BY <1>5 DEF Copy
  <2> QED
    BY <2>3, <2>4, <2>5 DEF TypeOK, WriterType
<1>6. CASE Publish(c)
  <2>0. x.i + 1 \in 0..Entries
    BY <1>1, <1>6 DEF CountInv, Busy, Publish
  <2>1. wr' = [wr EXCEPT ![c] = [x EXCEPT !.pc = "loop", !.i = x.i + 1]]
    BY <1>6 DEF Publish, TypeOK
  <2>2. [x EXCEPT !.pc = "loop", !.i = x.i + 1] \in WriterType
    BY <1>1, <2>0 DEF WriterType
  <2>3. wr' \in [Cpus -> WriterType]
    BY <1>2, <2>1, <2>2
  <2> QED
    BY <1>1, <1>6, <2>3 DEF Publish, TypeOK, WriterType
<1> QED
  BY <1>3, <1>4, <1>5, <1>6 DEF Worker

LEMMA ReaderTypes ==
  ASSUME TypeOK, NEW r \in Readers, Reader(r)
  PROVE  TypeOK'
<1> DEFINE x == rd[r]
<1>1. /\ x \in ReaderType /\ x.ticket \in Nat /\ x.w \in 0..Words /\ x.out \in [1..Words -> Int]
      /\ Words \in Nat /\ 0 \in 0..Words
  <2>1. x \in ReaderType
    BY DEF TypeOK, ReaderType
  <2>2. x.ticket \in Nat /\ x.w \in 0..Words /\ x.out \in [1..Words -> Int]
    BY <2>1 DEF ReaderType
  <2> QED
    BY <2>1, <2>2, WordsAssumption
<1>2. ASSUME NEW y \in ReaderType, rd' = [rd EXCEPT ![r] = y] PROVE rd' \in [Readers -> ReaderType]
  BY <1>2 DEF TypeOK, ReaderType
<1>3. UNCHANGED <<head, seq, entry, wr, lapped>>
  BY DEF Reader, ReadFirst, ReadCopy, ReadSecond, ReadAgain
<1>4. ASSUME NEW t \in Tickets, ReadFirst(r, t) PROVE rd' \in [Readers -> ReaderType]
  <2>1. [pc |-> "copy", ticket |-> t, w |-> 0, out |-> Blank] \in ReaderType
    BY <1>1 DEF ReaderType, Tickets, Blank
  <2> QED
    BY <1>2, <1>4, <2>1 DEF ReadFirst
<1>5. ASSUME ReadCopy(r) PROVE rd' \in [Readers -> ReaderType]
  <2> DEFINE n == x.w + 1
             word == entry[Slot(x.ticket)][n]
  <2>1. n \in 0..Words /\ n \in 1..Words
    BY <1>1, <1>5 DEF ReadCopy
  <2>2. word \in Int
    <3>1. entry[Slot(x.ticket)] \in [1..Words -> Int]
      BY <1>1, SlotOf, SMTT(30) DEF TypeOK
    <3> QED
      BY <2>1, <3>1
  <2>3. [x.out EXCEPT ![n] = word] \in [1..Words -> Int]
    BY <1>1, <2>1, <2>2
  <2>4. rd' = [rd EXCEPT ![r] = [x EXCEPT !.out = [x.out EXCEPT ![n] = word], !.w = n]]
    BY <1>5 DEF ReadCopy, TypeOK
  <2>5. [x EXCEPT !.out = [x.out EXCEPT ![n] = word], !.w = n] \in ReaderType
    BY <1>1, <2>1, <2>3 DEF ReaderType
  <2> QED
    BY <1>2, <2>4, <2>5
<1>6. ASSUME ReadSecond(r) \/ ReadAgain(r) PROVE rd' \in [Readers -> ReaderType]
  <2>1. PICK next \in {"ok", "idle"} : rd' = [rd EXCEPT ![r] = [x EXCEPT !.pc = next]]
    BY <1>6 DEF ReadSecond, ReadAgain, TypeOK
  <2>2. [x EXCEPT !.pc = next] \in ReaderType
    BY <1>1 DEF ReaderType
  <2> QED
    BY <1>2, <2>1, <2>2
<1>7. rd' \in [Readers -> ReaderType]
  BY <1>4, <1>5, <1>6 DEF Reader
<1> QED
  BY <1>3, <1>7 DEF TypeOK, ReaderType

(* head counts the turns begun. *)
LEMMA CountStep ==
  ASSUME TypeOK, CountInv, NEW c \in Cpus, Worker(c)
  PROVE  CountInv'
<1> DEFINE x == wr[c]
           All == Cpus \X (0..(Entries - 1))
<1>1. /\ head \in Nat /\ x.i \in Nat /\ Entries \in Nat
      /\ IsFiniteSet(All) /\ IsFiniteSet(Reserved)
      /\ \A e \in All : e = <<e[1], e[2]>> /\ e[1] \in Cpus /\ e[2] \in Nat
  <2>1. x \in WriterType /\ head \in Nat
    BY DEF TypeOK, WriterType
  <2>2. x.i \in Nat /\ Entries \in Nat
    BY <2>1, EntriesAssumption DEF WriterType
  <2>3. IsFiniteSet(0..(Entries - 1))
    BY <2>2, FS_Interval
  <2>4. IsFiniteSet(All)
    BY <2>3, CpusAssumption, FS_Product, Zenon
  <2>5. Reserved \in SUBSET All
    BY DEF Reserved
  <2>6. IsFiniteSet(Reserved)
    BY <2>4, <2>5, FS_Subset
  <2> QED
    BY <2>1, <2>2, <2>4, <2>6
<1>2. \A d \in Cpus : d # c => wr'[d] = wr[d] /\ (Busy(d)' <=> Busy(d))
  BY DEF Worker, Reserve, Mark, Copy, Publish, TypeOK, Busy
<1>3. CASE Reserve(c)
  <2>1. x.i < Entries /\ ~Busy(c) /\ wr'[c].i = x.i /\ Busy(c)' /\ head' = head + 1
    BY <1>3 DEF Reserve, Busy, TypeOK
  <2>2. <<c, x.i>> \in All /\ <<c, x.i>> \notin Reserved
    BY <1>1, <2>1 DEF Reserved
  <2>3. ASSUME NEW e \in All PROVE e \in Reserved' <=> e \in Reserved \/ e = <<c, x.i>>
    <3>1. CASE e[1] = c
      BY <1>1, <2>1, <3>1 DEF Reserved
    <3>2. CASE e[1] # c
      BY <1>1, <1>2, <3>2 DEF Reserved
    <3> QED
      BY <3>1, <3>2
  <2>4. Reserved' \subseteq All /\ Reserved \subseteq All
    BY DEF Reserved
  <2>5. Reserved' = Reserved \cup {<<c, x.i>>}
    BY <2>2, <2>3, <2>4
  <2>6. Cardinality(Reserved \cup {<<c, x.i>>}) = Cardinality(Reserved) + 1
    BY <1>1, <2>2, FS_AddElement
  <2>7. \A d \in Cpus : Busy(d)' => wr'[d].i < Entries
    BY <1>2, <2>1 DEF CountInv
  <2> QED
    BY <2>1, <2>5, <2>6, <2>7 DEF CountInv
<1>4. CASE Mark(c) \/ Copy(c)
  <2>1. wr'[c].i = x.i /\ Busy(c)' /\ Busy(c) /\ head' = head
    BY <1>4 DEF Mark, Copy, Busy, TypeOK
  <2>2. \A d \in Cpus : wr'[d].i = wr[d].i /\ (Busy(d)' <=> Busy(d))
    BY <1>2, <2>1
  <2>3. Reserved' = Reserved
    BY <2>2 DEF Reserved
  <2> QED
    BY <2>1, <2>2, <2>3 DEF CountInv
<1>5. CASE Publish(c)
  <2>1. wr'[c].i = x.i + 1 /\ ~Busy(c)' /\ Busy(c) /\ head' = head
    BY <1>5 DEF Publish, Busy, TypeOK
  <2>2. ASSUME NEW e \in All PROVE e \in Reserved' <=> e \in Reserved
    <3>1. CASE e[1] = c
      <4>1. e[2] < x.i + 1 <=> e[2] < x.i \/ e[2] = x.i
        BY <1>1
      <4> QED
        BY <2>1, <3>1, <4>1 DEF Reserved
    <3>2. CASE e[1] # c
      BY <1>1, <1>2, <3>2 DEF Reserved
    <3> QED
      BY <3>1, <3>2
  <2>3. Reserved' = Reserved
    BY <2>2 DEF Reserved
  <2>4. \A d \in Cpus : Busy(d)' => wr'[d].i < Entries
    BY <1>2, <2>1 DEF CountInv
  <2> QED
    BY <2>1, <2>3, <2>4 DEF CountInv
<1> QED
  BY <1>3, <1>4, <1>5 DEF Worker

LEMMA LogStep == IndInv /\ [Next]_vars => IndInv'
<1> SUFFICES ASSUME TypeOK, CountInv, ~lapped => UnlappedInv, [Next]_vars PROVE IndInv'
  BY DEF IndInv
<1>1. ASSUME NEW c \in Cpus, Worker(c) PROVE IndInv'
  <2>1. TypeOK' /\ CountInv'
    BY <1>1, WriterTypes, CountStep
  <2>2. ASSUME ~lapped' PROVE UnlappedInv'
    <3>1. ~lapped
      BY <1>1, <2>2 DEF Worker, Reserve, Mark, Copy, Publish
    <3> QED
      BY <1>1, <2>2, <3>1, ReserveStep, MarkStep, CopyWordStep, PublishStep DEF Worker
  <2> QED
    BY <2>1, <2>2 DEF IndInv
<1>2. ASSUME NEW r \in Readers, Reader(r) PROVE IndInv'
  <2>1. TypeOK' /\ UNCHANGED <<head, wr, lapped>>
    BY <1>2, ReaderTypes DEF Reader, ReadFirst, ReadCopy, ReadSecond, ReadAgain
  <2>2. CountInv'
    BY <2>1 DEF CountInv, Reserved, Busy
  <2>3. ASSUME ~lapped' PROVE UnlappedInv'
    <3>1. UnlappedInv
      BY <2>1, <2>3
    <3> QED
      BY <1>2, <3>1, ReadFirstStep, ReadCopyStep, ReadSecondStep DEF Reader
  <2> QED
    BY <2>1, <2>2, <2>3 DEF IndInv
<1>3. CASE UNCHANGED vars
  <2>0. TypeOK'
    BY <1>3 DEF vars, TypeOK
  <2>1. CountInv'
    <3>1. head' = head /\ wr' = wr
      BY <1>3 DEF vars
    <3>2. \A c \in Cpus : Busy(c)' <=> Busy(c)
      BY <3>1, Zenon DEF Busy
    <3>3. Reserved' = Reserved
      BY <3>1, ZenonT(30) DEF Reserved, Busy
    <3> QED
      BY <3>1, <3>2, <3>3 DEF CountInv
  <2>2. ASSUME UnlappedInv PROVE UnlappedInv'
    BY <1>3, <2>2 DEF vars, UnlappedInv, SlotInv, WriterInv, Apart, TicketInv, ReaderInv, Busy
  <2>3. lapped' = lapped
    BY <1>3 DEF vars
  <2> QED
    BY <2>0, <2>1, <2>2, <2>3 DEF IndInv
<1> QED
  BY <1>1, <1>2, <1>3 DEF Next

LEMMA LogInit == Init => IndInv
<1> SUFFICES ASSUME Init PROVE IndInv
  OBVIOUS
<1>1. Words \in Nat /\ Entries \in Nat /\ Blank \in [1..Words -> Int]
  BY WordsAssumption, EntriesAssumption DEF Blank
<1>2. TypeOK
  <2>1. [pc |-> "loop", i |-> 0, ticket |-> 0, w |-> 0] \in WriterType
    BY <1>1 DEF WriterType
  <2>2. [pc |-> "idle", ticket |-> 0, w |-> 0, out |-> Blank] \in ReaderType
    BY <1>1 DEF ReaderType
  <2>3. wr \in [Cpus -> WriterType] /\ rd \in [Readers -> ReaderType]
    BY <2>1, <2>2 DEF Init
  <2>4. head \in Nat /\ lapped \in BOOLEAN /\ seq \in [Slots -> Nat]
        /\ entry \in [Slots -> [1..Words -> Int]]
    BY <1>1 DEF Init
  <2> QED
    BY <2>3, <2>4 DEF TypeOK, WriterType, ReaderType
<1>3. (\A c \in Cpus : ~Busy(c) /\ wr[c].i = 0) /\ \A r \in Readers : rd[r].pc = "idle"
  BY DEF Init, Busy
<1>4. CountInv
  <2>1. Reserved = {}
    BY <1>3 DEF Reserved
  <2> QED
    BY <1>3, <2>1, FS_EmptySet DEF CountInv, Init
<1>5. UnlappedInv
  <2>1. \A s \in Slots : SlotInv(s)
    BY DEF Init, SlotInv
  <2>2. \A r \in Readers : ReaderInv(r)
    BY <1>3 DEF ReaderInv
  <2>3. \A c \in Cpus : WriterInv(c)
    BY <1>3 DEF WriterInv
  <2> QED
    BY <1>3, <2>1, <2>2, <2>3 DEF Init, UnlappedInv, Apart
<1> QED
  BY <1>2, <1>4, <1>5 DEF IndInv

LEMMA LogConsistent == IndInv => ConsistentUnlessLapped
  BY DEF IndInv, UnlappedInv, ReaderInv, ConsistentUnlessLapped, ReadConsistent

LEMMA LogCommitted == IndInv => EvenMeansCommitted
<1> SUFFICES ASSUME TypeOK, CountInv, UnlappedInv PROVE EvenMeansCommitted
  BY DEF IndInv, EvenMeansCommitted
<1>1. ASSUME NEW s \in Slots, seq[s] % 2 = 0, NEW c \in Cpus, wr[c].pc = "copy"
      PROVE  Slot(wr[c].ticket) # s
  <2>1. wr[c].ticket \in Nat /\ Busy(c) /\ WriterInv(c)
    BY <1>1 DEF TypeOK, UnlappedInv, Busy
  <2>2. seq[Slot(wr[c].ticket)] = Writing(wr[c].ticket)
    BY <1>1, <2>1 DEF WriterInv
  <2>3. Writing(wr[c].ticket) % 2 = 1
    BY <2>1, Parity
  <2> QED
    BY <1>1, <2>2, <2>3
<1>2. ASSUME \A c \in Cpus : wr[c].i = Entries
      PROVE  /\ head = Cardinality(Cpus) * Entries
             /\ \A t \in 0..(head - 1) : t + LogSlots >= head => seq[Slot(t)] = Committed(t)
  <2>1. Entries \in Nat /\ head \in Nat /\ LogSlots \in Nat
    BY EntriesAssumption, LogSlotsAssumption DEF TypeOK
  <2>2. \A c \in Cpus : ~Busy(c)
    BY <1>2, <2>1 DEF CountInv
  <2>3. Reserved = Cpus \X (0..(Entries - 1))
    BY <1>2, <2>1, <2>2 DEF Reserved
  <2>4. IsFiniteSet(0..(Entries - 1)) /\ Cardinality(0..(Entries - 1)) = Entries
    BY <2>1, FS_Interval
  <2>5. Cardinality(Cpus \X (0..(Entries - 1))) = Cardinality(Cpus) * Cardinality(0..(Entries - 1))
    BY <2>4, CpusAssumption, FS_Product, Zenon
  <2>6. head = Cardinality(Cpus) * Entries
    BY <2>3, <2>4, <2>5 DEF CountInv
  <2>7. \A t \in 0..(head - 1) : t + LogSlots >= head => seq[Slot(t)] = Committed(t)
    BY <2>1, <2>2 DEF UnlappedInv, TicketInv
  <2> QED
    BY <2>6, <2>7
<1>3. \A s \in Slots : seq[s] # 0 /\ seq[s] % 2 = 0 => \A w \in 1..Words : Committed(entry[s][w]) = seq[s]
  BY DEF UnlappedInv, SlotInv
<1> QED
  BY <1>1, <1>2, <1>3 DEF EvenMeansCommitted

LEMMA LockFreeInvariance == Spec => []IndInv
  BY LogInit, LogStep, PTL DEF Spec

(* However often the log wraps under a reader and for entries of any size, *)
(* log_read returns a whole entry of the ticket asked for, as long as no   *)
(* writer is lapped.                                                       *)
THEOREM LockFreeConsistency == Spec => []ConsistentUnlessLapped
  BY LockFreeInvariance, LogConsistent, PTL

(* As long as no writer is lapped, an even seq means a whole entry that    *)
(* nobody writes to, and when the workers have returned the last LOG_SLOTS *)
(* tickets are committed.                                                  *)
THEOREM LockFreeCommits == Spec => []EvenMeansCommitted
  BY LockFreeInvariance, LogCommitted, PTL
=============================================================================
