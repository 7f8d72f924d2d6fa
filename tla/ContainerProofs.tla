-------------------------- MODULE ContainerProofs ---------------------------
(***************************************************************************)
(* Theorems about two containers: the SPSC ring, for every capacity and    *)
(* every number of items (SpscRing), and the LRU cache, for every capacity *)
(* and every sequence of calls (LruCache).                                 *)
(***************************************************************************)
EXTENDS SpscRing, CacheProgram, RingLemmas

(* The constants, as the arithmetic below uses them. *)
LEMMA Constants ==
  /\ Capacity \in Nat \ {0}
  /\ Wrap \in Nat \ {0}
  /\ Capacity < Wrap
  /\ Start \in Nat
  /\ NItems \in Nat \ {0}
<1>1. PICK k \in 2..Wrap : Wrap = k * Capacity
  BY WrapAssumption
<1>2. k * Capacity >= 2 * Capacity
  BY <1>1, CapacityAssumption, WrapAssumption
<1>3. Start \in Nat
  BY CapacityAssumption DEF Start
<1> QED
  BY <1>1, <1>2, <1>3, CapacityAssumption, WrapAssumption, NItemsAssumption

(* Wrapping an index does not change its slot. *)
LEMMA SlotOfWrapped == \A n \in Int : Slot(Wrapped(n)) = Slot(n) /\ Slot(n) \in Slots
<1> SUFFICES ASSUME NEW n \in Int PROVE Slot(Wrapped(n)) = Slot(n) /\ Slot(n) \in Slots
  OBVIOUS
<1>1. PICK k \in 2..Wrap : Wrap = k * Capacity
  BY WrapAssumption
<1>2. k \in Nat \ {0}
  BY WrapAssumption
<1>3. ((n % (k * Capacity)) % Capacity) = (n % Capacity)
  BY <1>2, ModMod, CapacityAssumption, ZenonT(60)
<1>4. (n % Capacity) \in Slots
  BY CapacityAssumption DEF Slots
<1> QED
  BY <1>1, <1>3, <1>4, ZenonT(60) DEF Slot, Wrapped

(* Two indices less than Capacity apart have different slots. *)
LEMMA SlotsDiffer ==
  \A m, n \in Int : Slot(m) = Slot(n) /\ -Capacity < m - n /\ m - n < Capacity => m = n
BY ModInjective, CapacityAssumption, ZenonT(60) DEF Slot

(* A wrapped index is a uint64_t, and incrementing it wraps too. *)
LEMMA WrappedIndex ==
  \A m, n \in Int :
    /\ Wrapped(n) \in 0..(Wrap - 1)
    /\ Wrapped(Wrapped(n) + m) = Wrapped(n + m)
<1>1. \A n \in Int : Wrapped(n) \in 0..(Wrap - 1)
  BY Constants DEF Wrapped
<1>2. \A m, n \in Int : Wrapped(Wrapped(n) + m) = Wrapped(n + m)
  BY ModAdd, Constants, ZenonT(60) DEF Wrapped
<1> QED
  BY <1>1, <1>2, ZenonT(60)

(* The subtraction of wrapped indices is exact up to Capacity. *)
LEMMA MinusExact ==
  \A m, n \in Int : 0 <= m - n /\ m - n <= Capacity =>
     Minus(Wrapped(m), Wrapped(n)) = m - n
<1> SUFFICES ASSUME NEW m \in Int, NEW n \in Int, 0 <= m - n, m - n <= Capacity
             PROVE  Minus(Wrapped(m), Wrapped(n)) = m - n
  OBVIOUS
<1>1. m - n < Wrap
  BY Constants
<1> QED
  BY <1>1, ModDiff, Constants, ZenonT(60) DEF Minus, Wrapped

(* Two wrapped indices at most Capacity apart are equal only if they are   *)
(* the same index.                                                         *)
LEMMA WrapInjective ==
  \A m, n \in Int :
    Wrapped(m) = Wrapped(n) /\ 0 <= m - n /\ m - n <= Capacity => m = n
<1> SUFFICES ASSUME NEW m \in Int, NEW n \in Int, Wrapped(m) = Wrapped(n),
                    0 <= m - n, m - n <= Capacity
             PROVE  m = n
  OBVIOUS
<1>1. m - n < Wrap /\ -Wrap < m - n
  BY Constants
<1> QED
  BY <1>1, ModInjective, Constants, ZenonT(60) DEF Wrapped

(* The indices as the two threads' own loads return them. *)
LEMMA OwnIndices ==
  ASSUME IndInv
  PROVE  /\ HeadIndex = Wrapped(Start + prod.i)
         /\ TailIndex = Wrapped(Start + cons.i)
         /\ Slot(HeadIndex) = Slot(Start + prod.i) /\ Slot(HeadIndex) \in Slots
         /\ Slot(TailIndex) = Slot(Start + cons.i) /\ Slot(TailIndex) \in Slots
<1>1. prod.i \in Nat /\ cons.i \in Nat
  BY NItemsAssumption DEF IndInv, TypeOK
<1>2. HeadIndex = Wrapped(Start + prod.i)
  <2>1. /\ Len(headLog) = prod.i + 1
        /\ \A k \in 1..Len(headLog) : headLog[k].val = Wrapped(Start + k - 1)
    BY DEF IndInv, LogsCount
  <2>2. prod.i + 1 \in 1..(prod.i + 1) /\ Start + (prod.i + 1) - 1 = Start + prod.i
    BY <1>1, Constants
  <2> QED
    BY <2>1, <2>2, Zenon DEF HeadIndex
<1>3. TailIndex = Wrapped(Start + cons.i)
  <2>1. /\ Len(tailLog) = cons.i + 1
        /\ \A k \in 1..Len(tailLog) : tailLog[k].val = Wrapped(Start + k - 1)
    BY DEF IndInv, LogsCount
  <2>2. cons.i + 1 \in 1..(cons.i + 1) /\ Start + (cons.i + 1) - 1 = Start + cons.i
    BY <1>1, Constants
  <2> QED
    BY <2>1, <2>2, Zenon DEF TailIndex
<1>4. Start + prod.i \in Int /\ Start + cons.i \in Int
  BY <1>1, Constants
<1> QED
  BY <1>2, <1>3, <1>4, SlotOfWrapped, ZenonT(60)

(* The counters of the two threads as plain numbers. *)
LEMMA Numbers ==
  ASSUME IndInv
  PROVE  /\ prod.i \in Nat /\ prod.seen \in Nat \ {0} /\ prod.view \in Nat
         /\ cons.i \in Nat /\ cons.seen \in Nat \ {0} /\ cons.view \in Nat
         /\ prod.view = prod.seen - 1 /\ cons.view = cons.seen - 1
         /\ prod.view <= cons.i /\ cons.i <= cons.view /\ cons.view <= prod.i
         /\ prod.i - prod.view <= Capacity
BY NItemsAssumption DEF IndInv, TypeOK, LogsCount, Knowledge

(* What ring_write and ring_read conclude from the indices they load is    *)
(* true of the messages they loaded.                                       *)
LEMMA Tests ==
  ASSUME IndInv
  PROVE  /\ cons.i <= prod.i /\ prod.i <= cons.i + Capacity
         /\ \A k \in Int : prod.seen <= k /\ k <= cons.i + 1 =>
              (Full(HeadIndex, tailLog[k].val) <=> prod.i - (k - 1) = Capacity)
         /\ \A k \in Int : cons.seen <= k /\ k <= prod.i + 1 =>
              (headLog[k].val = TailIndex <=> k - 1 = cons.i)
<1>1. cons.i <= prod.i /\ prod.i <= cons.i + Capacity
  BY Numbers, Constants
<1>2. ASSUME NEW k \in Int, prod.seen <= k, k <= cons.i + 1
      PROVE  Full(HeadIndex, tailLog[k].val) <=> prod.i - (k - 1) = Capacity
  <2>1. tailLog[k].val = Wrapped(Start + k - 1)
    BY Numbers, <1>2 DEF IndInv, LogsCount
  <2>2. PICK m, n \in Int : m = Start + prod.i /\ n = Start + k - 1
    BY Numbers, <1>2, Constants
  <2>3. 0 <= m - n /\ m - n <= Capacity /\ m - n = prod.i - (k - 1)
    BY Numbers, <1>1, <1>2, <2>2, Constants
  <2>4. Minus(HeadIndex, tailLog[k].val) = m - n
    BY <2>1, <2>2, <2>3, OwnIndices, MinusExact, ZenonT(60)
  <2> QED
    BY <2>3, <2>4 DEF Full
<1>3. ASSUME NEW k \in Int, cons.seen <= k, k <= prod.i + 1
      PROVE  headLog[k].val = TailIndex <=> k - 1 = cons.i
  <2>1. headLog[k].val = Wrapped(Start + k - 1)
    BY Numbers, <1>3 DEF IndInv, LogsCount
  <2>2. PICK m, n \in Int : m = Start + k - 1 /\ n = Start + cons.i
    BY Numbers, <1>3, Constants
  <2>3. 0 <= m - n /\ m - n <= Capacity
    BY Numbers, <1>1, <1>3, <2>2, Constants
  <2>4. headLog[k].val = TailIndex <=> m = n
    BY <2>1, <2>2, <2>3, OwnIndices, WrapInjective, ZenonT(60)
  <2> QED
    BY Numbers, <1>3, <2>2, <2>4, Constants
<1> QED
  BY <1>1, <1>2, <1>3

-----------------------------------------------------------------------------
(* The state main hands to the threads satisfies the invariant. *)
LEMMA InitIndInv == Init => IndInv
<1> SUFFICES ASSUME Init PROVE IndInv
  OBVIOUS
<1> USE Constants DEF Init
<1>1. TypeOK
  BY WrappedIndex DEF TypeOK, Message, Slots
<1>2. LogsCount
  BY DEF LogsCount
<1>3. Knowledge
  BY DEF Knowledge
<1>4. WriteHistory /\ ReadHistory /\ Undelivered
  BY DEF WriteHistory, ReadHistory, Undelivered, Writes, Reads, Slots
<1>5. InOrder /\ Places
  BY DEF InOrder, Places
<1> QED
  BY <1>1, <1>2, <1>3, <1>4, <1>5 DEF IndInv

(* The producer's loads keep the invariant. *)
LEMMA WriteLoadStep ==
  ASSUME IndInv, NEW k \in Int, prod.seen <= k, k <= cons.i + 1, WriteLoad(k)
  PROVE  IndInv'
<1>2. tailLog[k].view = k - 1
  BY Numbers DEF IndInv, LogsCount
<1>3. /\ prod'.i = prod.i /\ prod'.seen = k /\ prod'.view = k - 1
      /\ prod.pc = "load" /\ prod'.pc \in {"load", "slot"}
      /\ prod'.pc = "slot" => prod.i - (k - 1) # Capacity
  BY <1>2, Tests DEF WriteLoad, IndInv, TypeOK
<1>4. TypeOK'
  <2>1. k \in Nat \ {0} /\ k - 1 \in Nat
    BY Numbers
  <2> QED
    BY <1>2, <2>1 DEF WriteLoad, IndInv, TypeOK
<1>5. LogsCount'
  BY <1>3 DEF WriteLoad, IndInv, LogsCount
<1>6. Knowledge'
  <2>1. UNCHANGED cons /\ prod.i - (k - 1) <= Capacity /\ k - 1 <= cons.i
    BY Numbers, Constants DEF WriteLoad
  <2>2. prod'.pc \in {"slot", "store"} => prod.i - (k - 1) < Capacity
    BY <1>3, <2>1, Numbers, Constants
  <2> QED
    BY <1>3, <2>1, <2>2 DEF IndInv, Knowledge
<1>7. WriteHistory' /\ ReadHistory' /\ Undelivered'
  BY <1>3 DEF WriteLoad, IndInv, WriteHistory, ReadHistory, Undelivered, Writes, Reads
<1>8. InOrder' /\ Places'
  BY <1>3 DEF WriteLoad, IndInv, InOrder, Places, Running
<1> QED
  BY <1>4, <1>5, <1>6, <1>7, <1>8 DEF IndInv

(* The producer's plain write hits no slot the consumer may still read. *)
LEMMA WriteSlotStep ==
  ASSUME IndInv, WriteSlot
  PROVE  IndInv'
<1> DEFINE here == Slot(HeadIndex)
<1>0. here = Slot(Start + prod.i) /\ here \in Slots
  BY OwnIndices
<1>1. /\ prod.pc = "slot" /\ prod' = [prod EXCEPT !.pc = "store"]
      /\ prod'.pc = "store" /\ prod'.i = prod.i /\ prod'.seen = prod.seen
      /\ prod'.view = prod.view /\ cons' = cons
      /\ headLog' = headLog /\ tailLog' = tailLog /\ mainPc' = mainPc
      /\ prod.i < NItems /\ Running
  BY DEF WriteSlot, IndInv, TypeOK, Places
<1>2. TypeOK'
  <2>1. prod.i \in 0..NItems /\ prod.i + 1 \in 0..NItems
    BY <1>1, Numbers, Constants
  <2> QED
    BY <1>0, <2>1 DEF WriteSlot, IndInv, TypeOK
<1>3. LogsCount' /\ Knowledge'
  BY <1>1 DEF IndInv, LogsCount, Knowledge
<1>4. Writes = prod.i /\ Writes' = prod.i + 1 /\ Reads' = Reads
  BY <1>1 DEF Writes, Reads
<1>5. WriteHistory'
  <2> SUFFICES ASSUME NEW s \in Slots
               PROVE  /\ lastWrite'[s] <= Writes'
                      /\ lastWrite'[s] > 0 => s = Slot(Start + lastWrite'[s] - 1)
    BY DEF WriteHistory
  <2>0. lastWrite[s] \in 0..NItems
    BY DEF IndInv, TypeOK
  <2>1. lastWrite[s] \in Nat /\ lastWrite[s] <= prod.i
    BY <1>4, <2>0, Constants DEF IndInv, WriteHistory
  <2>2. CASE s = here
    <3>1. lastWrite'[s] = prod.i + 1
      BY <2>2 DEF WriteSlot, IndInv, TypeOK
    <3>2. Start + (prod.i + 1) - 1 = Start + prod.i
      BY Numbers, Constants
    <3> QED
      BY <1>0, <1>4, <2>2, <3>1, <3>2, Numbers
  <2>3. CASE s # here
    <3>1. lastWrite'[s] = lastWrite[s]
      BY <2>3 DEF WriteSlot, IndInv, TypeOK
    <3> QED
      BY <1>4, <2>1, <3>1, Numbers DEF IndInv, WriteHistory
  <2> QED
    BY <2>2, <2>3
<1>6. ReadHistory'
  BY <1>4 DEF WriteSlot, IndInv, ReadHistory
<1>7. Undelivered'
  <2> SUFFICES ASSUME NEW j \in 0..(NItems - 1), cons.i <= j, j < prod.i + 1
               PROVE  buf'[Slot(Start + j)] = j
    BY <1>1, <1>4 DEF Undelivered
  <2>1. CASE j = prod.i
    BY <1>0, <2>1 DEF WriteSlot, IndInv, TypeOK
  <2>2. CASE j # prod.i
    <3>1. prod.i - prod.view < Capacity
      BY <1>1 DEF IndInv, Knowledge
    <3>2. PICK m, n \in Int : m = Start + j /\ n = Start + prod.i
      BY Numbers, Constants
    <3>3. m # n /\ -Capacity < m - n /\ m - n < Capacity /\ j < prod.i
      BY <2>2, <3>1, <3>2, Numbers, Constants
    <3>4. Slot(m) # Slot(n) /\ Slot(m) \in Slots
      BY <3>3, SlotsDiffer, SlotOfWrapped, ZenonT(60)
    <3>5. buf[Slot(m)] = j
      BY <1>4, <3>2, <3>3 DEF IndInv, Undelivered
    <3> QED
      BY <1>0, <3>2, <3>4, <3>5 DEF WriteSlot, IndInv, TypeOK
  <2> QED
    BY <2>1, <2>2
<1>8. InOrder' /\ Places'
  BY <1>1 DEF IndInv, InOrder, Places, Running
<1> QED
  BY <1>2, <1>3, <1>5, <1>6, <1>7, <1>8 DEF IndInv

(* Publishing the slot keeps the invariant: the new message counts on. *)
LEMMA WriteStoreStep ==
  ASSUME IndInv, WriteStore
  PROVE  IndInv'
<1>1. /\ prod.pc = "store" /\ prod.i < NItems /\ Running
      /\ prod' = [prod EXCEPT !.i = prod.i + 1, !.pc = Loop(prod.i + 1)]
      /\ prod'.i = prod.i + 1 /\ prod'.seen = prod.seen /\ prod'.view = prod.view
      /\ prod'.pc = Loop(prod.i + 1)
      /\ cons' = cons /\ tailLog' = tailLog /\ mainPc' = mainPc
  BY DEF WriteStore, IndInv, TypeOK, Places
<1>2. Loop(prod.i + 1) \in {"load", "done"} /\ (Loop(prod.i + 1) = "load" => prod.i + 1 < NItems)
  BY DEF Loop
<1>3. Writes = prod.i + 1 /\ Writes' = prod.i + 1 /\ Reads' = Reads
  BY <1>1, <1>2 DEF Writes, Reads
<1> DEFINE msg == [val |-> Wrapped(HeadIndex + 1), view |-> Writes]
<1>4. msg.val = Wrapped(Start + prod.i + 1) /\ msg.view = prod.i + 1 /\ msg \in Message
  <2>1. PICK n \in Int : n = Start + prod.i
    BY Numbers, Constants
  <2>2. Wrapped(HeadIndex + 1) = Wrapped(n + 1) /\ n + 1 \in Int
    <3>1. n + 1 \in Int /\ 1 \in Int
      OBVIOUS
    <3> QED
      BY <2>1, <3>1, OwnIndices, WrappedIndex, ZenonT(60)
  <2>3. Wrapped(n + 1) \in 0..(Wrap - 1)
    BY <2>2, WrappedIndex
  <2>4. prod.i + 1 \in Nat
    BY Numbers
  <2> QED
    BY <1>3, <2>1, <2>2, <2>3, <2>4 DEF Message
<1>5. headLog' = Append(headLog, msg)
  BY DEF WriteStore
<1> HIDE DEF msg
<1>6. TypeOK'
  <2>1. prod.i + 1 \in 0..NItems
    BY <1>1, Numbers, Constants
  <2>2. headLog' \in Seq(Message) /\ headLog' # <<>>
    BY <1>4, <1>5, SMTT(30) DEF IndInv, TypeOK
  <2> QED
    BY <1>1, <1>2, <2>1, <2>2 DEF WriteStore, IndInv, TypeOK
<1>7. LogsCount'
  <2>1. Len(headLog) = prod.i + 1 /\ headLog \in Seq(Message)
    BY DEF IndInv, LogsCount, TypeOK
  <2>2. Len(headLog') = prod.i + 2
    BY <1>4, <1>5, <2>1, Numbers
  <2>3. ASSUME NEW k \in 1..(prod.i + 2)
        PROVE  headLog'[k].val = Wrapped(Start + k - 1) /\ headLog'[k].view = k - 1
    <3>1. CASE k = prod.i + 2
      <4>1. headLog'[k] = msg
        BY <1>4, <1>5, <2>1, <3>1, Numbers, SMTT(30)
      <4>2. Start + k - 1 = Start + prod.i + 1 /\ k - 1 = prod.i + 1
        BY <3>1, Numbers, Constants
      <4> QED
        BY <1>4, <4>1, <4>2
    <3>2. CASE k # prod.i + 2
      <4>1. k \in 1..(prod.i + 1)
        BY <3>2, Numbers
      <4>2. headLog'[k] = headLog[k]
        BY <1>4, <1>5, <2>1, <4>1, Numbers
      <4> QED
        BY <2>1, <4>1, <4>2 DEF IndInv, LogsCount
    <3> QED
      BY <3>1, <3>2
  <2>4. prod'.i + 1 = prod.i + 2
    BY <1>1, Numbers
  <2> QED
    BY <1>1, <2>2, <2>3, <2>4 DEF IndInv, LogsCount
<1>8. Knowledge'
  <2>1. prod.i + 1 - prod.view <= Capacity /\ cons.view <= prod.i + 1
    <3>1. prod.i - prod.view < Capacity
      BY <1>1 DEF IndInv, Knowledge
    <3> QED
      BY <3>1, Numbers, Constants
  <2> QED
    BY <1>1, <1>2, <2>1, Numbers DEF IndInv, Knowledge
<1>9. WriteHistory' /\ ReadHistory' /\ Undelivered'
  BY <1>1, <1>3 DEF WriteStore, IndInv, WriteHistory, ReadHistory, Undelivered
<1>10. InOrder' /\ Places'
  BY <1>1, <1>2 DEF WriteStore, IndInv, InOrder, Places, Running
<1> QED
  BY <1>6, <1>7, <1>8, <1>9, <1>10 DEF IndInv

(* The consumer's loads keep the invariant. *)
LEMMA ReadLoadStep ==
  ASSUME IndInv, NEW k \in Int, cons.seen <= k, k <= prod.i + 1, ReadLoad(k)
  PROVE  IndInv'
<1>2. headLog[k].view = k - 1
  BY Numbers DEF IndInv, LogsCount
<1>3. /\ cons'.i = cons.i /\ cons'.seen = k /\ cons'.view = k - 1 /\ cons'.v = cons.v
      /\ cons.pc = "load" /\ cons'.pc \in {"load", "slot"}
      /\ cons'.pc = "slot" => k - 1 # cons.i
  BY <1>2, Tests, SMTT(30) DEF ReadLoad, IndInv, TypeOK
<1>4. TypeOK'
  <2>1. k \in Nat \ {0} /\ k - 1 \in Nat
    BY Numbers
  <2> QED
    BY <1>2, <2>1 DEF ReadLoad, IndInv, TypeOK
<1>5. LogsCount'
  BY <1>3 DEF ReadLoad, IndInv, LogsCount
<1>6. Knowledge'
  <2>1. UNCHANGED prod /\ cons.i <= k - 1 /\ k - 1 <= prod.i
    BY Numbers, Constants DEF ReadLoad
  <2>2. cons'.pc \in {"slot", "store"} => cons.i < k - 1
    BY <1>3, <2>1, Numbers, Constants
  <2> QED
    BY <1>3, <2>1, <2>2 DEF IndInv, Knowledge
<1>7. WriteHistory' /\ ReadHistory' /\ Undelivered'
  BY <1>3 DEF ReadLoad, IndInv, WriteHistory, ReadHistory, Undelivered, Writes, Reads
<1>8. InOrder' /\ Places'
  BY <1>3 DEF ReadLoad, IndInv, InOrder, Places, Running
<1> QED
  BY <1>4, <1>5, <1>6, <1>7, <1>8 DEF IndInv

(* The consumer's plain read returns the item it is due. *)
LEMMA ReadSlotStep ==
  ASSUME IndInv, ReadSlot
  PROVE  IndInv'
<1> DEFINE here == Slot(TailIndex)
<1>0. here = Slot(Start + cons.i) /\ here \in Slots
  BY OwnIndices
<1>1. /\ cons.pc = "slot" /\ cons' = [cons EXCEPT !.v = buf[here], !.pc = "store"]
      /\ cons'.pc = "store" /\ cons'.i = cons.i /\ cons'.seen = cons.seen
      /\ cons'.view = cons.view /\ cons'.v = buf[here] /\ prod' = prod
      /\ headLog' = headLog /\ tailLog' = tailLog /\ mainPc' = mainPc
      /\ cons.i < NItems /\ Running
  BY DEF ReadSlot, IndInv, TypeOK, Places
<1>2. TypeOK'
  <2>1. cons.i + 1 \in 0..NItems
    BY <1>1, Numbers, Constants
  <2> QED
    BY <1>0, <2>1 DEF ReadSlot, IndInv, TypeOK
<1>3. LogsCount' /\ Knowledge'
  BY <1>1 DEF IndInv, LogsCount, Knowledge
<1>4. Reads = cons.i /\ Reads' = cons.i + 1 /\ Writes' = Writes
  BY <1>1 DEF Writes, Reads
<1>5. ReadHistory'
  <2> SUFFICES ASSUME NEW s \in Slots
               PROVE  /\ lastRead'[s] <= Reads'
                      /\ lastRead'[s] > 0 => s = Slot(Start + lastRead'[s] - 1)
    BY DEF ReadHistory
  <2>0. lastRead[s] \in 0..NItems
    BY DEF IndInv, TypeOK
  <2>1. lastRead[s] \in Nat /\ lastRead[s] <= cons.i
    BY <1>4, <2>0, Constants DEF IndInv, ReadHistory
  <2>2. CASE s = here
    <3>1. lastRead'[s] = cons.i + 1
      BY <2>2 DEF ReadSlot, IndInv, TypeOK
    <3>2. Start + (cons.i + 1) - 1 = Start + cons.i
      BY Numbers, Constants
    <3> QED
      BY <1>0, <1>4, <2>2, <3>1, <3>2, Numbers
  <2>3. CASE s # here
    <3>1. lastRead'[s] = lastRead[s]
      BY <2>3 DEF ReadSlot, IndInv, TypeOK
    <3> QED
      BY <1>4, <2>1, <3>1, Numbers DEF IndInv, ReadHistory
  <2> QED
    BY <2>2, <2>3
<1>6. WriteHistory' /\ Undelivered'
  BY <1>1, <1>4 DEF ReadSlot, IndInv, WriteHistory, Undelivered
<1>7. InOrder' /\ Places'
  <2>1. cons.i < Writes
    <3>1. cons.i < cons.view
      BY <1>1 DEF IndInv, Knowledge
    <3> QED
      BY <3>1, Numbers DEF Writes
  <2>2. cons.i \in 0..(NItems - 1)
    BY <1>1, Numbers, Constants
  <2>3. buf[here] = cons.i
    BY <1>0, <2>1, <2>2, Numbers DEF IndInv, Undelivered
  <2> QED
    BY <1>1, <2>3 DEF IndInv, InOrder, Places, Running
<1> QED
  BY <1>2, <1>3, <1>5, <1>6, <1>7 DEF IndInv

(* Giving the slot back keeps the invariant: the new message counts on. *)
LEMMA ReadStoreStep ==
  ASSUME IndInv, ReadStore
  PROVE  IndInv'
<1>1. /\ cons.pc = "store" /\ cons.i < NItems /\ Running
      /\ cons' = [cons EXCEPT !.i = cons.i + 1, !.pc = Loop(cons.i + 1)]
      /\ cons'.i = cons.i + 1 /\ cons'.seen = cons.seen /\ cons'.view = cons.view
      /\ cons'.pc = Loop(cons.i + 1)
      /\ prod' = prod /\ headLog' = headLog /\ mainPc' = mainPc
  BY DEF ReadStore, IndInv, TypeOK, Places
<1>2. Loop(cons.i + 1) \in {"load", "done"} /\ (Loop(cons.i + 1) = "load" => cons.i + 1 < NItems)
  BY DEF Loop
<1>3. Reads = cons.i + 1 /\ Reads' = cons.i + 1 /\ Writes' = Writes
  BY <1>1, <1>2 DEF Writes, Reads
<1> DEFINE msg == [val |-> Wrapped(TailIndex + 1), view |-> Reads]
<1>4. msg.val = Wrapped(Start + cons.i + 1) /\ msg.view = cons.i + 1 /\ msg \in Message
  <2>1. PICK n \in Int : n = Start + cons.i
    BY Numbers, Constants
  <2>2. Wrapped(TailIndex + 1) = Wrapped(n + 1) /\ n + 1 \in Int
    <3>1. n + 1 \in Int /\ 1 \in Int
      OBVIOUS
    <3> QED
      BY <2>1, <3>1, OwnIndices, WrappedIndex, ZenonT(60)
  <2>3. Wrapped(n + 1) \in 0..(Wrap - 1)
    BY <2>2, WrappedIndex
  <2>4. cons.i + 1 \in Nat
    BY Numbers
  <2> QED
    BY <1>3, <2>1, <2>2, <2>3, <2>4 DEF Message
<1>5. tailLog' = Append(tailLog, msg)
  BY DEF ReadStore
<1> HIDE DEF msg
<1>6. TypeOK'
  <2>1. cons.i + 1 \in 0..NItems
    BY <1>1, Numbers, Constants
  <2>2. tailLog' \in Seq(Message) /\ tailLog' # <<>>
    BY <1>4, <1>5 DEF IndInv, TypeOK
  <2>3. got' \in Seq(0..NItems)
    BY DEF ReadStore, IndInv, TypeOK
  <2> QED
    BY <1>1, <1>2, <2>1, <2>2, <2>3 DEF ReadStore, IndInv, TypeOK
<1>7. LogsCount'
  <2>1. Len(tailLog) = cons.i + 1 /\ tailLog \in Seq(Message)
    BY DEF IndInv, LogsCount, TypeOK
  <2>2. Len(tailLog') = cons.i + 2
    BY <1>4, <1>5, <2>1, Numbers
  <2>3. ASSUME NEW k \in 1..(cons.i + 2)
        PROVE  tailLog'[k].val = Wrapped(Start + k - 1) /\ tailLog'[k].view = k - 1
    <3>1. CASE k = cons.i + 2
      <4>1. tailLog'[k] = msg
        BY <1>4, <1>5, <2>1, <3>1, Numbers
      <4>2. Start + k - 1 = Start + cons.i + 1 /\ k - 1 = cons.i + 1
        BY <3>1, Numbers, Constants
      <4> QED
        BY <1>4, <4>1, <4>2
    <3>2. CASE k # cons.i + 2
      <4>1. k \in 1..(cons.i + 1)
        BY <3>2, Numbers
      <4>2. tailLog'[k] = tailLog[k]
        BY <1>4, <1>5, <2>1, <4>1, Numbers
      <4> QED
        BY <2>1, <4>1, <4>2 DEF IndInv, LogsCount
    <3> QED
      BY <3>1, <3>2
  <2>4. cons'.i + 1 = cons.i + 2
    BY <1>1, Numbers
  <2> QED
    BY <1>1, <2>2, <2>3, <2>4 DEF IndInv, LogsCount
<1>8. Knowledge'
  <2>1. cons.i + 1 <= cons.view /\ prod.view <= cons.i + 1
    <3>1. cons.i < cons.view
      BY <1>1 DEF IndInv, Knowledge
    <3> QED
      BY <3>1, Numbers, Constants
  <2> QED
    BY <1>1, <1>2, <2>1, Numbers DEF IndInv, Knowledge
<1>9. WriteHistory' /\ ReadHistory'
  BY <1>1, <1>3 DEF ReadStore, IndInv, WriteHistory, ReadHistory
<1>10. Undelivered'
  <2>1. \A j \in 0..(NItems - 1) : cons.i + 1 <= j => cons.i <= j
    BY Numbers, Constants
  <2> QED
    BY <1>1, <1>3, <2>1 DEF ReadStore, IndInv, Undelivered
<1>11. InOrder' /\ Places'
  BY <1>1, <1>2, SMTT(30) DEF ReadStore, IndInv, InOrder, Places, Running
<1> QED
  BY <1>6, <1>7, <1>8, <1>9, <1>10, <1>11 DEF IndInv

(* Nothing main does disturbs the ring. *)
LEMMA MainStep ==
  ASSUME IndInv, Main
  PROVE  IndInv'
<1> USE DEF IndInv, LogsCount, Knowledge, InOrder, WriteHistory, ReadHistory, Undelivered,
            Writes, Reads
<1>1. CASE MainCreateConsumer
  <2>1. /\ cons.pc = "unborn" /\ cons.i = 0 /\ cons'.pc = "load" /\ cons'.i = cons.i
        /\ cons'.seen = cons.seen /\ cons'.view = cons.view /\ cons'.v = cons.v
        /\ prod.pc = "unborn" /\ prod.i = 0
    BY <1>1 DEF MainCreateConsumer, TypeOK, Places
  <2>2. TypeOK'
    BY <1>1 DEF MainCreateConsumer, TypeOK
  <2>3. 0 < NItems
    BY NItemsAssumption
  <2>4. Places'
    BY <1>1, <2>1, <2>3 DEF MainCreateConsumer, Places
  <2> QED
    BY <1>1, <2>1, <2>2, <2>4 DEF MainCreateConsumer
<1>2. CASE MainCreateProducer
  <2>1. /\ prod.pc = "unborn" /\ prod.i = 0 /\ prod'.pc = "load" /\ prod'.i = prod.i
        /\ prod'.seen = prod.seen /\ prod'.view = prod.view
    BY <1>2 DEF MainCreateProducer, TypeOK, Places
  <2>2. TypeOK'
    BY <1>2, ZenonT(30) DEF MainCreateProducer, TypeOK
  <2>3. 0 < NItems
    BY NItemsAssumption
  <2>4. Places'
    BY <1>2, <2>1, <2>3 DEF MainCreateProducer, Places
  <2> QED
    BY <1>2, <2>1, <2>2, <2>4 DEF MainCreateProducer
<1>3. CASE MainCreateFails
  BY <1>3 DEF MainCreateFails, TypeOK, Places
<1>4. CASE MainJoin
  BY <1>4 DEF MainJoin, TypeOK, Places
<1> QED
  BY <1>1, <1>2, <1>3, <1>4 DEF Main

(* Every step keeps the inductive invariant. *)
LEMMA IndStep == IndInv /\ [Next]_vars => IndInv'
<1> SUFFICES ASSUME IndInv, [Next]_vars PROVE IndInv'
  OBVIOUS
<1>0. Len(tailLog) = cons.i + 1 /\ Len(headLog) = prod.i + 1
  BY DEF IndInv, LogsCount
<1>1. ASSUME NEW k \in prod.seen..Len(tailLog), WriteLoad(k) PROVE IndInv'
  <2>1. k \in Int /\ prod.seen <= k /\ k <= cons.i + 1
    BY <1>0, Numbers
  <2> QED
    BY <1>1, <2>1, WriteLoadStep
<1>2. ASSUME NEW k \in cons.seen..Len(headLog), ReadLoad(k) PROVE IndInv'
  <2>1. k \in Int /\ cons.seen <= k /\ k <= prod.i + 1
    BY <1>0, Numbers
  <2> QED
    BY <1>2, <2>1, ReadLoadStep
<1>3. CASE UNCHANGED vars
  BY <1>3, ZenonT(30) DEF vars, IndInv, TypeOK, LogsCount, Knowledge, InOrder, Places, WriteHistory,
              ReadHistory, Undelivered, Writes, Reads
<1> QED
  BY <1>1, <1>2, <1>3, WriteSlotStep, WriteStoreStep, ReadSlotStep, ReadStoreStep, MainStep
  DEF Next, Producer, Consumer

(* Types and counts of the ring hold in every reachable state. *)
THEOREM Safety == Spec => []IndInv
BY InitIndInv, IndStep, PTL DEF Spec

(* The variables keep their types; in particular a stored index is a       *)
(* uint64_t and no thread runs past N_ITEMS.                               *)
THEOREM TypeCorrect == Spec => []TypeOK
<1>1. IndInv => TypeOK
  BY DEF IndInv
<1> QED
  BY <1>1, Safety, PTL

(* check(v == i) holds in the consumer, for any capacity and item count. *)
THEOREM OrderSafety == Spec => []InOrder
<1>1. IndInv => InOrder
  BY DEF IndInv
<1> QED
  BY <1>1, Safety, PTL

(* The indices never drift more than Capacity apart. *)
THEOREM CapacitySafety == Spec => []NeverOverfull
<1>1. ASSUME IndInv PROVE NeverOverfull
  <2>1. PICK m, n \in Int : m = Start + prod.i /\ n = Start + cons.i
    BY <1>1, Numbers, Constants
  <2>2. 0 <= m - n /\ m - n <= Capacity
    BY <1>1, <2>1, Numbers, Tests, Constants
  <2>3. Minus(HeadIndex, TailIndex) = m - n
    BY <1>1, <2>1, <2>2, OwnIndices, MinusExact, ZenonT(60)
  <2> QED
    BY <2>2, <2>3, Constants DEF NeverOverfull
<1> QED
  BY <1>1, Safety, PTL

(* No plain access of a slot races with another, however stale the indices *)
(* that acquire loads return.                                              *)
THEOREM RaceSafety == Spec => []RaceFree
<1>1. ASSUME IndInv, prod.pc = "slot" PROVE lastRead[Slot(HeadIndex)] <= prod.view
  <2> DEFINE r == lastRead[Slot(HeadIndex)]
  <2>0. Slot(HeadIndex) \in Slots /\ Slot(HeadIndex) = Slot(Start + prod.i)
    BY <1>1, OwnIndices
  <2>1. r \in 0..NItems /\ r <= Reads /\ (r > 0 => Slot(HeadIndex) = Slot(Start + r - 1))
    BY <1>1, <2>0 DEF IndInv, TypeOK, ReadHistory
  <2>2. r \in Nat /\ r <= cons.i + 1 /\ prod.i - prod.view < Capacity /\ Reads <= cons.view
    BY <1>1, <2>1, Numbers, Constants DEF Reads, IndInv, Knowledge
  <2> HIDE DEF r
  <2>3. CASE r > prod.view
    <3>1. PICK m, n \in Int : m = Start + prod.i /\ n = Start + r - 1
      BY <1>1, <2>2, Numbers, Constants
    <3>2. m - n > 0 /\ m - n < Capacity
      BY <1>1, <2>1, <2>2, <2>3, <3>1, Numbers, Constants DEF Reads
    <3>3. Slot(m) = Slot(n)
      BY <1>1, <2>0, <2>1, <2>3, <3>1, Numbers
    <3>4. -Capacity < m - n
      BY <3>2, Constants
    <3> QED
      BY <3>2, <3>3, <3>4, SlotsDiffer
  <2> QED
    BY <1>1, <2>2, <2>3, Numbers DEF r
<1>2. ASSUME IndInv, cons.pc = "slot" PROVE lastWrite[Slot(TailIndex)] <= cons.view
  <2> DEFINE w == lastWrite[Slot(TailIndex)]
  <2>0. Slot(TailIndex) \in Slots /\ Slot(TailIndex) = Slot(Start + cons.i)
    BY <1>2, OwnIndices
  <2>1. w \in 0..NItems /\ w <= Writes /\ (w > 0 => Slot(TailIndex) = Slot(Start + w - 1))
    BY <1>2, <2>0 DEF IndInv, TypeOK, WriteHistory
  <2>2. /\ w \in Nat /\ cons.i < cons.view
        /\ prod.pc = "store" => prod.i - prod.view < Capacity
    BY <1>2, <2>1, Numbers, Constants DEF IndInv, Knowledge
  <2> HIDE DEF w
  <2>3. CASE w > cons.view
    <3>1. PICK m, n \in Int : m = Start + w - 1 /\ n = Start + cons.i
      BY <1>2, <2>2, Numbers, Constants
    <3>2. m - n > 0 /\ m - n < Capacity
      BY <1>2, <2>1, <2>2, <2>3, <3>1, Numbers, Constants DEF Writes
    <3>3. Slot(m) = Slot(n)
      BY <1>2, <2>0, <2>1, <2>2, <2>3, <3>1, Numbers
    <3>4. -Capacity < m - n
      BY <3>2, Constants
    <3> QED
      BY <3>2, <3>3, <3>4, SlotsDiffer
  <2> QED
    BY <1>2, <2>2, <2>3, Numbers DEF w
<1>3. IndInv => RaceFree
  BY <1>1, <1>2 DEF RaceFree
<1> QED
  BY <1>3, Safety, PTL

-----------------------------------------------------------------------------
(* The items from number a up to but not including number b, in order. *)
Between(a, b) == [j \in 1..(b - a) |-> a + j - 1]

LEMMA BetweenLists ==
  \A a, b \in Nat : a <= b =>
    /\ Between(a, b) \in Seq(Nat) /\ Len(Between(a, b)) = b - a
    /\ \A j \in 1..(b - a) : Between(a, b)[j] = a + j - 1
<1> TAKE a, b \in Nat
<1>1. HAVE a <= b
<1>2. b - a \in Nat /\ \A j \in 1..(b - a) : a + j - 1 \in Nat
  BY <1>1
<1> QED
  BY <1>2 DEF Between

(* One item more at the end, ... *)
LEMMA BetweenAppend ==
  \A a, b \in Nat : a <= b => Between(a, b + 1) = Append(Between(a, b), b)
<1> TAKE a, b \in Nat
<1>1. HAVE a <= b
<1> DEFINE s == Between(a, b)
           w == Between(a, b + 1)
<1>2. /\ s \in Seq(Nat) /\ Len(s) = b - a /\ \A j \in 1..(b - a) : s[j] = a + j - 1
  BY <1>1, BetweenLists, Zenon
<1>3. b + 1 \in Nat /\ a <= b + 1
  BY <1>1
<1>4. /\ w \in Seq(Nat) /\ Len(w) = (b + 1) - a
      /\ \A j \in 1..((b + 1) - a) : w[j] = a + j - 1
  BY <1>3, BetweenLists, Zenon
<1> HIDE DEF s, w
<1>5. Append(s, b) \in Seq(Nat) /\ Len(Append(s, b)) = (b + 1) - a
  BY <1>1, <1>2
<1>6. \A j \in 1..((b + 1) - a) : w[j] = Append(s, b)[j]
  BY <1>1, <1>2, <1>4
<1>7. w = Append(s, b)
  BY <1>4, <1>5, <1>6, SameElements
<1> QED
  BY <1>7 DEF s, w

(* ... or one less at the front. *)
LEMMA BetweenTail ==
  \A a, b \in Nat : a < b =>
    /\ Between(a, b) # <<>> /\ Head(Between(a, b)) = a
    /\ Between(a + 1, b) = Tail(Between(a, b))
<1> TAKE a, b \in Nat
<1>1. HAVE a < b
<1> DEFINE s == Between(a, b)
           w == Between(a + 1, b)
<1>0. a <= b /\ a + 1 \in Nat /\ a + 1 <= b
  BY <1>1
<1>2. /\ s \in Seq(Nat) /\ Len(s) = b - a /\ \A j \in 1..(b - a) : s[j] = a + j - 1
  BY <1>0, BetweenLists, Zenon
<1>3. /\ w \in Seq(Nat) /\ Len(w) = b - (a + 1)
      /\ \A j \in 1..(b - (a + 1)) : w[j] = (a + 1) + j - 1
  BY <1>0, BetweenLists, Zenon
<1> HIDE DEF s, w
<1>4. /\ s # <<>> /\ Head(s) = a /\ Tail(s) \in Seq(Nat) /\ Len(Tail(s)) = b - (a + 1)
  BY <1>1, <1>2
<1>5. \A j \in 1..(b - (a + 1)) : w[j] = Tail(s)[j]
  BY <1>1, <1>2, <1>3
<1>6. w = Tail(s)
  BY <1>3, <1>4, <1>5, SameElements
<1> QED
  BY <1>4, <1>6 DEF s, w

(* What lies between the indices is what was written and not delivered. *)
HoldsUndelivered == Contents = Between(cons.i, prod.i)

LEMMA ContentsBetween == IndInv => HoldsUndelivered
<1> SUFFICES ASSUME IndInv PROVE Contents = Between(cons.i, prod.i)
  BY DEF HoldsUndelivered
<1>1. PICK m, n \in Int : m = Start + prod.i /\ n = Start + cons.i
  BY Numbers, Constants
<1>2. m - n = prod.i - cons.i /\ 0 <= m - n /\ m - n <= Capacity
  BY <1>1, Numbers, Tests, Constants
<1>3. HeadIndex = Wrapped(m) /\ TailIndex = Wrapped(n)
  BY <1>1, OwnIndices
<1>4. Minus(HeadIndex, TailIndex) = prod.i - cons.i
  <2>1. Minus(Wrapped(m), Wrapped(n)) = m - n
    BY <1>2, MinusExact, ZenonT(60)
  <2> QED
    BY <1>2, <1>3, <2>1
<1>5. ASSUME NEW j \in 1..(prod.i - cons.i)
      PROVE  buf[Slot(Wrapped(TailIndex + j - 1))] = cons.i + j - 1
  <2>1. PICK d, k \in Int : d = j - 1 /\ k = cons.i + j - 1
    BY Numbers
  <2>2. Wrapped(Wrapped(n) + d) = Wrapped(n + d)
    BY WrappedIndex
  <2>3. n + d \in Int /\ n + d = Start + k
    BY <1>1, <2>1, Numbers, Constants
  <2>4. Slot(Wrapped(n + d)) = Slot(n + d)
    BY <2>3, SlotOfWrapped
  <2>5. TailIndex + j - 1 = Wrapped(n) + d
    <3>1. Wrapped(n) \in Int
      BY WrappedIndex, Constants
    <3> QED
      BY <1>3, <2>1, <3>1
  <2>6. k \in 0..(NItems - 1) /\ cons.i <= k /\ k < Writes
    <3>1. prod.i \in 0..NItems
      BY DEF IndInv, TypeOK
    <3>2. Writes \in Int /\ prod.i <= Writes
      BY <3>1, Numbers DEF Writes
    <3>3. prod.i \in Nat /\ cons.i \in Nat /\ NItems \in Nat
      BY Numbers, Constants
    <3> QED
      BY <2>1, <3>1, <3>2, <3>3
  <2>7. buf[Slot(Start + k)] = k
    BY <2>6 DEF IndInv, Undelivered
  <2> QED
    BY <2>1, <2>2, <2>3, <2>4, <2>5, <2>7
<1> QED
  BY <1>4, <1>5 DEF Contents, Between

LEMMA FifoStep ==
  ASSUME IndInv, HoldsUndelivered, HoldsUndelivered', [Next]_vars
  PROVE  [Fifo!Next]_<<Contents, got>>
<1>1. Contents = Between(cons.i, prod.i) /\ Contents' = Between(cons'.i, prod'.i)
  BY DEF HoldsUndelivered
<1>3. CASE WriteStore
  <2>1. /\ prod'.i = prod.i + 1 /\ cons' = cons /\ got' = got /\ prod.i < NItems
        /\ prod.i - prod.view < Capacity
    BY <1>3 DEF WriteStore, IndInv, TypeOK, Places, Knowledge
  <2>2. prod.i \in 0..(NItems - 1) /\ cons.i <= prod.i /\ prod.i - cons.i < Capacity
    BY <2>1, Numbers, Constants
  <2>3. Len(Between(cons.i, prod.i)) = prod.i - cons.i
    BY <2>2, Numbers, BetweenLists
  <2>4. Between(cons.i, prod.i + 1) = Append(Between(cons.i, prod.i), prod.i)
    BY <2>2, Numbers, BetweenAppend
  <2>5. Fifo!Put(prod.i)
    BY <1>1, <2>1, <2>2, <2>3, <2>4 DEF Fifo!Put
  <2> QED
    BY <2>2, <2>5 DEF Fifo!Next
<1>4. CASE ReadStore
  <2>1. /\ cons'.i = cons.i + 1 /\ prod' = prod /\ got' = Append(got, cons.i)
        /\ cons.i < cons.view
    BY <1>4 DEF ReadStore, IndInv, TypeOK, InOrder, Knowledge
  <2>2. cons.i < prod.i
    BY <2>1, Numbers
  <2>3. /\ Between(cons.i, prod.i) # <<>> /\ Head(Between(cons.i, prod.i)) = cons.i
        /\ Between(cons.i + 1, prod.i) = Tail(Between(cons.i, prod.i))
    BY <2>2, Numbers, BetweenTail
  <2>4. Fifo!Get
    BY <1>1, <2>1, <2>3 DEF Fifo!Get
  <2> QED
    BY <2>4 DEF Fifo!Next
<1>5. ASSUME NEW k, WriteLoad(k) \/ ReadLoad(k)
      PROVE  prod'.i = prod.i /\ cons'.i = cons.i /\ got' = got
  BY <1>5 DEF WriteLoad, ReadLoad, IndInv, TypeOK
<1>6. ASSUME WriteSlot \/ ReadSlot \/ Main \/ UNCHANGED vars
      PROVE  prod'.i = prod.i /\ cons'.i = cons.i /\ got' = got
  BY <1>6 DEF WriteSlot, ReadSlot, Main, MainCreateConsumer, MainCreateProducer, MainCreateFails,
              MainJoin, vars, IndInv, TypeOK
<1>7. CASE prod'.i = prod.i /\ cons'.i = cons.i /\ got' = got
  BY <1>1, <1>7
<1> QED
  BY <1>3, <1>4, <1>5, <1>6, <1>7 DEF Next, Producer, Consumer

(* The lock-free ring is a bounded first-in first-out queue, for every     *)
(* capacity that divides the number of index values, however often the     *)
(* indices wrap and however stale the indices are that the two threads     *)
(* load: a value enters at the release store of head, the oldest one       *)
(* leaves at the release store of tail, and no other step shows.           *)
THEOREM RingIsFifo == Spec => ImplementsBoundedFifo
<1>1. Init => Fifo!Init
  <2> SUFFICES ASSUME Init PROVE Contents = <<>> /\ got = <<>>
    BY DEF Fifo!Init
  <2>1. IndInv
    BY InitIndInv
  <2>2. Contents = Between(0, 0)
    BY <2>1, ContentsBetween DEF Init, HoldsUndelivered
  <2>3. Len(Between(0, 0)) = 0 /\ Between(0, 0) \in Seq(Nat)
    BY BetweenLists
  <2> QED
    BY <2>2, <2>3 DEF Init
<1>2. IndInv /\ HoldsUndelivered /\ HoldsUndelivered' /\ [Next]_vars
        => [Fifo!Next]_<<Contents, got>>
  BY FifoStep
<1> QED
  BY <1>1, <1>2, ContentsBetween, Safety, PTL DEF Spec, ImplementsBoundedFifo, Fifo!Spec

(* The elements of a sequence over S *)
LEMMA ElementsIn ==
  ASSUME NEW S, NEW s \in Seq(S)
  PROVE  Len(s) \in Nat /\ \A j \in 1..Len(s) : s[j] \in S
OBVIOUS

(***************************************************************************)
(* LruCache                                                                *)
(***************************************************************************)
(* A use of k is the last use of k, and leaves the other keys alone. *)
LEMMA UsesGrow ==
  ASSUME C!IndInv, NEW k \in Keys, NEW what, uses' = Append(uses, <<k, what>>)
  PROVE  \E z \in Nat :
           /\ z = Len(uses) /\ Len(uses') = z + 1
           /\ uses'[z + 1][1] = k /\ uses'[z + 1][2] = what
           /\ \A n \in 1..z : uses'[n] = uses[n]
           /\ \A j : C!Used(j) \subseteq 1..z
           /\ \A j : j # k => C!Used(j)' = C!Used(j)
           /\ C!Used(k)' = C!Used(k) \cup {z + 1}
<1>1. PICK z \in Nat : z = Len(uses)
  BY ElementsIn, Zenon DEF C!IndInv, C!TypeOK
<1>2. /\ Len(uses') = z + 1 /\ uses'[z + 1] = <<k, what>>
      /\ \A n \in 1..z : uses'[n] = uses[n]
  <2>1. uses \in Seq(Keys \X ({<<>>} \cup {<<v>> : v \in Values}))
    BY DEF C!IndInv, C!TypeOK
  <2> HIDE DEF C!IndInv
  <2> QED
    BY <1>1, <2>1
<1>3. uses'[z + 1][1] = k /\ uses'[z + 1][2] = what
  BY <1>2
<1>4. \A j : C!Used(j) \subseteq 1..z
  BY <1>1, Zenon DEF C!Used
<1>5. \A n : n \in 1..(z + 1) <=> n \in 1..z \/ n = z + 1
  OBVIOUS
<1>6. \A j, n : n \in C!Used(j)' <=> n \in 1..(z + 1) /\ uses'[n][1] = j
  BY <1>2, Zenon DEF C!Used
<1>7. \A j, n : n \in C!Used(j) <=> n \in 1..z /\ uses[n][1] = j
  BY <1>1, Zenon DEF C!Used
<1>8. ~(z + 1 \in 1..z)
  OBVIOUS
<1>9. ASSUME NEW j, NEW n PROVE n \in C!Used(j)' <=> n \in C!Used(j) \/ (j = k /\ n = z + 1)
  <2>1. CASE n \in 1..z
    <3>1. uses'[n] = uses[n] /\ n # z + 1 /\ n \in 1..(z + 1)
      BY <1>2, <1>5, <1>8, <2>1, Zenon
    <3>2. n \in C!Used(j)' <=> uses'[n][1] = j
      BY <1>6, <3>1, Zenon
    <3>3. n \in C!Used(j) <=> uses[n][1] = j
      BY <1>7, <2>1, Zenon
    <3> QED
      BY <3>1, <3>2, <3>3
  <2>2. CASE n = z + 1
    <3>1. n \in C!Used(j)' <=> j = k
      BY <1>3, <1>5, <1>6, <2>2, Zenon
    <3> QED
      BY <1>7, <1>8, <2>2, <3>1, Zenon
  <2>3. CASE ~(n \in 1..(z + 1))
    BY <1>5, <1>6, <1>7, <2>3, Zenon
  <2> QED
    BY <1>5, <2>1, <2>2, <2>3, Zenon
<1>10. ASSUME NEW j, j # k PROVE C!Used(j)' = C!Used(j)
  <2>1. \A n : n \in C!Used(j)' <=> n \in C!Used(j)
    BY <1>9, <1>10, Zenon
  <2> QED
    BY <2>1, Zenon
<1>11. C!Used(k)' = C!Used(k) \cup {z + 1}
  BY <1>9, Zenon
<1> QED
  BY <1>1, <1>2, <1>3, <1>4, <1>10, <1>11, Zenon

LEMMA UseOrders ==
  ASSUME C!IndInv, NEW k \in Keys, NEW what, uses' = Append(uses, <<k, what>>)
  PROVE  /\ \A j : j # k => C!UsedAfter(k, j)'
         /\ \A i, j : i # k /\ j # k /\ C!UsedAfter(i, j) => C!UsedAfter(i, j)'
<1>1. PICK z \in Nat :
           /\ z = Len(uses) /\ Len(uses') = z + 1
           /\ \A j : C!Used(j) \subseteq 1..z
           /\ \A j : j # k => C!Used(j)' = C!Used(j)
           /\ C!Used(k)' = C!Used(k) \cup {z + 1}
  BY UsesGrow, Zenon
<1>2. \A m \in 1..z : m < z + 1
  OBVIOUS
<1>3. ASSUME NEW j, j # k PROVE C!UsedAfter(k, j)'
  <2>1. z + 1 \in C!Used(k)' /\ \A m \in C!Used(j)' : m < z + 1
    BY <1>1, <1>2, <1>3, Zenon
  <2> QED
    BY <2>1, Zenon DEF C!UsedAfter
<1>4. ASSUME NEW i, NEW j, i # k, j # k, C!UsedAfter(i, j) PROVE C!UsedAfter(i, j)'
  <2>1. C!Used(i)' = C!Used(i) /\ C!Used(j)' = C!Used(j)
    BY <1>1, <1>4, Zenon
  <2> QED
    BY <1>4, <2>1, Zenon DEF C!UsedAfter
<1> QED
  BY <1>3, <1>4, Zenon

LEMMA UsePuts ==
  ASSUME C!IndInv, NEW k \in Keys, NEW what, uses' = Append(uses, <<k, what>>)
  PROVE  /\ \A v : what = <<v>> \/ (what = <<>> /\ C!LastPut(k, v)) => C!LastPut(k, v)'
         /\ \A j, v : j # k /\ C!LastPut(j, v) => C!LastPut(j, v)'
<1>1. PICK z \in Nat :
           /\ z = Len(uses) /\ Len(uses') = z + 1
           /\ uses'[z + 1][1] = k /\ uses'[z + 1][2] = what
           /\ \A n \in 1..z : uses'[n] = uses[n]
           /\ \A j : C!Used(j) \subseteq 1..z
           /\ \A j : j # k => C!Used(j)' = C!Used(j)
           /\ C!Used(k)' = C!Used(k) \cup {z + 1}
  BY UsesGrow, Zenon
<1>2. \A m \in 1..z : ~(m > z + 1)
  OBVIOUS
<1>3. ~(z + 1 > z + 1)
  OBVIOUS
<1>4. ASSUME NEW v, what = <<v>> PROVE C!LastPut(k, v)'
  <2>1. /\ z + 1 \in C!Used(k)' /\ uses'[z + 1][2] = <<v>>
        /\ \A m \in C!Used(k)' : m > z + 1 => uses'[m][2] = <<>>
    BY <1>1, <1>2, <1>3, <1>4, Zenon
  <2> QED
    BY <2>1, Zenon DEF C!LastPut
<1>5. ASSUME NEW v, what = <<>>, C!LastPut(k, v) PROVE C!LastPut(k, v)'
  <2>1. PICK n \in C!Used(k) : /\ uses[n][2] = <<v>>
                               /\ \A m \in C!Used(k) : m > n => uses[m][2] = <<>>
    BY <1>5, Zenon DEF C!LastPut
  <2>2. n \in C!Used(k)' /\ uses'[n][2] = <<v>>
    BY <1>1, <2>1, Zenon
  <2>3. \A m \in C!Used(k)' : m > n => uses'[m][2] = <<>>
    BY <1>1, <1>5, <2>1, Zenon
  <2> QED
    BY <2>2, <2>3, Zenon DEF C!LastPut
<1>6. ASSUME NEW j, NEW v, j # k, C!LastPut(j, v) PROVE C!LastPut(j, v)'
  <2>1. PICK n \in C!Used(j) : /\ uses[n][2] = <<v>>
                               /\ \A m \in C!Used(j) : m > n => uses[m][2] = <<>>
    BY <1>6, Zenon DEF C!LastPut
  <2>2. /\ C!Used(j)' = C!Used(j)
        /\ \A m \in C!Used(j) : uses'[m] = uses[m]
    BY <1>1, <1>6, Zenon
  <2> QED
    BY <2>1, <2>2, Zenon DEF C!LastPut
<1> QED
  BY <1>4, <1>5, <1>6, Zenon

LEMMA CacheInit == C!Init => C!IndInv
<1> SUFFICES ASSUME C!Init PROVE C!IndInv
  OBVIOUS
<1>1. C!TypeOK
  BY CacheAssumption DEF C!Init, C!TypeOK, C!NoNode
<1>2. C!Linked /\ C!ByRecency /\ C!Absent /\ C!Current
  BY DEF C!Init, C!Linked, C!ByRecency, C!Absent, C!Current
<1>3. C!Sized /\ C!GotCurrent
  BY CacheAssumption DEF C!Init, C!Sized, C!GotCurrent, C!Used
<1> QED
  BY <1>1, <1>2, <1>3 DEF C!IndInv

LEMMA CacheEnd == C!IndInv => C!LruExact
<1> SUFFICES ASSUME C!IndInv PROVE C!LruExact
  OBVIOUS
<1>1. C!Linked /\ C!Absent /\ C!Current /\ C!Sized /\ C!GotCurrent
  BY DEF C!IndInv
<1>2. ASSUME NEW k \in Keys, keys[k] # C!NoNode
      PROVE  /\ ~C!Free(keys[k]) /\ node[keys[k]][1] = k /\ C!LastPut(k, node[keys[k]][2])
             /\ \A j \in Keys : keys[j] = C!NoNode => C!UsedAfter(k, j)
  <2>1. PICK n \in 1..Len(list) : list[n] = keys[k] /\ C!Key(n) = k
    BY <1>1, <1>2, Zenon DEF C!Linked
  <2>2. ~C!Free(keys[k])
    BY <2>1, Zenon DEF C!Free
  <2>3. node[keys[k]][1] = k
    BY <2>1, Zenon DEF C!Key
  <2>4. C!LastPut(k, node[keys[k]][2])
    BY <1>1, <2>1, Zenon DEF C!Current
  <2>5. \A j \in Keys : keys[j] = C!NoNode => C!UsedAfter(k, j)
    BY <1>1, <2>1, Zenon DEF C!Absent
  <2> QED
    BY <2>2, <2>3, <2>4, <2>5
<1>3. ASSUME NEW n \in 1..Len(list) PROVE \E k \in Keys : keys[k] = list[n]
  <2>1. node[list[n]] \in C!Pair /\ keys[C!Key(n)] = list[n]
    BY <1>1, Zenon DEF C!Linked
  <2>2. C!Key(n) \in Keys
    BY <2>1 DEF C!Key, C!Pair
  <2> QED
    BY <2>1, <2>2, Zenon
<1>4. \A m, n \in 1..Len(list) : list[m] = list[n] => m = n
  BY <1>1, Zenon DEF C!Linked
<1> QED
  BY <1>1, <1>2, <1>3, <1>4, Zenon DEF C!LruExact

(* The node that was the o-th is the n-th, as it was, and it is not k's. *)
Stays(n, o, k) == list'[n] = list[o] /\ node'[list'[n]] = node[list[o]] /\ C!Key(o) # k

(* All but the first of y nodes are nodes of the old list in their order,  *)
(* and what is no longer in the map was behind them.                       *)
Shifted(k, y) ==
  /\ \A m, n \in 2..y : m < n =>
       \E q, o \in 1..Len(list) : q < o /\ Stays(m, q, k) /\ Stays(n, o, k)
  /\ \A n \in 2..y, j \in Keys :
       \E o \in 1..Len(list) :
         /\ Stays(n, o, k)
         /\ keys'[j] = C!NoNode =>
              keys[j] = C!NoNode \/ \E e \in 1..Len(list) : o < e /\ C!Key(e) = j

(* The order of the list, when the first node is the key just used and the *)
(* others are nodes of the old list in their old order.                    *)
LEMMA Moved ==
  ASSUME C!IndInv, NEW k \in Keys, NEW v, NEW what, uses' = Append(uses, <<k, what>>),
         what = <<v>> \/ (what = <<>> /\ C!LastPut(k, v)),
         NEW y \in Nat, Len(list') = y,
         1 <= y => node'[list'[1]] = <<k, v>> /\ keys'[k] # C!NoNode,
         Shifted(k, y)
  PROVE  C!ByRecency' /\ C!Absent' /\ C!Current'
<1>1. /\ \A j : j # k => C!UsedAfter(k, j)'
      /\ \A i, j : i # k /\ j # k /\ C!UsedAfter(i, j) => C!UsedAfter(i, j)'
  BY UseOrders
<1>2. C!LastPut(k, v)' /\ \A j, x : j # k /\ C!LastPut(j, x) => C!LastPut(j, x)'
  BY UsePuts, Zenon
<1>3. \A n, o : Stays(n, o, k) => C!Key(n)' = C!Key(o) /\ C!Key(n)' # k
  BY Zenon DEF Stays, C!Key
<1>4. \A n \in 1..y : n = 1 \/ n \in 2..y
  OBVIOUS
<1>5. 1 <= y => C!Key(1)' = k /\ node'[list'[1]][2] = v
  BY DEF C!Key
<1>6. \A n \in 1..y : 1 <= y
  OBVIOUS
<1>7. \A n \in 2..y : \E o \in 1..Len(list) : Stays(n, o, k)
  <2> TAKE n \in 2..y
  <2> QED
    BY Zenon DEF Shifted
<1>8. C!ByRecency'
  <2>1. ASSUME NEW m \in 1..y, NEW n \in 1..y, m < n PROVE C!UsedAfter(C!Key(m), C!Key(n))'
    <3>1. CASE m = 1
      <4>1. n \in 2..y /\ 1 <= y
        BY <2>1, <3>1
      <4>2. C!Key(n)' # k /\ C!Key(m)' = k
        BY <1>3, <1>5, <1>7, <3>1, <4>1, Zenon
      <4> QED
        BY <1>1, <4>2, Zenon DEF C!UsedAfter
    <3>2. CASE m # 1
      <4>1. m \in 2..y /\ n \in 2..y
        BY <2>1, <3>2
      <4>2. PICK q, o \in 1..Len(list) : q < o /\ Stays(m, q, k) /\ Stays(n, o, k)
        BY <2>1, <4>1, Zenon DEF Shifted
      <4>3. C!UsedAfter(C!Key(q), C!Key(o))
        BY <4>2, Zenon DEF C!IndInv, C!ByRecency
      <4>4. /\ C!Key(m)' = C!Key(q) /\ C!Key(m)' # k
            /\ C!Key(n)' = C!Key(o) /\ C!Key(n)' # k
        BY <1>3, <4>2, Zenon
      <4> QED
        BY <1>1, <4>3, <4>4, Zenon DEF C!UsedAfter
    <3> QED
      BY <3>1, <3>2
  <2> QED
    BY <2>1, Zenon DEF C!ByRecency
<1>9. C!Absent'
  <2>1. ASSUME NEW n \in 1..y, NEW j \in Keys, keys'[j] = C!NoNode
        PROVE  C!UsedAfter(C!Key(n), j)'
    <3>0. j # k
      BY <1>6, <2>1, Zenon
    <3>1. CASE n = 1
      BY <1>1, <1>5, <1>6, <3>0, <3>1, Zenon DEF C!UsedAfter
    <3>2. CASE n \in 2..y
      <4>1. PICK o \in 1..Len(list) :
              /\ Stays(n, o, k)
              /\ keys[j] = C!NoNode \/ \E e \in 1..Len(list) : o < e /\ C!Key(e) = j
        BY <2>1, <3>2, Zenon DEF Shifted
      <4>2. C!UsedAfter(C!Key(o), j)
        BY <4>1, Zenon DEF C!IndInv, C!Absent, C!ByRecency
      <4>3. C!Key(n)' = C!Key(o) /\ C!Key(n)' # k
        BY <1>3, <4>1, Zenon
      <4> QED
        BY <1>1, <3>0, <4>2, <4>3, Zenon DEF C!UsedAfter
    <3> QED
      BY <1>4, <3>1, <3>2, Zenon
  <2> QED
    BY <2>1, Zenon DEF C!Absent, C!NoNode
<1>10. C!Current'
  <2>1. ASSUME NEW n \in 1..y PROVE C!LastPut(C!Key(n), node[list[n]][2])'
    <3>1. CASE n = 1
      BY <1>2, <1>5, <1>6, <3>1, Zenon DEF C!LastPut
    <3>2. CASE n \in 2..y
      <4>1. PICK o \in 1..Len(list) : Stays(n, o, k)
        BY <1>7, <3>2, Zenon
      <4>2. C!LastPut(C!Key(o), node[list[o]][2])
        BY Zenon DEF C!IndInv, C!Current
      <4>3. C!Key(n)' = C!Key(o) /\ C!Key(n)' # k
        BY <1>3, <4>1, Zenon
      <4>4. node'[list'[n]][2] = node[list[o]][2]
        BY <4>1 DEF Stays
      <4>5. PICK i, x : i = C!Key(n)' /\ x = node'[list'[n]][2] /\ i # k /\ C!LastPut(i, x)
        BY <4>2, <4>3, <4>4, Zenon
      <4>6. C!LastPut(i, x)'
        BY <1>2, <4>5, Zenon
      <4> QED
        BY <4>5, <4>6, Zenon DEF C!LastPut
    <3> QED
      BY <1>4, <3>1, <3>2, Zenon
  <2> QED
    BY <2>1, Zenon DEF C!Current
<1> QED
  BY <1>8, <1>9, <1>10

(* Moving a node to the front keeps the nodes and the order of the others. *)
LEMMA Spliced ==
  ASSUME C!IndInv, NEW p \in 1..Len(list), C!Splice(p)
  PROVE  \E z \in Nat :
           /\ z = Len(list) /\ list' \in Seq(Addresses) /\ Len(list') = z /\ list'[1] = list[p]
           /\ \A m, n \in 2..z : m < n =>
                \E q, o \in 1..z :
                  q < o /\ q # p /\ o # p /\ list'[m] = list[q] /\ list'[n] = list[o]
           /\ \A n \in 1..z : \E o \in 1..z : list'[n] = list[o] /\ (n # 1 => o # p)
           /\ \A o \in 1..z : \E n \in 1..z : list'[n] = list[o]
           /\ \A m, n \in 1..z : list'[m] = list'[n] => m = n
<1>0. PICK z \in Nat : z = Len(list) /\ list \in Seq(Addresses) /\ \A n \in 1..z : list[n] \in Addresses
  BY ElementsIn, Zenon DEF C!IndInv, C!TypeOK
<1>1. p \in 1..z /\ 1 <= z /\ 1 \in 1..z
  BY <1>0
<1>2. list' = [n \in 1..z |->
                 IF n = 1 THEN list[p] ELSE IF n <= p THEN list[n - 1] ELSE list[n]]
  BY <1>0, Zenon DEF C!Splice
<1>3. \A n \in 1..z :
        list'[n] = IF n = 1 THEN list[p] ELSE IF n <= p THEN list[n - 1] ELSE list[n]
  BY <1>2, Zenon
<1>4. list'[1] = list[p]
  BY <1>1, <1>3, Zenon
<1>5. \A n \in 2..z : n <= p => list'[n] = list[n - 1]
  <2> TAKE n \in 2..z
  <2>1. n \in 1..z /\ n # 1
    OBVIOUS
  <2> QED
    BY <1>3, <2>1, Zenon
<1>6. \A n \in 2..z : ~(n <= p) => list'[n] = list[n]
  <2> TAKE n \in 2..z
  <2>1. n \in 1..z /\ n # 1
    OBVIOUS
  <2> QED
    BY <1>3, <2>1, Zenon
<1>7. \A n \in 1..z : list'[n] \in Addresses
  <2> TAKE n \in 1..z
  <2>1. n - 1 \in 1..z \/ n = 1
    OBVIOUS
  <2> QED
    BY <1>0, <1>1, <1>3, <2>1, Zenon
<1>8. list' \in Seq(Addresses) /\ Len(list') = z
  <2>1. list' \in [1..z -> Addresses]
    BY <1>2, <1>7, Zenon
  <2> HIDE DEF C!IndInv
  <2> QED
    BY <2>1
<1>9. ASSUME NEW m \in 2..z, NEW n \in 2..z, m < n
      PROVE  \E q, o \in 1..z :
               q < o /\ q # p /\ o # p /\ list'[m] = list[q] /\ list'[n] = list[o]
  <2>1. CASE n <= p
    <3>1. PICK q, o \in 1..z : q = m - 1 /\ o = n - 1 /\ q < o /\ q # p /\ o # p /\ m <= p
      BY <1>1, <1>9, <2>1
    <3> QED
      BY <1>5, <2>1, <3>1, Zenon
  <2>2. CASE m <= p /\ ~(n <= p)
    <3>1. PICK q \in 1..z : q = m - 1 /\ q < n /\ q # p /\ n # p /\ n \in 1..z
      BY <1>1, <1>9, <2>2
    <3> QED
      BY <1>5, <1>6, <2>2, <3>1, Zenon
  <2>3. CASE ~(m <= p)
    <3>1. ~(n <= p) /\ m # p /\ n # p /\ m \in 1..z /\ n \in 1..z
      BY <1>1, <1>9, <2>3
    <3> QED
      BY <1>6, <1>9, <2>3, <3>1, Zenon
  <2> QED
    BY <2>1, <2>2, <2>3
<1>10. ASSUME NEW n \in 1..z PROVE \E o \in 1..z : list'[n] = list[o] /\ (n # 1 => o # p)
  <2>1. CASE n = 1
    BY <1>1, <1>4, <2>1, Zenon
  <2>2. CASE n # 1 /\ n <= p
    <3>1. PICK o \in 1..z : o = n - 1 /\ o # p /\ n \in 2..z
      BY <1>1, <2>2
    <3> QED
      BY <1>5, <2>2, <3>1, Zenon
  <2>3. CASE n # 1 /\ ~(n <= p)
    <3>1. n # p /\ n \in 2..z
      BY <1>1, <2>3
    <3> QED
      BY <1>6, <2>3, <3>1, Zenon
  <2> QED
    BY <2>1, <2>2, <2>3
<1>11. ASSUME NEW o \in 1..z PROVE \E n \in 1..z : list'[n] = list[o]
  <2>1. CASE o = p
    BY <1>1, <1>4, <2>1, Zenon
  <2>2. CASE o < p
    <3>1. PICK n \in 2..z : n = o + 1 /\ n <= p /\ n - 1 = o /\ n \in 1..z
      BY <1>1, <2>2
    <3> QED
      BY <1>5, <3>1, Zenon
  <2>3. CASE o > p
    <3>1. ~(o <= p) /\ o \in 2..z
      BY <1>1, <2>3
    <3> QED
      BY <1>6, <3>1, Zenon
  <2> QED
    BY <1>1, <2>1, <2>2, <2>3
<1>12. ASSUME NEW m \in 1..z, NEW n \in 1..z, m < n PROVE list'[m] # list'[n]
  <2>0. \A q, o \in 1..z : list[q] = list[o] => q = o
    BY <1>0, Zenon DEF C!IndInv, C!Linked
  <2>1. CASE m = 1
    <3>1. PICK o \in 1..z : list'[n] = list[o] /\ o # p
      <4>1. n # 1
        BY <1>12, <2>1
      <4> QED
        BY <1>10, <4>1, Zenon
    <3> QED
      BY <1>1, <1>4, <2>0, <2>1, <3>1, Zenon
  <2>2. CASE m # 1
    <3>1. m \in 2..z /\ n \in 2..z
      BY <1>12, <2>2
    <3>2. PICK q, o \in 1..z : q < o /\ list'[m] = list[q] /\ list'[n] = list[o]
      BY <1>9, <1>12, <3>1, ZenonT(30)
    <3>3. q # o
      BY <3>2
    <3> QED
      BY <2>0, <3>2, <3>3, Zenon
  <2> QED
    BY <2>1, <2>2
<1>13. ASSUME NEW m \in 1..z, NEW n \in 1..z, list'[m] = list'[n] PROVE m = n
  <2>1. ~(m < n) /\ ~(n < m)
    BY <1>12, <1>13, Zenon
  <2> QED
    BY <2>1
<1> QED
  BY <1>0, <1>4, <1>8, <1>9, <1>10, <1>11, <1>13, Zenon

(* What the invariant says of the places of the list *)
LEMMA PlacesLinked ==
  ASSUME C!IndInv, NEW z \in Nat, z = Len(list)
  PROVE  /\ \A n \in 1..z : /\ list[n] \in Addresses /\ node[list[n]] \in C!Pair
                            /\ C!Key(n) \in Keys /\ keys[C!Key(n)] = list[n]
         /\ \A j \in Keys : keys[j] # C!NoNode => \E n \in 1..z : list[n] = keys[j] /\ C!Key(n) = j
         /\ \A m, n \in 1..z : list[m] = list[n] => m = n
<1>1. \A n \in 1..z : list[n] \in Addresses
  BY ElementsIn, Zenon DEF C!IndInv, C!TypeOK
<1>2. \A n \in 1..z : node[list[n]] \in C!Pair /\ keys[C!Key(n)] = list[n]
  BY Zenon DEF C!IndInv, C!Linked
<1>3. \A x \in C!Pair : x[1] \in Keys
  BY DEF C!Pair
<1>4. \A n \in 1..z : C!Key(n) \in Keys
  BY <1>2, <1>3, Zenon DEF C!Key
<1>5. /\ \A j \in Keys : keys[j] # C!NoNode => \E n \in 1..z : list[n] = keys[j] /\ C!Key(n) = j
      /\ \A m, n \in 1..z : list[m] = list[n] => m = n
  BY Zenon DEF C!IndInv, C!Linked
<1> QED
  BY <1>1, <1>2, <1>4, <1>5, Zenon

LEMMA UsesTyped ==
  ASSUME C!IndInv, NEW k \in Keys, NEW what \in {<<>>} \cup {<<v>> : v \in Values},
         uses' = Append(uses, <<k, what>>)
  PROVE  uses' \in Seq(Keys \X ({<<>>} \cup {<<v>> : v \in Values}))
<1> DEFINE U == Keys \X ({<<>>} \cup {<<v>> : v \in Values})
<1>1. uses \in Seq(U)
  BY DEF C!IndInv, C!TypeOK
<1>2. <<k, what>> \in U
  OBVIOUS
<1> HIDE DEF U
<1>3. Append(uses, <<k, what>>) \in Seq(U)
  BY <1>1, <1>2
<1> QED
  BY <1>3 DEF U

(* A key that is in the cache is used. *)
LEMMA Hit ==
  ASSUME C!IndInv, NEW k \in Keys, NEW v \in Values, NEW what,
         keys[k] # C!NoNode, NEW p \in 1..Len(list), list[p] = keys[k], C!Splice(p),
         uses' = Append(uses, <<k, what>>),
         what = <<v>> \/ (what = <<>> /\ node[keys[k]] = <<k, v>>),
         node' = [node EXCEPT ![list[p]] = <<k, v>>],
         capacity' = capacity, keys' = keys
  PROVE  /\ C!TypeOK' /\ C!Linked' /\ C!ByRecency' /\ C!Absent' /\ C!Current' /\ C!Sized'
         /\ node'[list'[1]] = <<k, v>> /\ C!LastPut(k, v)'
<1>0. PICK z \in Nat :
        /\ z = Len(list) /\ list' \in Seq(Addresses) /\ Len(list') = z /\ list'[1] = list[p]
        /\ \A m, n \in 2..z : m < n =>
             \E q, o \in 1..z :
               q < o /\ q # p /\ o # p /\ list'[m] = list[q] /\ list'[n] = list[o]
        /\ \A n \in 1..z : \E o \in 1..z : list'[n] = list[o] /\ (n # 1 => o # p)
        /\ \A o \in 1..z : \E n \in 1..z : list'[n] = list[o]
        /\ \A m, n \in 1..z : list'[m] = list'[n] => m = n
  BY Spliced, Zenon
<1>1. /\ \A n \in 1..z : /\ list[n] \in Addresses /\ node[list[n]] \in C!Pair
                         /\ C!Key(n) \in Keys /\ keys[C!Key(n)] = list[n]
      /\ \A j \in Keys : keys[j] # C!NoNode => \E n \in 1..z : list[n] = keys[j] /\ C!Key(n) = j
      /\ \A m, n \in 1..z : list[m] = list[n] => m = n
  BY <1>0, PlacesLinked, Zenon
<1>2. p \in 1..z /\ C!Key(p) = k
  <2>1. p \in 1..z
    BY <1>0, Zenon
  <2>2. PICK n \in 1..z : list[n] = keys[k] /\ C!Key(n) = k
    BY <1>1, Zenon
  <2>3. list[n] = list[p]
    BY <2>2
  <2>4. n = p
    BY <1>1, <2>1, <2>3, Zenon
  <2> QED
    BY <2>1, <2>2, <2>4, Zenon
<1>3. node \in [Addresses -> C!Pair \cup {<<>>}] /\ <<k, v>> \in C!Pair
  BY DEF C!IndInv, C!TypeOK, C!Pair
<1>4. \A a \in Addresses : node'[a] = IF a = list[p] THEN <<k, v>> ELSE node[a]
  BY <1>3
<1>5. node' \in [Addresses -> C!Pair \cup {<<>>}]
  BY <1>3
<1>6. node'[list[p]] = <<k, v>>
  BY <1>1, <1>2, <1>4, Zenon
<1>7. ASSUME NEW o \in 1..z, o # p PROVE node'[list[o]] = node[list[o]] /\ C!Key(o) # k
  <2>1. list[o] \in Addresses /\ list[o] # list[p] /\ keys[C!Key(o)] = list[o]
    BY <1>1, <1>2, <1>7, Zenon
  <2>2. node'[list[o]] = node[list[o]]
    BY <1>4, <2>1, Zenon
  <2>3. C!Key(o) # k
    BY <2>1, Zenon
  <2> QED
    BY <2>2, <2>3
<1>8. \A n, o \in 1..z : list'[n] = list[o] /\ o # p => Stays(n, o, k)
  BY <1>7, Zenon DEF Stays
<1>9. what = <<>> => C!LastPut(k, v)
  <2>1. C!LastPut(k, node[list[p]][2])
    BY <1>0, <1>2, Zenon DEF C!IndInv, C!Current
  <2>2. ASSUME what = <<>> PROVE node[list[p]][2] = v
    BY <2>2
  <2> QED
    BY <2>1, <2>2, Zenon
<1>10. C!LastPut(k, v)'
  BY <1>9, UsePuts, Zenon
<1>11. \A n \in 2..z : n \in 1..z /\ n # 1
  OBVIOUS
<1>12. \A m, n \in 2..z : m < n =>
         \E q, o \in 1..Len(list) : q < o /\ Stays(m, q, k) /\ Stays(n, o, k)
  BY <1>0, <1>8, <1>11, Zenon
<1>13. \A n \in 2..z, j \in Keys :
         \E o \in 1..Len(list) :
           /\ Stays(n, o, k)
           /\ keys'[j] = C!NoNode =>
                keys[j] = C!NoNode \/ \E e \in 1..Len(list) : o < e /\ C!Key(e) = j
  BY <1>0, <1>8, <1>11, ZenonT(30)
<1>14. C!ByRecency' /\ C!Absent' /\ C!Current'
  <2>1. what = <<v>> \/ (what = <<>> /\ C!LastPut(k, v))
    BY <1>9
  <2>2. Len(list') = z /\ (1 <= z => node'[list'[1]] = <<k, v>> /\ keys'[k] # C!NoNode)
    BY <1>0, <1>6, Zenon
  <2>3. Shifted(k, z)
    BY <1>12, <1>13, Zenon DEF Shifted
  <2> QED
    BY <2>1, <2>2, <2>3, Moved, Zenon
<1>15. C!Linked'
  <2>1. ASSUME NEW n \in 1..z PROVE node'[list'[n]] \in C!Pair /\ keys'[C!Key(n)'] = list'[n]
    <3>1. PICK o \in 1..z : list'[n] = list[o]
      BY <1>0, ZenonT(30)
    <3>2. CASE o = p
      <4>1. node'[list'[n]] = <<k, v>> /\ node'[list'[n]] \in C!Pair
        BY <1>3, <1>6, <3>1, <3>2, Zenon
      <4>2. C!Key(n)' = k
        BY <4>1 DEF C!Key
      <4> QED
        BY <3>1, <3>2, <4>1, <4>2, Zenon
    <3>3. CASE o # p
      <4>1. node'[list'[n]] = node[list[o]] /\ C!Key(n)' = C!Key(o)
        BY <1>7, <3>1, <3>3, Zenon DEF C!Key
      <4> QED
        BY <1>1, <3>1, <4>1, ZenonT(30)
    <3> QED
      BY <3>2, <3>3
  <2>2. ASSUME NEW j \in Keys, keys'[j] # C!NoNode
        PROVE  \E n \in 1..z : list'[n] = keys'[j] /\ C!Key(n)' = j
    <3>1. PICK o \in 1..z : list[o] = keys[j] /\ C!Key(o) = j
      BY <1>1, <2>2, Zenon
    <3>2. PICK n \in 1..z : list'[n] = list[o]
      BY <1>0, Zenon
    <3>3. CASE o = p
      <4>1. node'[list'[n]] = <<k, v>>
        BY <1>6, <3>2, <3>3, Zenon
      <4>2. C!Key(n)' = k
        BY <4>1 DEF C!Key
      <4> QED
        BY <1>2, <3>1, <3>2, <3>3, <4>2, Zenon
    <3>4. CASE o # p
      <4>1. C!Key(n)' = C!Key(o)
        BY <1>7, <3>2, <3>4, Zenon DEF C!Key
      <4> QED
        BY <3>1, <3>2, <4>1, Zenon
    <3> QED
      BY <3>3, <3>4
  <2> QED
    BY <1>0, <2>1, <2>2, Zenon DEF C!Linked, C!NoNode
<1>16. C!Sized'
  <2>1. z <= capacity /\ ((\E j \in Keys : C!Used(j) # {} /\ keys[j] = C!NoNode) => z = capacity)
    BY <1>0, Zenon DEF C!IndInv, C!Sized
  <2>2. \A j : j # k => C!Used(j)' = C!Used(j)
    BY UsesGrow, Zenon
  <2> QED
    BY <1>0, <2>1, <2>2, Zenon DEF C!Sized, C!NoNode
<1>17. C!TypeOK'
  <2>1. what \in {<<>>} \cup {<<x>> : x \in Values}
    OBVIOUS
  <2>2. uses' \in Seq(Keys \X ({<<>>} \cup {<<x>> : x \in Values}))
    BY <2>1, UsesTyped, Zenon
  <2>3. capacity' \in Nat /\ keys' \in [Keys -> Addresses \cup {C!NoNode}]
    BY Zenon DEF C!IndInv, C!TypeOK
  <2> QED
    BY <1>0, <1>5, <2>2, <2>3, Zenon DEF C!TypeOK, C!NoNode, C!Pair
<1> QED
  BY <1>0, <1>6, <1>10, <1>14, <1>15, <1>16, <1>17, Zenon

(* The first of y nodes, at address a, is the new one of k; the others are *)
(* the first of the z nodes there were, and the map is as the list.        *)
InFirstPlace(k, v, a, z, y) ==
  /\ Len(list') = y /\ 1 <= y /\ list'[1] = a /\ node'[a] = <<k, v>> /\ keys'[k] = a
  /\ \A n \in 1..z : n + 1 <= y =>
       /\ list'[n + 1] = list[n] /\ node'[list[n]] = node[list[n]]
       /\ keys'[C!Key(n)] = list[n]
  /\ \A j \in Keys : j # k /\ keys'[j] # C!NoNode =>
       \E n \in 1..z : n + 1 <= y /\ C!Key(n) = j /\ list[n] = keys'[j]
  /\ \A j \in Keys : keys'[j] = C!NoNode => keys[j] = C!NoNode \/ (y = z /\ C!Key(z) = j)

(* A key that is not in the cache is put in front of the list, of which    *)
(* all places stay (y = z + 1), or all but the last (y = z).               *)
LEMMA InFront ==
  ASSUME C!IndInv, NEW k \in Keys, NEW v \in Values, NEW a \in Addresses,
         keys[k] = C!NoNode, C!Free(a),
         NEW what, what = <<v>>, uses' = Append(uses, <<k, what>>),
         NEW z \in Nat, z = Len(list), NEW y \in Nat, y = z \/ y = z + 1,
         InFirstPlace(k, v, a, z, y)
  PROVE  C!Linked' /\ C!ByRecency' /\ C!Absent' /\ C!Current'
<1> USE DEF InFirstPlace
<1>1. /\ \A n \in 1..z : /\ list[n] \in Addresses /\ node[list[n]] \in C!Pair
                         /\ C!Key(n) \in Keys /\ keys[C!Key(n)] = list[n]
      /\ \A m, n \in 1..z : list[m] = list[n] => m = n
  BY PlacesLinked, Zenon
<1>2. C!NoNode \notin Addresses /\ <<k, v>> \in C!Pair
  BY CacheAssumption DEF C!NoNode, C!Pair
<1>3. ASSUME NEW n \in 1..z PROVE C!Key(n) # k /\ list[n] # a
  <2>1. list[n] \in Addresses /\ keys[C!Key(n)] = list[n]
    BY <1>1, Zenon
  <2>2. C!Key(n) # k
    BY <1>2, <2>1, Zenon
  <2>3. list[n] # a
    BY Zenon DEF C!Free
  <2> QED
    BY <2>2, <2>3
<1>4. \A n \in 2..y : \E o \in 1..z : n = o + 1 /\ o + 1 <= y
  <2> TAKE n \in 2..y
  <2>1. n - 1 \in 1..z /\ n = (n - 1) + 1 /\ (n - 1) + 1 <= y
    OBVIOUS
  <2> QED
    BY <2>1, Zenon
<1>5. \A o \in 1..z : o + 1 <= y => o + 1 \in 1..y /\ o + 1 # 1
  OBVIOUS
<1>6. \A o \in 1..z : o + 1 <= y => Stays(o + 1, o, k)
  BY <1>3, ZenonT(30) DEF Stays
<1>7. ASSUME NEW m \in 2..y, NEW n \in 2..y, m < n
      PROVE  \E q, o \in 1..Len(list) : q < o /\ Stays(m, q, k) /\ Stays(n, o, k)
  <2>1. PICK q \in 1..z : m = q + 1 /\ q + 1 <= y
    BY <1>4, Zenon
  <2>2. PICK o \in 1..z : n = o + 1 /\ o + 1 <= y
    BY <1>4, Zenon
  <2>3. q < o
    BY <1>7, <2>1, <2>2
  <2> QED
    BY <1>6, <2>1, <2>2, <2>3, Zenon
<1>8. ASSUME NEW n \in 2..y, NEW j \in Keys
      PROVE  \E o \in 1..Len(list) :
               /\ Stays(n, o, k)
               /\ keys'[j] = C!NoNode =>
                    keys[j] = C!NoNode \/ \E e \in 1..Len(list) : o < e /\ C!Key(e) = j
  <2>1. PICK o \in 1..z : n = o + 1 /\ o + 1 <= y
    BY <1>4, Zenon
  <2>2. Stays(n, o, k)
    BY <1>6, <2>1, Zenon
  <2>3. y = z => o < z /\ z \in 1..z
    BY <2>1
  <2> QED
    BY <2>2, <2>3, Zenon
<1>9. C!ByRecency' /\ C!Absent' /\ C!Current'
  <2>1. what = <<v>> \/ (what = <<>> /\ C!LastPut(k, v))
    OBVIOUS
  <2>2. Len(list') = y /\ (1 <= y => node'[list'[1]] = <<k, v>> /\ keys'[k] # C!NoNode)
    BY <1>2, Zenon
  <2>3. Shifted(k, y)
    BY <1>7, <1>8, Zenon DEF Shifted
  <2> QED
    BY <2>1, <2>2, <2>3, Moved, Zenon
<1>10. \A n \in 1..y : n = 1 \/ n \in 2..y
  OBVIOUS
<1>11. C!Key(1)' = k
  BY DEF C!Key
<1>12. ASSUME NEW o \in 1..z, o + 1 <= y
       PROVE  /\ list'[o + 1] = list[o] /\ node'[list[o]] = node[list[o]]
              /\ keys'[C!Key(o)] = list[o] /\ C!Key(o + 1)' = C!Key(o)
  <2>1. /\ list'[o + 1] = list[o] /\ node'[list[o]] = node[list[o]]
        /\ keys'[C!Key(o)] = list[o]
    BY <1>12, Zenon
  <2>2. node'[list'[o + 1]] = node[list[o]]
    BY <2>1, Zenon
  <2> QED
    BY <2>1, <2>2, Zenon DEF C!Key
<1>13. ASSUME NEW n \in 1..y PROVE node'[list'[n]] \in C!Pair /\ keys'[C!Key(n)'] = list'[n]
  <2>1. CASE n = 1
    BY <1>2, <1>11, <2>1, Zenon
  <2>2. CASE n \in 2..y
    <3>1. PICK o \in 1..z : n = o + 1 /\ o + 1 <= y
      BY <1>4, <2>2, Zenon
    <3>2. /\ list'[n] = list[o] /\ node'[list[o]] = node[list[o]]
          /\ keys'[C!Key(o)] = list[o] /\ C!Key(n)' = C!Key(o)
      BY <1>12, <3>1, Zenon
    <3>3. node[list[o]] \in C!Pair
      BY <1>1, Zenon
    <3> QED
      BY <3>2, <3>3, Zenon
  <2> QED
    BY <1>10, <2>1, <2>2, Zenon
<1>14. ASSUME NEW j \in Keys, keys'[j] # C!NoNode
       PROVE  \E n \in 1..y : list'[n] = keys'[j] /\ C!Key(n)' = j
  <2>1. CASE j = k
    <3>1. 1 \in 1..y
      OBVIOUS
    <3> QED
      BY <1>11, <2>1, <3>1, Zenon
  <2>2. CASE j # k
    <3>1. PICK o \in 1..z : o + 1 <= y /\ C!Key(o) = j /\ list[o] = keys'[j]
      BY <1>14, <2>2, Zenon
    <3>2. list'[o + 1] = keys'[j] /\ C!Key(o + 1)' = j
      BY <1>12, <3>1, Zenon
    <3> QED
      BY <1>5, <3>1, <3>2, Zenon
  <2> QED
    BY <2>1, <2>2
<1>15. ASSUME NEW m \in 1..y, NEW n \in 1..y, list'[m] = list'[n] PROVE m = n
  <2>1. ASSUME NEW i \in 2..y PROVE list'[i] # a
    <3>1. PICK o \in 1..z : i = o + 1 /\ o + 1 <= y
      BY <1>4, Zenon
    <3>2. list'[i] = list[o] /\ list[o] # a
      BY <1>3, <1>12, <3>1, Zenon
    <3> QED
      BY <3>2
  <2>2. CASE m = 1 \/ n = 1
    BY <1>10, <1>15, <2>1, <2>2, Zenon
  <2>3. CASE m \in 2..y /\ n \in 2..y
    <3>1. PICK q \in 1..z : m = q + 1 /\ q + 1 <= y
      BY <1>4, <2>3, Zenon
    <3>2. PICK o \in 1..z : n = o + 1 /\ o + 1 <= y
      BY <1>4, <2>3, Zenon
    <3>3. list[q] = list[o]
      BY <1>12, <1>15, <3>1, <3>2, Zenon
    <3>4. q = o
      BY <1>1, <3>3, Zenon
    <3> QED
      BY <3>1, <3>2, <3>4, Zenon
  <2> QED
    BY <1>10, <2>2, <2>3, Zenon
<1>16. C!Linked'
  BY <1>13, <1>14, <1>15, Zenon DEF C!Linked, C!NoNode
<1> QED
  BY <1>9, <1>16

LEMMA Pushing ==
  ASSUME NEW S, NEW s \in Seq(S), NEW a \in S, NEW z \in Nat, z = Len(s)
  PROVE  /\ <<a>> \o s \in Seq(S) /\ Len(<<a>> \o s) = z + 1 /\ (<<a>> \o s)[1] = a
         /\ \A n \in 1..z : (<<a>> \o s)[n + 1] = s[n]
OBVIOUS

LEMMA Popping ==
  ASSUME NEW S, NEW s \in Seq(S), NEW z \in Nat, Len(s) = z + 1
  PROVE  /\ SubSeq(s, 1, z) \in Seq(S) /\ Len(SubSeq(s, 1, z)) = z
         /\ \A n \in 1..z : SubSeq(s, 1, z)[n] = s[n]
OBVIOUS

(* After a put, what get returned before is not asked about. *)
LEMMA PutIsNoGet ==
  ASSUME C!IndInv, NEW k \in Keys, NEW v \in Values, NEW what, what = <<v>>,
         uses' = Append(uses, <<k, what>>)
  PROVE  C!GotCurrent'
<1>1. PICK z \in Nat : Len(uses') = z + 1 /\ uses'[z + 1][2] = what
  BY UsesGrow, ZenonT(30)
<1>2. what # <<>>
  OBVIOUS
<1>3. C!LastUse' = uses'[z + 1]
  BY <1>1, Zenon DEF C!LastUse
<1>4. C!LastUse'[2] # <<>>
  BY <1>1, <1>2, <1>3, Zenon
<1> QED
  BY <1>4, Zenon DEF C!GotCurrent

(* get *)
LEMMA GetHitStep ==
  ASSUME C!IndInv, NEW k \in Keys, C!GetHit(k)
  PROVE  C!IndInv'
<1>1. /\ keys[k] # C!NoNode /\ returned' = node[list'[1]] /\ node' = node
      /\ capacity' = capacity /\ keys' = keys
  BY Zenon DEF C!GetHit
<1>2. PICK p \in 1..Len(list) : list[p] = keys[k] /\ C!Splice(p)
  BY Zenon DEF C!GetHit
<1>3. PICK what : what = <<>> /\ uses' = Append(uses, <<k, what>>)
  BY Zenon DEF C!GetHit, C!Use
<1>4. PICK z \in Nat : z = Len(list)
  BY ElementsIn, Zenon DEF C!IndInv, C!TypeOK
<1>5. PICK n \in 1..z : list[n] = keys[k] /\ C!Key(n) = k /\ list[n] \in Addresses /\ node[list[n]] \in C!Pair
  BY <1>1, <1>4, PlacesLinked, Zenon
<1>6. PICK v \in Values : node[keys[k]] = <<k, v>>
  <2>1. node[keys[k]] \in C!Pair /\ node[keys[k]][1] = k
    BY <1>5, Zenon DEF C!Key
  <2>2. \A x \in C!Pair : x = <<x[1], x[2]>> /\ x[2] \in Values
    BY DEF C!Pair
  <2> QED
    BY <2>1, <2>2
<1>7. node' = [node EXCEPT ![list[p]] = <<k, v>>]
  <2>1. node \in [Addresses -> C!Pair \cup {<<>>}] /\ list[p] \in Addresses /\ node[list[p]] = <<k, v>>
    BY <1>2, <1>5, <1>6, Zenon DEF C!IndInv, C!TypeOK
  <2> QED
    BY <1>1, <2>1
<1>8. what = <<v>> \/ (what = <<>> /\ node[keys[k]] = <<k, v>>)
  BY <1>3, <1>6
<1>9. /\ C!TypeOK' /\ C!Linked' /\ C!ByRecency' /\ C!Absent' /\ C!Current' /\ C!Sized'
      /\ node'[list'[1]] = <<k, v>> /\ C!LastPut(k, v)'
  BY <1>1, <1>2, <1>3, <1>7, <1>8, Hit, Zenon
<1>10. C!GotCurrent'
  <2>1. returned' = <<k, v>>
    BY <1>1, <1>9, Zenon
  <2>2. returned'[1] = k /\ returned'[2] = v
    BY <2>1
  <2>3. PICK y \in Nat : Len(uses') = y + 1 /\ uses'[y + 1][1] = k
    BY <1>3, UsesGrow, Zenon
  <2>4. C!LastUse'[1] = k
    BY <2>3, Zenon DEF C!LastUse
  <2>5. C!LastPut(returned[1], returned[2])'
    BY <1>9, <2>2, Zenon DEF C!LastPut
  <2> QED
    BY <2>2, <2>4, <2>5, Zenon DEF C!GotCurrent
<1> QED
  BY <1>9, <1>10, Zenon DEF C!IndInv

(* put of a key that is there *)
LEMMA PutOldStep ==
  ASSUME C!IndInv, NEW k \in Keys, NEW v \in Values, C!PutOld(k, v)
  PROVE  C!IndInv'
<1>1. /\ keys[k] # C!NoNode /\ node' = [node EXCEPT ![list'[1]] = <<@[1], v>>]
      /\ capacity' = capacity /\ keys' = keys
  BY DEF C!PutOld
<1>2. PICK p \in 1..Len(list) : list[p] = keys[k] /\ C!Splice(p)
  BY Zenon DEF C!PutOld
<1>3. PICK what : what = <<v>> /\ uses' = Append(uses, <<k, what>>)
  BY Zenon DEF C!PutOld, C!Use
<1>4. PICK z \in Nat : z = Len(list)
  BY ElementsIn, Zenon DEF C!IndInv, C!TypeOK
<1>5. PICK n \in 1..z : list[n] = keys[k] /\ C!Key(n) = k
  BY <1>1, <1>4, PlacesLinked, Zenon
<1>6. list'[1] = list[p] /\ node[list[p]][1] = k
  <2>1. list'[1] = list[p]
    BY <1>2, Spliced, Zenon
  <2> QED
    BY <1>2, <1>5, <2>1, Zenon DEF C!Key
<1>7. node' = [node EXCEPT ![list[p]] = <<k, v>>]
  BY <1>1, <1>6
<1>8. what = <<v>> \/ (what = <<>> /\ node[keys[k]] = <<k, v>>)
  BY <1>3
<1>9. C!TypeOK' /\ C!Linked' /\ C!ByRecency' /\ C!Absent' /\ C!Current' /\ C!Sized'
  BY <1>1, <1>2, <1>3, <1>7, <1>8, Hit, Zenon
<1>10. C!GotCurrent'
  BY <1>3, PutIsNoGet, Zenon
<1> QED
  BY <1>9, <1>10, Zenon DEF C!IndInv

(* put of a key that is not there *)
LEMMA PutNewStep ==
  ASSUME C!IndInv, NEW k \in Keys, NEW v \in Values, NEW a \in Addresses, C!PutNew(k, v, a)
  PROVE  C!IndInv'
<1>0. PICK z \in Nat : z = Len(list) /\ list \in Seq(Addresses)
  BY ElementsIn, Zenon DEF C!IndInv, C!TypeOK
<1> DEFINE pushed == <<a>> \o list
           stored == [node EXCEPT ![a] = <<k, v>>]
           found == [keys EXCEPT ![k] = a]
<1>1. /\ pushed \in Seq(Addresses) /\ Len(pushed) = z + 1 /\ pushed[1] = a
      /\ \A n \in 1..z : pushed[n + 1] = list[n]
  BY <1>0, Pushing
<1>2. /\ node \in [Addresses -> C!Pair \cup {<<>>}] /\ <<k, v>> \in C!Pair
      /\ keys \in [Keys -> Addresses \cup {C!NoNode}] /\ capacity \in Nat
      /\ C!NoNode \notin Addresses
  BY CacheAssumption DEF C!IndInv, C!TypeOK, C!Pair, C!NoNode
<1>3. /\ stored \in [Addresses -> C!Pair \cup {<<>>}] /\ stored[a] = <<k, v>>
      /\ \A b \in Addresses : b # a => stored[b] = node[b]
  BY <1>2
<1>4. /\ found \in [Keys -> Addresses \cup {C!NoNode}] /\ found[k] = a
      /\ \A j \in Keys : j # k => found[j] = keys[j]
  BY <1>2
<1>5. PICK what : what = <<v>> /\ uses' = Append(uses, <<k, what>>)
  BY Zenon DEF C!PutNew, C!Use
<1>6. /\ keys[k] = C!NoNode /\ C!Free(a) /\ capacity' = capacity
      /\ IF z + 1 > capacity
           THEN /\ list' = SubSeq(pushed, 1, z + 1 - 1)
                /\ node' = [stored EXCEPT ![pushed[z + 1]] = <<>>]
                /\ keys' = [found EXCEPT ![stored[pushed[z + 1]][1]] = C!NoNode]
           ELSE list' = pushed /\ node' = stored /\ keys' = found
  <2>1. keys[k] = C!NoNode /\ C!Free(a) /\ capacity' = capacity
    BY ZenonT(30) DEF C!PutNew
  <2>2. IF Len(pushed) > capacity
          THEN /\ list' = SubSeq(pushed, 1, Len(pushed) - 1)
               /\ node' = [stored EXCEPT ![pushed[Len(pushed)]] = <<>>]
               /\ keys' = [found EXCEPT ![stored[pushed[Len(pushed)]][1]] = C!NoNode]
          ELSE list' = pushed /\ node' = stored /\ keys' = found
    BY DEF C!PutNew
  <2> HIDE DEF pushed, stored, found
  <2> QED
    BY <1>1, <2>1, <2>2
<1> HIDE DEF pushed, stored, found
<1>7. /\ \A n \in 1..z : /\ list[n] \in Addresses /\ node[list[n]] \in C!Pair
                         /\ C!Key(n) \in Keys /\ keys[C!Key(n)] = list[n]
      /\ \A j \in Keys : keys[j] # C!NoNode => \E n \in 1..z : list[n] = keys[j] /\ C!Key(n) = j
      /\ \A m, n \in 1..z : list[m] = list[n] => m = n
  BY <1>0, PlacesLinked, Zenon
<1>8. ASSUME NEW n \in 1..z
      PROVE  list[n] # a /\ C!Key(n) # k /\ stored[list[n]] = node[list[n]] /\ found[C!Key(n)] = list[n]
  <2>1. list[n] \in Addresses /\ keys[C!Key(n)] = list[n] /\ C!Key(n) \in Keys
    BY <1>7, Zenon
  <2>2. C!Key(n) # k
    BY <1>2, <1>6, <2>1, Zenon
  <2>3. list[n] # a
    BY <1>0, <1>6, Zenon DEF C!Free
  <2> QED
    BY <1>3, <1>4, <2>1, <2>2, <2>3, Zenon
<1>9. /\ z <= capacity
      /\ (\E j \in Keys : C!Used(j) # {} /\ keys[j] = C!NoNode) => z = capacity
  BY <1>0, Zenon DEF C!IndInv, C!Sized
<1>10. \A j : j # k => C!Used(j)' = C!Used(j)
  BY <1>5, UsesGrow, Zenon
<1>11. uses' \in Seq(Keys \X ({<<>>} \cup {<<x>> : x \in Values}))
  <2>1. what \in {<<>>} \cup {<<x>> : x \in Values}
    BY <1>5
  <2> QED
    BY <1>5, <2>1, UsesTyped, Zenon
<1>12. ASSUME list' \in Seq(Addresses), node' \in [Addresses -> C!Pair \cup {<<>>}],
              keys' \in [Keys -> Addresses \cup {C!NoNode}]
       PROVE  C!TypeOK'
  BY <1>2, <1>6, <1>11, <1>12, Zenon DEF C!TypeOK, C!NoNode, C!Pair
<1>13. C!GotCurrent'
  BY <1>5, PutIsNoGet, Zenon
<1>14. CASE ~(z + 1 > capacity)
  <2>1. list' = pushed /\ node' = stored /\ keys' = found
    BY <1>6, <1>14, Zenon
  <2>2. C!TypeOK'
    BY <1>1, <1>3, <1>4, <1>12, <2>1, Zenon
  <2>3. PICK y \in Nat : y = z + 1 /\ 1 <= y /\ \A n \in 1..z : n + 1 <= y
    OBVIOUS
  <2>4. /\ Len(list') = y /\ list'[1] = a /\ node'[a] = <<k, v>> /\ keys'[k] = a
    BY <1>1, <1>3, <1>4, <2>1, <2>3, Zenon
  <2>5. \A n \in 1..z : n + 1 <= y =>
           /\ list'[n + 1] = list[n] /\ node'[list[n]] = node[list[n]]
           /\ keys'[C!Key(n)] = list[n]
    BY <1>1, <1>8, <2>1, Zenon
  <2>6. \A j \in Keys : j # k /\ keys'[j] # C!NoNode =>
           \E n \in 1..z : n + 1 <= y /\ C!Key(n) = j /\ list[n] = keys'[j]
    BY <1>4, <1>7, <2>1, <2>3, Zenon
  <2>7. \A j \in Keys : keys'[j] = C!NoNode => j # k /\ keys[j] = C!NoNode
    BY <1>2, <1>4, <2>1, Zenon
  <2>8. \A j \in Keys : keys'[j] = C!NoNode => keys[j] = C!NoNode \/ (y = z /\ C!Key(z) = j)
    BY <2>7, Zenon
  <2>9. C!Linked' /\ C!ByRecency' /\ C!Absent' /\ C!Current'
    <3>1. (y = z \/ y = z + 1) /\ 1 <= y
      BY <2>3
    <3>2. InFirstPlace(k, v, a, z, y)
      BY <2>4, <2>5, <2>6, <2>8, <3>1, Zenon DEF InFirstPlace
    <3> QED
      BY <1>0, <1>5, <1>6, <3>1, <3>2, InFront, Zenon
  <2>10. C!Sized'
    <3>1. z # capacity /\ y <= capacity
      BY <1>2, <1>9, <1>14, <2>3
    <3>2. ASSUME NEW j \in Keys, C!Used(j)' # {}, keys'[j] = C!NoNode PROVE FALSE
      <4>1. j # k /\ keys[j] = C!NoNode
        BY <2>7, <3>2, Zenon
      <4>2. C!Used(j) # {}
        BY <1>10, <3>2, <4>1, Zenon
      <4> QED
        BY <1>9, <3>1, <4>1, <4>2, Zenon
    <3> QED
      BY <1>6, <2>4, <3>1, <3>2, Zenon DEF C!Sized, C!NoNode
  <2> QED
    BY <1>13, <2>2, <2>9, <2>10, Zenon DEF C!IndInv
<1>15. CASE z + 1 > capacity
  <2>0. z = capacity
    BY <1>2, <1>9, <1>15
  <2>1. /\ list' = SubSeq(pushed, 1, z)
        /\ node' = [stored EXCEPT ![pushed[z + 1]] = <<>>]
        /\ keys' = [found EXCEPT ![stored[pushed[z + 1]][1]] = C!NoNode]
    <3>1. z + 1 - 1 = z
      OBVIOUS
    <3> QED
      BY <1>6, <1>15, <3>1
  <2>2. /\ list' \in Seq(Addresses) /\ Len(list') = z
        /\ \A n \in 1..z : list'[n] = pushed[n]
    BY <1>1, <2>1, Popping
  <2>3. /\ node' \in [Addresses -> C!Pair \cup {<<>>}]
        /\ keys' \in [Keys -> Addresses \cup {C!NoNode}]
    BY <1>3, <1>4, <2>1
  <2>4. C!TypeOK'
    BY <1>12, <2>2, <2>3, Zenon
  <2>5. C!Sized'
    BY <1>6, <2>0, <2>2 DEF C!Sized
  <2>6. CASE z = 0
    <3>1. C!Linked'
      <4>1. pushed[z + 1] = a /\ stored[a][1] = k
        BY <1>1, <1>3, <2>6, SMTT(30)
      <4>2. \A j \in Keys : keys'[j] = IF j = k THEN C!NoNode ELSE found[j]
        BY <1>4, <2>1, <4>1
      <4>3. \A j \in Keys : keys[j] = C!NoNode
        <5>1. \A n : n \notin 1..z
          BY <2>6
        <5> QED
          BY <1>7, <5>1, Zenon
      <4>4. \A j \in Keys : keys'[j] = C!NoNode
        BY <1>4, <4>2, <4>3, Zenon
      <4>5. \A n : n \notin 1..Len(list')
        BY <2>2, <2>6
      <4> QED
        BY <4>4, <4>5, Zenon DEF C!Linked, C!NoNode
    <3>2. C!ByRecency' /\ C!Absent' /\ C!Current'
      <4>5. \A n : n \notin 1..Len(list')
        BY <2>2, <2>6
      <4> QED
        BY <4>5, Zenon DEF C!ByRecency, C!Absent, C!Current
    <3> QED
      BY <1>13, <2>4, <2>5, <3>1, <3>2, Zenon DEF C!IndInv
  <2>7. CASE z # 0
    <3>1. z \in 1..z /\ 1 \in 1..z /\ 1 <= z /\ \A n \in 1..z : n + 1 <= z => n + 1 \in 1..z /\ n # z
      BY <2>7
    <3>2. pushed[z + 1] = list[z] /\ stored[list[z]] = node[list[z]]
      BY <1>1, <1>8, <3>1, Zenon
    <3>3. /\ list[z] \in Addresses /\ list[z] # a /\ stored[pushed[z + 1]][1] = C!Key(z)
          /\ C!Key(z) \in Keys /\ C!Key(z) # k
      BY <1>7, <1>8, <3>1, <3>2, Zenon DEF C!Key
    <3>4. \A b \in Addresses : node'[b] = IF b = list[z] THEN <<>> ELSE stored[b]
      BY <1>3, <2>1, <3>2, SMTT(30)
    <3>5. \A j \in Keys : keys'[j] = IF j = C!Key(z) THEN C!NoNode ELSE found[j]
      BY <1>4, <2>1, <3>3
    <3>6. list'[1] = a /\ node'[a] = <<k, v>> /\ keys'[k] = a
      BY <1>1, <1>3, <1>4, <2>2, <3>1, <3>3, <3>4, <3>5, Zenon
    <3>7. ASSUME NEW n \in 1..z, n + 1 <= z
          PROVE  /\ list'[n + 1] = list[n] /\ node'[list[n]] = node[list[n]]
                 /\ keys'[C!Key(n)] = list[n]
      <4>1. list'[n + 1] = list[n]
        BY <1>1, <2>2, <3>1, <3>7, Zenon
      <4>2. list[n] \in Addresses /\ C!Key(n) \in Keys /\ list[n] # list[z]
        BY <1>7, <3>1, <3>7, Zenon
      <4>3. C!Key(n) # C!Key(z)
        BY <1>7, <3>1, <4>2, Zenon
      <4>4. node'[list[n]] = stored[list[n]] /\ keys'[C!Key(n)] = found[C!Key(n)]
        BY <3>4, <3>5, <4>2, <4>3, Zenon
      <4> QED
        BY <1>8, <4>1, <4>4, Zenon
    <3>8. ASSUME NEW j \in Keys, j # k, keys'[j] # C!NoNode
          PROVE  \E n \in 1..z : n + 1 <= z /\ C!Key(n) = j /\ list[n] = keys'[j]
      <4>1. j # C!Key(z) /\ keys'[j] = keys[j]
        BY <1>4, <3>5, <3>8, Zenon
      <4>2. PICK n \in 1..z : list[n] = keys[j] /\ C!Key(n) = j
        BY <1>7, <3>8, <4>1, Zenon
      <4>3. n # z
        BY <4>1, <4>2, Zenon
      <4>4. n + 1 <= z
        BY <4>3
      <4> QED
        BY <4>1, <4>2, <4>4, Zenon
    <3>9. ASSUME NEW j \in Keys, keys'[j] = C!NoNode PROVE keys[j] = C!NoNode \/ (z = z /\ C!Key(z) = j)
      <4>1. j # k
        BY <1>2, <3>6, <3>9, Zenon
      <4> QED
        BY <1>4, <3>5, <3>9, <4>1, Zenon
    <3>10. C!Linked' /\ C!ByRecency' /\ C!Absent' /\ C!Current'
      <4>1. z = z \/ z = z + 1
        OBVIOUS
      <4>2. InFirstPlace(k, v, a, z, z)
        BY <2>2, <3>1, <3>6, <3>7, <3>8, <3>9, Zenon DEF InFirstPlace
      <4> QED
        BY <1>0, <1>5, <1>6, <4>1, <4>2, InFront, Zenon
    <3> QED
      BY <1>13, <2>4, <2>5, <3>10, Zenon DEF C!IndInv
  <2> QED
    BY <2>6, <2>7
<1> QED
  BY <1>14, <1>15

LEMMA CacheStep == C!IndInv /\ [C!Next]_cacheVars => C!IndInv'
<1> SUFFICES ASSUME C!IndInv, [C!Next]_cacheVars PROVE C!IndInv'
  OBVIOUS
<1>1. ASSUME UNCHANGED <<capacity, list, node, keys, uses>>, returned' = returned \/ returned' = <<>>
      PROVE  C!IndInv'
  <2>1. C!TypeOK'
    BY <1>1 DEF C!IndInv, C!TypeOK, C!NoNode, C!Pair
  <2>2. C!Linked' /\ C!ByRecency' /\ C!Absent' /\ C!Current' /\ C!Sized'
    <3>1. C!Linked' /\ C!Sized'
      BY <1>1 DEF C!IndInv, C!Linked, C!Sized, C!Key, C!NoNode, C!Pair, C!Used
    <3>a. \A n : C!Key(n)' = C!Key(n)
      BY <1>1, Zenon DEF C!Key
    <3>b. \A k : C!Used(k)' = C!Used(k)
      BY <1>1, Zenon DEF C!Used
    <3>c. \A m, n : C!UsedAfter(C!Key(m), C!Key(n)) => C!UsedAfter(C!Key(m), C!Key(n))'
      BY <3>a, <3>b, Zenon DEF C!UsedAfter
    <3>d. \A n, j : C!UsedAfter(C!Key(n), j) => C!UsedAfter(C!Key(n), j)'
      BY <3>a, <3>b, Zenon DEF C!UsedAfter
    <3>2. C!ByRecency'
      BY <1>1, <3>c, Zenon DEF C!IndInv, C!ByRecency
    <3>3. C!Absent'
      BY <1>1, <3>d, Zenon DEF C!IndInv, C!Absent, C!NoNode
    <3>4. C!Current'
      <4>1. \A n : C!Key(n)' = C!Key(n) /\ node'[list'[n]] = node[list[n]]
        BY <1>1 DEF C!Key
      <4>2. \A k : C!Used(k)' = C!Used(k)
        BY <1>1 DEF C!Used
      <4>3. \A k, v : C!LastPut(k, v)' <=> C!LastPut(k, v)
        BY <1>1, <4>2, Zenon DEF C!LastPut
      <4>4. ASSUME NEW n \in 1..Len(list) PROVE C!LastPut(C!Key(n), node[list[n]][2])'
        <5>1. PICK k, v : k = C!Key(n) /\ v = node[list[n]][2] /\ C!LastPut(k, v)
          BY Zenon DEF C!IndInv, C!Current
        <5>2. C!LastPut(k, v)' /\ k = C!Key(n)' /\ v = node'[list'[n]][2]
          BY <1>1, <4>1, <4>3, <5>1, Zenon
        <5> QED
          BY <5>2, Zenon DEF C!LastPut
      <4> QED
        BY <1>1, <4>4, Zenon DEF C!Current
    <3> QED
      BY <3>1, <3>2, <3>3, <3>4
  <2>3. C!GotCurrent'
    BY <1>1 DEF C!IndInv, C!GotCurrent, C!LastUse, C!LastPut, C!Used
  <2> QED
    BY <2>1, <2>2, <2>3 DEF C!IndInv
<1>2. ASSUME NEW k \in Keys, C!GetMiss(k) PROVE C!IndInv'
  BY <1>1, <1>2, Zenon DEF C!GetMiss
<1>3. CASE UNCHANGED cacheVars
  BY <1>1, <1>3, Zenon DEF cacheVars
<1> QED
  BY <1>2, <1>3, GetHitStep, PutOldStep, PutNewStep, Zenon DEF C!Next

(* 11-lru-cache.cpp: after any calls of get and put, for every capacity (0 *)
(* included), the cache holds the keys used last with the values put last, *)
(* and no iterator of the map dangles, wherever new nodes are allocated.   *)
THEOREM CacheSafety == C!Spec => [](C!LruExact /\ LruExact)
<1>1. C!LruExact => LruExact
  BY DEF LruExact
<1> QED
  BY <1>1, CacheInit, CacheStep, CacheEnd, PTL DEF C!Spec, C!vars, cacheVars
=============================================================================
