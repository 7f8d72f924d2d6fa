------------------------ MODULE BoundedBufferProofs ------------------------
(***************************************************************************)
(* Theorems about BoundedBuffer, for any number of producers and consumers *)
(* and any capacity.                                                       *)
(***************************************************************************)
EXTENDS BoundedBuffer, RingLemmas, FiniteSetTheorems

(* The accounts of one condition, T being the threads that wait for it and *)
(* n what they wait for: items, or free slots.                             *)
Waiting(T) == {t \in T : pc[t] = "waiting"}
Accounted(T, n) == Waiting(T) # {} => n <= Cardinality(Awake(T))

LEMMA AwakeFinite ==
  ASSUME NEW T, T = Producers \/ T = Consumers
  PROVE  /\ IsFiniteSet(Awake(T)) /\ Cardinality(Awake(T)) \in Nat
         /\ IsFiniteSet(Awake(T)') /\ Cardinality(Awake(T)') \in Nat
<1>1. IsFiniteSet(T)
  BY ThreadsAssumption
<1>2. Awake(T) \subseteq T /\ Awake(T)' \subseteq T
  BY DEF Awake
<1> QED
  BY <1>1, <1>2, FS_Subset, FS_CardinalityType

(* Nobody new waits, nobody who is awake goes away, and there is no more   *)
(* to be had.                                                              *)
LEMMA NoneLeaves ==
  ASSUME NEW T, T = Producers \/ T = Consumers, NEW n \in Int, Accounted(T, n),
         Waiting(T)' # {} => Waiting(T) # {}, Awake(T) \subseteq Awake(T)'
  PROVE  Waiting(T)' # {} => n <= Cardinality(Awake(T)')
<1>1. Cardinality(Awake(T)) <= Cardinality(Awake(T)')
  BY AwakeFinite, FS_Subset
<1> QED
  BY <1>1, AwakeFinite DEF Accounted

(* One that is awake takes what it found.                                  *)
LEMMA OneTakes ==
  ASSUME NEW T, T = Producers \/ T = Consumers, NEW n \in Int, Accounted(T, n),
         Waiting(T)' # {} => Waiting(T) # {},
         NEW t \in Awake(T), Awake(T)' = Awake(T) \ {t}
  PROVE  Waiting(T)' # {} => n - 1 <= Cardinality(Awake(T)')
<1>1. Cardinality(Awake(T)') = Cardinality(Awake(T)) - 1
  BY AwakeFinite, FS_RemoveElement
<1> QED
  BY <1>1, AwakeFinite DEF Accounted

(* One is signalled for what has been put there.                           *)
LEMMA OneWoken ==
  ASSUME NEW T, T = Producers \/ T = Consumers, NEW n \in Int, Accounted(T, n),
         NEW w \in Waiting(T), Awake(T)' = Awake(T) \cup {w}
  PROVE  n + 1 <= Cardinality(Awake(T)')
<1>1. w \notin Awake(T)
  BY DEF Awake, Waiting
<1>2. Cardinality(Awake(T)') = Cardinality(Awake(T)) + 1
  BY <1>1, AwakeFinite, FS_AddElement
<1> QED
  BY <1>2, AwakeFinite DEF Accounted

LEMMA Both == NoLostSignal <=> Accounted(Consumers, count) /\ Accounted(Producers, Cap - count)
  BY DEF NoLostSignal, Accounted, Waiting, WaitNotEmpty, WaitNotFull
LEMMA BothNext ==
  NoLostSignal' <=> /\ Waiting(Consumers)' # {} => count' <= Cardinality(Awake(Consumers)')
                    /\ Waiting(Producers)' # {} => Cap - count' <= Cardinality(Awake(Producers)')
  BY DEF NoLostSignal, Waiting, WaitNotEmpty, WaitNotFull

(* Steps that neither put nor take, by which no thread starts to wait and  *)
(* none that is awake goes away.                                           *)
LEMMA Elsewhere ==
  ASSUME TypeOK, NoLostSignal, NEW t \in Threads, NEW next, pc' = [pc EXCEPT ![t] = next],
         next # "waiting", pc[t] \in {"test", "relock"} => next \in {"test", "relock"},
         UNCHANGED count
  PROVE  NoLostSignal'
<1>1. ASSUME NEW T, T = Producers \/ T = Consumers
      PROVE  (Waiting(T)' # {} => Waiting(T) # {}) /\ Awake(T) \subseteq Awake(T)'
  BY <1>1 DEF TypeOK, Waiting, Awake, Threads
<1>2. count \in Int /\ Cap - count \in Int
  BY CapAssumption DEF TypeOK
<1> QED
  BY <1>1, <1>2, Both, BothNext, NoneLeaves

-----------------------------------------------------------------------------
(* bq_put waits for room, or takes a slot and signals a consumer. *)
LEMMA PutAccounts ==
  ASSUME TypeOK, NoLostSignal, NEW p \in Producers, Put(p)
  PROVE  TypeOK' /\ NoLostSignal'
<1>1. /\ p \in Threads /\ pc[p] = "test" /\ p \in Awake(Producers) /\ p \notin Consumers
      /\ Producers \subseteq Threads /\ Consumers \subseteq Threads
  BY ThreadsAssumption DEF Put, Threads, Awake
<1>2. count \in Int /\ Cap \in Nat /\ Cap - count \in Int
  BY CapAssumption DEF TypeOK
<1>3. CASE count = Cap /\ CondWait(p)
  <2>1. count' = count /\ pc' = [pc EXCEPT ![p] = "waiting"]
    BY <1>3 DEF CondWait, queueVars
  <2>2. Waiting(Consumers)' = Waiting(Consumers) /\ Awake(Consumers)' = Awake(Consumers)
    BY <1>1, <2>1 DEF TypeOK, Waiting, Awake
  <2>3. Waiting(Consumers)' # {} => count <= Cardinality(Awake(Consumers)')
    BY <1>2, <2>2, Both, NoneLeaves
  <2>4. Cap - count <= Cardinality(Awake(Producers)')
    BY <1>2, <1>3, AwakeFinite
  <2> QED
    BY <1>1, <2>1, <2>3, <2>4, BothNext DEF TypeOK
<1>4. CASE count # Cap /\ count' = count + 1 /\ CondSignal(p, WaitNotEmpty, "unlock")
  <2>1. count' \in 0..Cap
    BY <1>2, <1>4 DEF TypeOK
  <2>2. CASE WaitNotEmpty = {} /\ pc' = [pc EXCEPT ![p] = "unlock"]
    <3>1. Waiting(Consumers)' = {}
      BY <1>1, <2>2 DEF TypeOK, Waiting, WaitNotEmpty
    <3>2. Waiting(Producers)' = Waiting(Producers) /\ Awake(Producers)' = Awake(Producers) \ {p}
      BY <1>1, <2>2 DEF TypeOK, Waiting, Awake
    <3>3. Waiting(Producers)' # {} => Cap - count - 1 <= Cardinality(Awake(Producers)')
      BY <1>1, <1>2, <3>2, Both, OneTakes
    <3>4. Cap - count' = Cap - count - 1
      BY <1>2, <1>4
    <3> QED
      BY <1>1, <2>1, <2>2, <3>1, <3>3, <3>4, BothNext DEF TypeOK
  <2>3. ASSUME NEW w \in WaitNotEmpty, pc' = [pc EXCEPT ![p] = "unlock", ![w] = "relock"]
        PROVE  TypeOK' /\ NoLostSignal'
    <3>1. w \in Consumers /\ w \in Waiting(Consumers) /\ w # p /\ w \notin Producers
      BY <1>1, ThreadsAssumption DEF WaitNotEmpty, Waiting
    <3>2. Awake(Consumers)' = Awake(Consumers) \cup {w}
      BY <1>1, <2>3, <3>1 DEF TypeOK, Awake
    <3>3. Waiting(Producers)' = Waiting(Producers) /\ Awake(Producers)' = Awake(Producers) \ {p}
      BY <1>1, <2>3, <3>1 DEF TypeOK, Waiting, Awake
    <3>4. count + 1 <= Cardinality(Awake(Consumers)')
      BY <1>2, <3>1, <3>2, Both, OneWoken
    <3>5. Waiting(Producers)' # {} => Cap - count - 1 <= Cardinality(Awake(Producers)')
      BY <1>1, <1>2, <3>3, Both, OneTakes
    <3>6. Cap - count' = Cap - count - 1 /\ count' = count + 1
      BY <1>2, <1>4
    <3>7. TypeOK'
      BY <1>1, <2>1, <2>3, <3>1 DEF TypeOK
    <3> QED
      BY <3>4, <3>5, <3>6, <3>7, BothNext
  <2> QED
    BY <1>4, <2>2, <2>3 DEF CondSignal
<1> QED
  BY <1>3, <1>4 DEF Put

(* bq_get waits for an item, or takes one and signals a producer. *)
LEMMA GetAccounts ==
  ASSUME TypeOK, NoLostSignal, NEW c \in Consumers, Get(c)
  PROVE  TypeOK' /\ NoLostSignal'
<1>1. /\ c \in Threads /\ pc[c] = "test" /\ c \in Awake(Consumers) /\ c \notin Producers
      /\ Consumers \subseteq Threads /\ Producers \subseteq Threads
  BY ThreadsAssumption DEF Get, Threads, Awake
<1>2. count \in Int /\ Cap \in Nat /\ Cap - count \in Int
  BY CapAssumption DEF TypeOK
<1>3. CASE count = 0 /\ CondWait(c)
  <2>1. count' = count /\ pc' = [pc EXCEPT ![c] = "waiting"]
    BY <1>3 DEF CondWait, queueVars
  <2>2. Waiting(Producers)' = Waiting(Producers) /\ Awake(Producers)' = Awake(Producers)
    BY <1>1, <2>1 DEF TypeOK, Waiting, Awake
  <2>3. Waiting(Producers)' # {} => Cap - count <= Cardinality(Awake(Producers)')
    BY <1>2, <2>2, Both, NoneLeaves
  <2>4. count <= Cardinality(Awake(Consumers)')
    BY <1>2, <1>3, AwakeFinite
  <2> QED
    BY <1>1, <2>1, <2>3, <2>4, BothNext DEF TypeOK
<1>4. CASE count # 0 /\ count' = count - 1 /\ CondSignal(c, WaitNotFull, "unlock")
  <2>1. count' \in 0..Cap
    BY <1>2, <1>4 DEF TypeOK
  <2>2. CASE WaitNotFull = {} /\ pc' = [pc EXCEPT ![c] = "unlock"]
    <3>1. Waiting(Producers)' = {}
      BY <1>1, <2>2 DEF TypeOK, Waiting, WaitNotFull
    <3>2. Waiting(Consumers)' = Waiting(Consumers) /\ Awake(Consumers)' = Awake(Consumers) \ {c}
      BY <1>1, <2>2 DEF TypeOK, Waiting, Awake
    <3>3. Waiting(Consumers)' # {} => count - 1 <= Cardinality(Awake(Consumers)')
      BY <1>1, <1>2, <3>2, Both, OneTakes
    <3>4. count' = count - 1
      BY <1>2, <1>4
    <3> QED
      BY <1>1, <2>1, <2>2, <3>1, <3>3, <3>4, BothNext DEF TypeOK
  <2>3. ASSUME NEW w \in WaitNotFull, pc' = [pc EXCEPT ![c] = "unlock", ![w] = "relock"]
        PROVE  TypeOK' /\ NoLostSignal'
    <3>1. w \in Producers /\ w \in Waiting(Producers) /\ w # c /\ w \notin Consumers
      BY <1>1, ThreadsAssumption DEF WaitNotFull, Waiting
    <3>2. Awake(Producers)' = Awake(Producers) \cup {w}
      BY <1>1, <2>3, <3>1 DEF TypeOK, Awake
    <3>3. Waiting(Consumers)' = Waiting(Consumers) /\ Awake(Consumers)' = Awake(Consumers) \ {c}
      BY <1>1, <2>3, <3>1 DEF TypeOK, Waiting, Awake
    <3>4. Cap - count + 1 <= Cardinality(Awake(Producers)')
      BY <1>2, <3>1, <3>2, Both, OneWoken
    <3>5. Waiting(Consumers)' # {} => count - 1 <= Cardinality(Awake(Consumers)')
      BY <1>1, <1>2, <3>3, Both, OneTakes
    <3>6. count' = count - 1 /\ Cap - count' = Cap - count + 1
      BY <1>2, <1>4
    <3>7. TypeOK'
      BY <1>1, <2>1, <2>3, <3>1 DEF TypeOK
    <3> QED
      BY <3>4, <3>5, <3>6, <3>7, BothNext
  <2> QED
    BY <1>4, <2>2, <2>3 DEF CondSignal
<1> QED
  BY <1>3, <1>4 DEF Get

-----------------------------------------------------------------------------
LEMMA InitAccounts == Init => TypeOK /\ NoLostSignal
<1> SUFFICES ASSUME Init PROVE TypeOK /\ NoLostSignal
  OBVIOUS
<1>1. count = 0 /\ \A t \in Threads : pc[t] = "unborn"
  BY DEF Init
<1>2. TypeOK
  BY CapAssumption DEF Init, TypeOK
<1>3. WaitNotEmpty = {} /\ WaitNotFull = {}
  BY <1>1 DEF WaitNotEmpty, WaitNotFull, Threads
<1> QED
  BY <1>2, <1>3 DEF NoLostSignal

LEMMA StepAccounts == TypeOK /\ NoLostSignal /\ [Next]_vars => TypeOK' /\ NoLostSignal'
<1> SUFFICES ASSUME TypeOK, NoLostSignal, [Next]_vars PROVE TypeOK' /\ NoLostSignal'
  OBVIOUS
<1>1. ASSUME UNCHANGED <<count, pc>> PROVE TypeOK' /\ NoLostSignal'
  BY <1>1 DEF TypeOK, NoLostSignal, WaitNotEmpty, WaitNotFull, Awake
<1>2. ASSUME NEW t \in Threads, Lock(t) PROVE TypeOK' /\ NoLostSignal'
  BY <1>2, Elsewhere DEF Lock, queueVars, TypeOK
<1>3. ASSUME NEW t \in Threads, Put(t) PROVE TypeOK' /\ NoLostSignal'
  BY <1>3, PutAccounts DEF Put
<1>4. ASSUME NEW t \in Threads, Get(t) PROVE TypeOK' /\ NoLostSignal'
  BY <1>4, GetAccounts DEF Get
<1>5. ASSUME NEW t \in Threads, Unlock(t) PROVE TypeOK' /\ NoLostSignal'
  <2>1. PICK next \in {"lock", "done", "record"} : pc' = [pc EXCEPT ![t] = next]
    BY <1>5 DEF Unlock, Loop
  <2> QED
    BY <1>5, <2>1, Elsewhere DEF Unlock, queueVars, TypeOK
<1>6. ASSUME NEW t \in Threads, Record(t) PROVE TypeOK' /\ NoLostSignal'
  <2>1. PICK next \in {"lock", "done"} : pc' = [pc EXCEPT ![t] = next]
    BY <1>6 DEF Record, Loop
  <2> QED
    BY <1>6, <2>1, Elsewhere DEF Record, queueVars, TypeOK
<1>7. ASSUME NEW t \in Threads, SpuriousWakeup(t) PROVE TypeOK' /\ NoLostSignal'
  BY <1>7, Elsewhere DEF SpuriousWakeup, queueVars, TypeOK
<1>8. ASSUME NEW t \in Threads, MainCreate(t) PROVE TypeOK' /\ NoLostSignal'
  <2>1. PICK next \in {"lock", "done"} : pc' = [pc EXCEPT ![t] = next]
    BY <1>8 DEF MainCreate, Loop
  <2> QED
    BY <1>8, <2>1, Elsewhere DEF MainCreate, queueVars, TypeOK
<1>9. ASSUME \/ \E t \in Threads : UseAfterDestroy(t)
             \/ MainInitStep \/ MainInitFails \/ MainCreateFails \/ MainExit \/ MainJoin
             \/ UNCHANGED vars
      PROVE  TypeOK' /\ NoLostSignal'
  BY <1>1, <1>9 DEF UseAfterDestroy, MainInitStep, MainInitFails, MainCreateFails, MainExit,
                    MainJoin, vars, queueVars
<1> QED
  BY <1>2, <1>3, <1>4, <1>5, <1>6, <1>7, <1>8, <1>9 DEF Next, Worker, MainSucceeds

(* However many producers and consumers there are, and although a signal   *)
(* wakes one and others may overtake it: while a consumer waits there are  *)
(* as many awake as items, while a producer waits as many as free slots.   *)
THEOREM SignalSafety == Spec => []NoLostSignal
  BY InitAccounts, StepAccounts, PTL DEF Spec

-----------------------------------------------------------------------------
(* The queue as a sequence. *)
Cell == Values \cup {NoValue}

LEMMA QueueTypes ==
  ASSUME TypeOK, RingInv
  PROVE  /\ Cap \in Nat \ {0} /\ tail \in Int /\ count \in Nat /\ count <= Cap
         /\ 0 <= tail /\ tail < Cap /\ buf \in [0..(Cap - 1) -> Cell]
         /\ Contents = Window(buf, tail, count, Cap)
         /\ Contents \in Seq(Cell) /\ Len(Contents) = count
<1>1. /\ Cap \in Nat \ {0} /\ tail \in Int /\ count \in Nat /\ count <= Cap
      /\ 0 <= tail /\ tail < Cap /\ buf \in [0..(Cap - 1) -> Cell]
  BY CapAssumption DEF TypeOK, RingInv, Slots, Cell
<1>2. Contents = Window(buf, tail, count, Cap)
  BY DEF Contents, Window
<1>3. \A j \in 1..count : buf[(tail + j - 1) % Cap] \in Cell
  BY <1>1, WindowSlots
<1>4. Contents \in Seq(Cell) /\ Len(Contents) = count
  BY <1>1, <1>3 DEF Contents
<1> QED
  BY <1>1, <1>2, <1>4

(* bq_put appends the value, ... *)
LEMMA PutQueue ==
  ASSUME TypeOK, RingInv, NEW v \in Values, count # Cap,
         buf' = [buf EXCEPT ![head] = v], head' = (head + 1) % Cap, count' = count + 1, tail' = tail
  PROVE  /\ RingInv' /\ Contents' = Append(Contents, v) /\ Len(Contents) < Cap
<1>1. /\ Cap \in Nat \ {0} /\ tail \in Int /\ count \in Nat /\ count <= Cap
      /\ buf \in [0..(Cap - 1) -> Cell]
      /\ Contents = Window(buf, tail, count, Cap) /\ Len(Contents) = count
  BY QueueTypes
<1>2. count < Cap /\ v \in Cell /\ head = ((tail + count) % Cap)
  BY <1>1 DEF Cell, RingInv
<1>3. PutAppends(buf, tail, count, Cap, v)
  BY <1>1, <1>2, RingPut, ZenonT(60)
<1>4. Contents' = Window(buf', tail', count', Cap)
  BY DEF Contents, Window
<1>5. Contents' = Append(Contents, v)
  BY <1>1, <1>2, <1>3, <1>4 DEF PutAppends
<1>6. PICK a \in Int : a = tail + count
  BY <1>1
<1>7. (((a % Cap) + 1) % Cap) = ((a + 1) % Cap)
  <2>1. 1 \in Int
    OBVIOUS
  <2> QED
    BY <1>1, <2>1, ModAdd, ZenonT(60)
<1>8. head' = (tail' + count') % Cap
  <2>1. tail' + count' = a + 1
    BY <1>1, <1>6
  <2> QED
    BY <1>2, <1>6, <1>7, <2>1
<1>9. head' \in Slots /\ tail' \in Slots
  <2>1. head \in Int
    BY <1>1 DEF RingInv, Slots
  <2> QED
    BY <1>1, <2>1 DEF RingInv, Slots
<1>10. buf' \in [Slots -> Cell]
  BY <1>1, <1>2 DEF Slots
<1> QED
  BY <1>1, <1>2, <1>5, <1>8, <1>9, <1>10 DEF RingInv, Cell

(* ... and bq_get takes the oldest one. *)
LEMMA GetQueue ==
  ASSUME TypeOK, RingInv, count # 0,
         buf' = buf, head' = head, count' = count - 1, tail' = (tail + 1) % Cap
  PROVE  /\ RingInv' /\ Contents # <<>> /\ Head(Contents) = buf[tail]
         /\ Contents' = Tail(Contents)
<1>1. /\ Cap \in Nat \ {0} /\ tail \in Int /\ count \in Nat /\ count <= Cap
      /\ 0 <= tail /\ tail < Cap /\ buf \in [0..(Cap - 1) -> Cell]
      /\ Contents = Window(buf, tail, count, Cap)
  BY QueueTypes
<1>2. PICK a \in Int : a = tail + 1
  BY <1>1
<1>3. PICK p, s \in Int : s = (a % Cap) /\ 0 <= s /\ s < Cap /\ a = Cap * p + s
  BY <1>1, DivMod, ZenonT(60)
<1>4. a = Cap * p + s
  BY <1>3, ZenonT(60)
<1>5. PICK q \in Int : q = -p
  OBVIOUS
<1>6. s = tail + 1 + Cap * q
  BY <1>1, <1>2, <1>4, <1>5
<1>7. tail' = s
  BY <1>2, <1>3
<1>8. SameSlot(tail', tail + 1, Cap) /\ tail' \in Int
  BY <1>6, <1>7 DEF SameSlot
<1>9. count > 0
  BY <1>1
<1>10. GetTakes(buf, tail, count, Cap, tail')
  BY <1>1, <1>8, <1>9, RingGet, ZenonT(60)
<1>11. Contents' = Window(buf', tail', count', Cap)
  BY DEF Contents, Window
<1>12. Contents # <<>> /\ Head(Contents) = buf[tail % Cap] /\ Contents' = Tail(Contents)
  BY <1>1, <1>10, <1>11 DEF GetTakes
<1>13. (tail % Cap) = tail
  <2>1. tail = Cap * 0 + tail /\ 0 \in Int
    BY <1>1
  <2> QED
    BY <1>1, <2>1, ModUnique, ZenonT(60)
<1>14. head' = (tail' + count') % Cap
  <2>1. PICK b \in Int : b = tail + count
    BY <1>1
  <2>2. tail' + count' = b + Cap * q
    BY <1>1, <1>6, <1>7, <2>1
  <2>3. ((b + Cap * q) % Cap) = (b % Cap)
    BY <1>1, ModCongruent, ZenonT(60)
  <2>4. head' = b % Cap
    BY <2>1 DEF RingInv
  <2> QED
    BY <2>2, <2>3, <2>4
<1>15. tail' \in Slots
  BY <1>1, <1>3, <1>7 DEF Slots
<1> QED
  BY <1>12, <1>13, <1>14, <1>15 DEF RingInv

-----------------------------------------------------------------------------
(* One place for every value. *)

(* Nothing that OnePlace speaks of changes. *)
LEMMA PlacesKept ==
  ASSUME OnePlace, UNCHANGED <<buf, tail, count, seen, val>>, Added' = Added, Holding' = Holding
  PROVE  OnePlace'
  BY DEF OnePlace, Contents

(* bq_put adds a value that was nowhere to the queue. *)
LEMMA PutPlaces ==
  ASSUME OnePlace, count \in Nat, NEW v \in Values, v \notin Added,
         Contents \in Seq(Cell), Len(Contents) = count,
         Contents' = Append(Contents, v), count' = count + 1, seen' = seen, val' = val,
         Added' = Added \cup {v}, Holding' = Holding
  PROVE  OnePlace'
<1>1. \A j \in 1..count : Contents'[j] = Contents[j]
  OBVIOUS
<1>2. Contents'[count + 1] = v
  OBVIOUS
<1>3. seen[v] = 0
  BY DEF OnePlace
<1>4. ASSUME NEW j \in 1..count' PROVE j \in 1..count \/ j = count + 1
  OBVIOUS
<1>5. \A j \in 1..count' : Contents'[j] \in Added' /\ seen'[Contents'[j]] = 0
  BY <1>1, <1>2, <1>3, <1>4 DEF OnePlace
<1>6. \A j, k \in 1..count' : Contents'[j] = Contents'[k] => j = k
  BY <1>1, <1>2, <1>4 DEF OnePlace
<1>7. \A c \in Holding' : val'[c] \in Added' /\ seen'[val'[c]] = 0
  BY DEF OnePlace
<1>8. \A c \in Holding' : \A j \in 1..count' : Contents'[j] # val'[c]
  BY <1>1, <1>2, <1>4 DEF OnePlace
<1>9. \A c, d \in Holding' : val'[c] = val'[d] => c = d
  BY DEF OnePlace
<1>10. \A u \in Values : seen'[u] = 0 \/ (seen'[u] = 1 /\ u \in Added')
  BY DEF OnePlace
<1> QED
  BY <1>5, <1>6, <1>7, <1>8, <1>9, <1>10 DEF OnePlace

(* bq_get moves the oldest value from the queue to a consumer. *)
LEMMA GetPlaces ==
  ASSUME OnePlace, count \in Nat, count # 0, NEW c \in Consumers, c \notin Holding,
         Contents \in Seq(Cell), Len(Contents) = count,
         Contents' = Tail(Contents), count' = count - 1, seen' = seen,
         val' = [val EXCEPT ![c] = Head(Contents)],
         Added' = Added, Holding' = Holding \cup {c}
  PROVE  OnePlace'
<1>1. \A j \in 1..count' : j + 1 \in 1..count /\ Contents'[j] = Contents[j + 1]
  OBVIOUS
<1>2. 1 \in 1..count /\ Head(Contents) = Contents[1]
  OBVIOUS
<1>3. val'[c] = Contents[1] /\ \A d \in Holding : d # c /\ val'[d] = val[d]
  BY <1>2 DEF OnePlace, Holding
<1>5. \A j \in 1..count' : Contents'[j] \in Added' /\ seen'[Contents'[j]] = 0
  BY <1>1 DEF OnePlace
<1>6. \A j, k \in 1..count' : Contents'[j] = Contents'[k] => j = k
  <2> SUFFICES ASSUME NEW j \in 1..count', NEW k \in 1..count', Contents'[j] = Contents'[k]
               PROVE  j = k
    OBVIOUS
  <2>1. j + 1 = k + 1
    BY <1>1 DEF OnePlace
  <2> QED
    BY <2>1
<1>7. \A d \in Holding' : val'[d] \in Added' /\ seen'[val'[d]] = 0
  BY <1>2, <1>3 DEF OnePlace
<1>8. ASSUME NEW d \in Holding', NEW j \in 1..count' PROVE Contents'[j] # val'[d]
  <2>1. j + 1 # 1
    OBVIOUS
  <2>2. CASE d = c
    BY <1>1, <1>2, <1>3, <2>1, <2>2 DEF OnePlace
  <2>3. CASE d # c
    BY <1>1, <1>3, <2>3 DEF OnePlace
  <2> QED
    BY <2>2, <2>3
<1>9. \A d, e \in Holding' : val'[d] = val'[e] => d = e
  BY <1>2, <1>3 DEF OnePlace
<1>10. \A u \in Values : seen'[u] = 0 \/ (seen'[u] = 1 /\ u \in Added')
  BY DEF OnePlace
<1> QED
  BY <1>5, <1>6, <1>7, <1>8, <1>9, <1>10 DEF OnePlace

(* consumer moves it from there to seen. *)
LEMMA RecordPlaces ==
  ASSUME OnePlace, NEW c \in Holding, UNCHANGED <<buf, tail, count, val>>,
         seen' = [seen EXCEPT ![val[c]] = @ + 1], Added' = Added, Holding' = Holding \ {c}
  PROVE  OnePlace'
<1>1. Contents' = Contents
  BY DEF Contents
<1>2. val[c] \in Values /\ val[c] \in Added /\ seen[val[c]] = 0 /\ seen \in [Values -> Nat]
  BY DEF OnePlace, Added
<1>3. seen'[val[c]] = 1 /\ \A u \in Values : u # val[c] => seen'[u] = seen[u]
  BY <1>2
<1>4. seen' \in [Values -> Nat]
  BY <1>2
<1>5. \A j \in 1..count : Contents[j] # val[c] /\ Contents[j] \in Values
  BY DEF OnePlace, Added
<1>6. \A d \in Holding' : val[d] # val[c] /\ val[d] \in Values
  BY DEF OnePlace, Added
<1>7. \A u \in Values : seen'[u] = 0 \/ (seen'[u] = 1 /\ u \in Added')
  BY <1>2, <1>3 DEF OnePlace
<1> QED
  BY <1>1, <1>3, <1>4, <1>5, <1>6, <1>7 DEF OnePlace

-----------------------------------------------------------------------------
(* What the steps of the threads do to the values put, to those held and   *)
(* to the loops.                                                           *)
Ledger == RingInv /\ LoopInv /\ OnePlace /\ TurnsRecord

LEMMA Quiet ==
  ASSUME Ledger, UNCHANGED <<queueVars, i, val, seen>>, Added' = Added, Holding' = Holding,
         \A t \in Threads : pc'[t] = "done" <=> pc[t] = "done"
  PROVE  Ledger' /\ UNCHANGED <<Contents, got>>
<1> USE DEF Ledger
<1>1. UNCHANGED <<buf, head, tail, count, got>>
  BY DEF queueVars
<1>2. RingInv' /\ UNCHANGED <<Contents, got>>
  BY <1>1 DEF RingInv, Contents
<1>3. LoopInv'
  BY DEF LoopInv
<1>4. OnePlace'
  BY <1>1, PlacesKept
<1>5. TurnsRecord'
  BY DEF TurnsRecord, Turns, Recorded
<1> QED
  BY <1>2, <1>3, <1>4, <1>5

(* Thread t goes to a label, and a waiter may have been signalled. *)
Moves(t, label) ==
  /\ pc'[t] = label
  /\ \A u \in Threads : u # t => pc'[u] = pc[u] \/ (pc[u] = "waiting" /\ pc'[u] = "relock")

LEMMA GoesTo ==
  ASSUME TypeOK, NEW t \in Threads, NEW label, pc' = [pc EXCEPT ![t] = label]
  PROVE  Moves(t, label)
  BY DEF TypeOK, Moves

LEMMA Signals ==
  ASSUME TypeOK, NEW t \in Threads, pc[t] = "test", NEW W \in SUBSET Threads,
         \A w \in W : pc[w] = "waiting", NEW label, CondSignal(t, W, label)
  PROVE  Moves(t, label)
<1>1. CASE pc' = [pc EXCEPT ![t] = label]
  BY <1>1, GoesTo
<1>2. ASSUME NEW w \in W, pc' = [pc EXCEPT ![t] = label, ![w] = "relock"]
      PROVE  Moves(t, label)
  BY <1>2 DEF TypeOK, Moves
<1> QED
  BY <1>1, <1>2 DEF CondSignal

(* A step between labels at which a thread has nothing to hand over. *)
LEMMA QuietMove ==
  ASSUME Ledger, UNCHANGED <<queueVars, i, val, seen>>,
         NEW t \in Threads, NEW label, Moves(t, label),
         {pc[t], label} \subseteq {"unborn", "lock", "relock", "test", "waiting"}
  PROVE  Ledger' /\ UNCHANGED <<Contents, got>>
<1>1. \A u \in Threads : /\ pc'[u] = "done" <=> pc[u] = "done"
                         /\ pc'[u] = "unlock" <=> pc[u] = "unlock"
                         /\ pc'[u] = "record" <=> pc[u] = "record"
  BY DEF Moves
<1>2. Added' = Added
  BY <1>1 DEF Added, Values, Threads
<1>3. Holding' = Holding
  BY <1>1 DEF Holding, Threads
<1> QED
  BY <1>1, <1>2, <1>3, Quiet

(* bq_put, when there is room *)
LEMMA PutStep ==
  ASSUME TypeOK, Ledger, NEW p \in Producers, pc[p] = "test", count # Cap,
         buf' = [buf EXCEPT ![head] = <<p, i[p]>>], head' = (head + 1) % Cap, count' = count + 1,
         CondSignal(p, WaitNotEmpty, "unlock"), UNCHANGED <<tail, val, got, i, seen>>
  PROVE  Ledger' /\ Fifo!Next
<1> DEFINE v == <<p, i[p]>>
<1>1. v \in Values /\ p \in Threads /\ p \notin Consumers
  BY ThreadsAssumption, NAssumption DEF Ledger, LoopInv, Values, Threads
<1>2. Moves(p, "unlock")
  <2>1. WaitNotEmpty \in SUBSET Threads /\ \A w \in WaitNotEmpty : pc[w] = "waiting"
    BY DEF WaitNotEmpty, Threads
  <2> QED
    BY <1>1, <2>1, Signals
<1>3. RingInv' /\ Contents' = Append(Contents, v) /\ Len(Contents) < Cap
  BY <1>1, PutQueue DEF Ledger
<1>4. Contents \in Seq(Cell) /\ Len(Contents) = count /\ count \in Nat
  BY QueueTypes DEF Ledger
<1>5. v \notin Added
  BY NAssumption DEF Added, Ledger, LoopInv, Threads
<1>6. Added' = Added \cup {v}
  <2>1. ASSUME NEW u \in Values PROVE u \in Added' <=> u \in Added \/ u = v
    <3>1. u = <<u[1], u[2]>> /\ u[1] \in Threads
      BY DEF Values, Threads
    <3>2. CASE u[1] = p
      BY <1>2, <3>1, <3>2 DEF Added, Moves
    <3>3. CASE u[1] # p
      BY <1>2, <3>1, <3>3 DEF Added, Moves
    <3> QED
      BY <3>2, <3>3
  <2>2. Added \subseteq Values /\ Added' \subseteq Values
    BY DEF Added
  <2> QED
    BY <1>1, <2>1, <2>2
<1>7. Holding' = Holding
  BY <1>1, <1>2 DEF Holding, Moves, Threads
<1> HIDE DEF v
<1>8. OnePlace'
  BY <1>1, <1>3, <1>4, <1>5, <1>6, <1>7, PutPlaces DEF Ledger
<1>9. LoopInv'
  BY <1>2 DEF Ledger, LoopInv, Moves
<1>10. TurnsRecord'
  BY DEF Ledger, TurnsRecord, Turns, Recorded
<1>11. Fifo!Put(v)
  BY <1>3 DEF Fifo!Put
<1> QED
  BY <1>1, <1>3, <1>8, <1>9, <1>10, <1>11 DEF Ledger, Fifo!Next

(* bq_get, when there is something *)
LEMMA GetStep ==
  ASSUME TypeOK, Ledger, NEW c \in Consumers, pc[c] = "test", count # 0,
         val' = [val EXCEPT ![c] = buf[tail]], tail' = (tail + 1) % Cap, count' = count - 1,
         got' = Append(got, buf[tail]),
         CondSignal(c, WaitNotFull, "unlock"), UNCHANGED <<buf, head, i, seen>>
  PROVE  Ledger' /\ Fifo!Next
<1>1. c \in Threads /\ c \notin Producers
  BY ThreadsAssumption DEF Threads
<1>2. Moves(c, "unlock")
  <2>1. WaitNotFull \in SUBSET Threads /\ \A w \in WaitNotFull : pc[w] = "waiting"
    BY DEF WaitNotFull, Threads
  <2> QED
    BY <1>1, <2>1, Signals
<1>3. /\ RingInv' /\ Contents # <<>> /\ Head(Contents) = buf[tail]
      /\ Contents' = Tail(Contents)
  BY GetQueue DEF Ledger
<1>4. Contents \in Seq(Cell) /\ Len(Contents) = count /\ count \in Nat
  BY QueueTypes DEF Ledger
<1>5. c \notin Holding
  BY DEF Holding
<1>6. Added' = Added
  BY <1>1, <1>2 DEF Added, Values, Moves, Threads
<1>7. Holding' = Holding \cup {c}
  BY <1>1, <1>2 DEF Holding, Moves, Threads
<1>8. OnePlace'
  BY <1>3, <1>4, <1>5, <1>6, <1>7, GetPlaces DEF Ledger
<1>9. LoopInv'
  BY <1>2 DEF Ledger, LoopInv, Moves
<1>10. TurnsRecord'
  BY DEF Ledger, TurnsRecord, Turns, Recorded
<1>11. Fifo!Get
  BY <1>3 DEF Fifo!Get
<1> QED
  BY <1>3, <1>8, <1>9, <1>10, <1>11 DEF Ledger, Fifo!Next

(* The unlock of a producer counts its turn, ... *)
LEMMA ProducerUnlocks ==
  ASSUME TypeOK, Ledger, NEW p \in Producers, pc[p] = "unlock",
         i' = [i EXCEPT ![p] = @ + 1], pc' = [pc EXCEPT ![p] = Loop(i[p] + 1)],
         UNCHANGED <<queueVars, val, seen>>
  PROVE  Ledger' /\ UNCHANGED <<Contents, got>>
<1>0. UNCHANGED <<buf, head, tail, count, got>>
  BY DEF queueVars
<1>1. p \in Threads /\ p \notin Consumers /\ i[p] \in Nat /\ i[p] < N /\ N \in Nat
  BY ThreadsAssumption, NAssumption DEF Ledger, LoopInv, Threads
<1>2. /\ i'[p] = i[p] + 1 /\ pc'[p] \in {"lock", "done"} /\ (pc'[p] = "done" <=> i[p] + 1 >= N)
      /\ \A u \in Threads : u # p => i'[u] = i[u] /\ pc'[u] = pc[u]
  BY <1>1 DEF TypeOK, Ledger, LoopInv, Loop
<1>3. Added' = Added
  <2>1. ASSUME NEW u \in Values PROVE u \in Added' <=> u \in Added
    <3>1. u[1] \in Threads /\ u[2] \in Nat
      BY NAssumption DEF Values, Threads
    <3>2. CASE u[1] = p
      <4>1. (u[2] < i'[p]) <=> (u[2] < i[p] \/ u[2] = i[p])
        BY <1>1, <1>2, <3>1
      <4>2. pc'[p] # "unlock"
        BY <1>2
      <4> QED
        BY <3>2, <4>1, <4>2 DEF Added
    <3>3. CASE u[1] # p
      BY <1>2, <3>1, <3>3 DEF Added
    <3> QED
      BY <3>2, <3>3
  <2> QED
    BY <2>1 DEF Added
<1>4. Holding' = Holding
  BY <1>1, <1>2 DEF Holding, Threads
<1>5. OnePlace'
  BY <1>0, <1>3, <1>4, PlacesKept DEF Ledger
<1>6. LoopInv'
  <2>1. i' \in [Threads -> 0..N]
    BY <1>1 DEF Ledger, LoopInv
  <2> QED
    BY <1>1, <1>2, <2>1 DEF Ledger, LoopInv
<1>7. TurnsRecord'
  <2>1. \A x \in Consumers \X (0..(N - 1)) : i'[x[1]] = i[x[1]]
    BY <1>1, <1>2 DEF Threads
  <2> QED
    BY <2>1 DEF Ledger, TurnsRecord, Turns, Recorded
<1>8. RingInv' /\ UNCHANGED <<Contents, got>>
  BY <1>0 DEF Ledger, RingInv, Contents
<1> QED
  BY <1>5, <1>6, <1>7, <1>8 DEF Ledger

(* ... that of a consumer leaves it with its value. *)
LEMMA ConsumerUnlocks ==
  ASSUME TypeOK, Ledger, NEW c \in Consumers, pc[c] = "unlock",
         pc' = [pc EXCEPT ![c] = "record"], UNCHANGED <<queueVars, i, val, seen>>
  PROVE  Ledger' /\ UNCHANGED <<Contents, got>>
<1>1. c \in Threads /\ c \notin Producers
  BY ThreadsAssumption DEF Threads
<1>2. pc'[c] = "record" /\ \A u \in Threads : u # c => pc'[u] = pc[u]
  BY <1>1 DEF TypeOK
<1>3. Added' = Added
  BY <1>1, <1>2 DEF Added, Values, Threads
<1>4. Holding' = Holding
  BY <1>1, <1>2 DEF Holding, Threads
<1> QED
  BY <1>2, <1>3, <1>4, Quiet

(* The values and the turns are finitely many. *)
LEMMA TurnsFinite ==
  /\ IsFiniteSet(Values) /\ Cardinality(Values) = Cardinality(Producers) * N
  /\ IsFiniteSet(Consumers \X (0..(N - 1)))
  /\ Cardinality(Consumers \X (0..(N - 1))) = Cardinality(Consumers) * N
  /\ IsFiniteSet(Recorded) /\ IsFiniteSet(Turns)
<1>1. IsFiniteSet(0..(N - 1)) /\ Cardinality(0..(N - 1)) = N
  BY FS_Interval, NAssumption
<1>2. IsFiniteSet(Values) /\ Cardinality(Values) = Cardinality(Producers) * N
  <2>1. /\ IsFiniteSet(Producers \X (0..(N - 1)))
        /\ Cardinality(Producers \X (0..(N - 1))) = Cardinality(Producers) * Cardinality(0..(N - 1))
    BY <1>1, FS_Product, ThreadsAssumption, Zenon
  <2> QED
    BY <1>1, <2>1 DEF Values
<1>3. /\ IsFiniteSet(Consumers \X (0..(N - 1)))
      /\ Cardinality(Consumers \X (0..(N - 1))) = Cardinality(Consumers) * N
  <2>1. /\ IsFiniteSet(Consumers \X (0..(N - 1)))
        /\ Cardinality(Consumers \X (0..(N - 1))) = Cardinality(Consumers) * Cardinality(0..(N - 1))
    BY <1>1, FS_Product, ThreadsAssumption, Zenon
  <2> QED
    BY <1>1, <2>1
<1>4. Recorded \in SUBSET Values /\ Turns \in SUBSET (Consumers \X (0..(N - 1)))
  BY DEF Recorded, Turns
<1> QED
  BY <1>2, <1>3, <1>4, FS_Subset

(* consumer's seen[...] += 1, and its turn *)
LEMMA RecordStep ==
  ASSUME TypeOK, Ledger, NEW c \in Consumers, pc[c] = "record",
         seen' = [seen EXCEPT ![val[c]] = @ + 1], i' = [i EXCEPT ![c] = @ + 1],
         pc' = [pc EXCEPT ![c] = Loop(i[c] + 1)], UNCHANGED <<queueVars, val>>
  PROVE  Ledger' /\ UNCHANGED <<Contents, got>>
<1>0. UNCHANGED <<buf, head, tail, count, got>>
  BY DEF queueVars
<1>1. c \in Threads /\ c \notin Producers /\ i[c] \in Nat /\ i[c] < N /\ N \in Nat
  BY ThreadsAssumption, NAssumption DEF Ledger, LoopInv, Threads
<1>2. /\ i'[c] = i[c] + 1 /\ pc'[c] \in {"lock", "done"} /\ (pc'[c] = "done" <=> i[c] + 1 >= N)
      /\ \A u \in Threads : u # c => i'[u] = i[u] /\ pc'[u] = pc[u]
  BY <1>1 DEF TypeOK, Ledger, LoopInv, Loop
<1>3. Added' = Added
  BY <1>1, <1>2 DEF Added, Values, Threads
<1>4. Holding' = Holding \ {c} /\ c \in Holding
  <2>1. c \in Holding /\ c \notin Holding'
    BY <1>2 DEF Holding
  <2>2. \A d \in Consumers : d # c => (d \in Holding' <=> d \in Holding)
    BY <1>2 DEF Holding, Threads
  <2>3. Holding \subseteq Consumers /\ Holding' \subseteq Consumers
    BY DEF Holding
  <2> QED
    BY <2>1, <2>2, <2>3
<1>5. OnePlace'
  BY <1>0, <1>3, <1>4, RecordPlaces DEF Ledger
<1>6. LoopInv'
  <2>1. i' \in [Threads -> 0..N]
    BY <1>1 DEF Ledger, LoopInv
  <2> QED
    BY <1>1, <1>2, <2>1 DEF Ledger, LoopInv
<1>7. TurnsRecord'
  <2>1. /\ val[c] \in Values /\ seen[val[c]] = 0 /\ seen \in [Values -> Nat]
    BY <1>4 DEF Ledger, OnePlace, Added
  <2>2. Recorded' = Recorded \cup {val[c]} /\ val[c] \notin Recorded
    BY <2>1 DEF Recorded
  <2>3. Turns' = Turns \cup {<<c, i[c]>>} /\ <<c, i[c]>> \notin Turns
    <3>1. <<c, i[c]>> \in Consumers \X (0..(N - 1))
      BY <1>1
    <3>2. ASSUME NEW x \in Consumers \X (0..(N - 1))
          PROVE  x \in Turns' <=> x \in Turns \/ x = <<c, i[c]>>
      <4>1. x = <<x[1], x[2]>> /\ x[1] \in Threads /\ x[2] \in Nat
        BY <1>1 DEF Threads
      <4>2. CASE x[1] = c
        <5>1. (x[2] < i'[c]) <=> (x[2] < i[c] \/ x[2] = i[c])
          BY <1>1, <1>2, <4>1
        <5>2. x = <<c, i[c]>> <=> x[2] = i[c]
          BY <4>1, <4>2
        <5> QED
          BY <4>2, <5>1, <5>2 DEF Turns
      <4>3. CASE x[1] # c
        BY <1>2, <4>1, <4>3 DEF Turns
      <4> QED
        BY <4>2, <4>3
    <3>3. Turns \subseteq Consumers \X (0..(N - 1)) /\ Turns' \subseteq Consumers \X (0..(N - 1))
      BY DEF Turns
    <3>4. <<c, i[c]>> \notin Turns
      BY <1>1 DEF Turns
    <3> QED
      BY <3>1, <3>2, <3>3, <3>4
  <2>4. /\ Cardinality(Recorded') = Cardinality(Recorded) + 1
        /\ Cardinality(Turns') = Cardinality(Turns) + 1
    BY <2>2, <2>3, TurnsFinite, FS_AddElement
  <2> QED
    BY <2>4 DEF Ledger, TurnsRecord
<1>8. RingInv' /\ UNCHANGED <<Contents, got>>
  BY <1>0 DEF Ledger, RingInv, Contents
<1> QED
  BY <1>5, <1>6, <1>7, <1>8 DEF Ledger

(* Nothing but main moves. *)
LEMMA QuietMain ==
  ASSUME Ledger, UNCHANGED <<queueVars, pc, i, val, seen>>
  PROVE  Ledger' /\ UNCHANGED <<Contents, got>>
<1>1. Added' = Added
  BY DEF Added
<1>2. Holding' = Holding
  BY DEF Holding
<1> QED
  BY <1>1, <1>2, Quiet

(* Every step keeps the accounts, and is a step of the queue or none. *)
LEMMA BufferStep ==
  TypeOK /\ Ledger /\ [Next]_vars => Ledger' /\ [Fifo!Next]_<<Contents, got>>
<1> SUFFICES ASSUME TypeOK, Ledger, [Next]_vars
             PROVE  Ledger' /\ [Fifo!Next]_<<Contents, got>>
  OBVIOUS
<1> DEFINE Kept == Ledger' /\ UNCHANGED <<Contents, got>>
<1>1. ASSUME NEW t \in Threads, Lock(t) PROVE Kept
  BY <1>1, GoesTo, QuietMove DEF Lock
<1>2. ASSUME NEW t \in Threads, CondWait(t), pc[t] = "test", UNCHANGED <<i, seen>> PROVE Kept
  BY <1>2, GoesTo, QuietMove DEF CondWait
<1>3. ASSUME NEW t \in Threads, Put(t) PROVE Kept \/ (Ledger' /\ Fifo!Next)
  BY <1>2, <1>3, PutStep DEF Put
<1>4. ASSUME NEW t \in Threads, Get(t) PROVE Kept \/ (Ledger' /\ Fifo!Next)
  BY <1>2, <1>4, GetStep DEF Get
<1>5. ASSUME NEW t \in Threads, Unlock(t) PROVE Kept
  BY <1>5, ProducerUnlocks, ConsumerUnlocks DEF Unlock, Threads
<1>6. ASSUME NEW t \in Threads, Record(t) PROVE Kept
  BY <1>6, RecordStep DEF Record
<1>7. ASSUME NEW t \in Threads, SpuriousWakeup(t) PROVE Kept
  BY <1>7, GoesTo, QuietMove DEF SpuriousWakeup
<1>8. ASSUME NEW t \in Threads, MainCreate(t) PROVE Kept
  <2>1. Loop(0) = "lock"
    BY NAssumption DEF Loop
  <2> QED
    BY <1>8, <2>1, GoesTo, QuietMove DEF MainCreate
<1>9. ASSUME \/ \E t \in Threads : UseAfterDestroy(t)
             \/ MainInitStep \/ MainInitFails \/ MainCreateFails \/ MainExit \/ MainJoin
             \/ UNCHANGED vars
      PROVE  Kept
  <2>1. UNCHANGED <<queueVars, pc, i, val, seen>>
    BY <1>9 DEF UseAfterDestroy, MainInitStep, MainInitFails, MainCreateFails, MainExit, MainJoin,
                vars, queueVars
  <2> QED
    BY <2>1, QuietMain
<1> QED
  BY <1>1, <1>3, <1>4, <1>5, <1>6, <1>7, <1>8, <1>9 DEF Next, Worker, MainSucceeds

LEMMA BufferInit == Init => Ledger /\ Fifo!Init
<1> SUFFICES ASSUME Init PROVE Ledger /\ Fifo!Init
  OBVIOUS
<1>0. /\ Cap \in Nat /\ Cap > 0 /\ N \in Nat /\ N > 0 /\ count = 0
      /\ \A t \in Threads : pc[t] = "unborn" /\ i[t] = 0
  BY CapAssumption, NAssumption DEF Init
<1>1. RingInv
  BY <1>0 DEF Init, RingInv, Slots
<1>2. LoopInv
  BY <1>0 DEF Init, LoopInv
<1>3. Holding = {}
  BY <1>0 DEF Holding, Threads
<1>4. OnePlace
  BY <1>0, <1>3 DEF Init, OnePlace
<1>5. TurnsRecord
  <2>1. Recorded = {}
    BY DEF Init, Recorded
  <2>2. Turns = {}
    BY <1>0 DEF Turns, Threads
  <2> QED
    BY <2>1, <2>2 DEF TurnsRecord
<1>6. Contents = <<>> /\ got = <<>>
  BY <1>0 DEF Init, Contents
<1> QED
  BY <1>1, <1>2, <1>4, <1>5, <1>6 DEF Ledger, Fifo!Init

(* bq_init's steps, and what its labels undo of them *)
LEMMA Undoing ==
  ASSUME res \in {{}, {"buf"}, {"buf", "mutex"}, {"buf", "mutex", "cond_not_empty"}}
  PROVE  /\ res \ Undone(Steps[Cardinality(res) + 1]) = {}
         /\ LET more == res \cup {Steps[Cardinality(res) + 1]}
            IN \/ more = AllRes
               \/ more \in {{"buf"}, {"buf", "mutex"}, {"buf", "mutex", "cond_not_empty"}}
<1>1. Cardinality({}) = 0 /\ IsFiniteSet({})
  BY FS_EmptySet
<1>2. Cardinality({"buf"}) = 1 /\ IsFiniteSet({"buf"})
  BY FS_Singleton
<1>3. Cardinality({"buf", "mutex"}) = 2 /\ IsFiniteSet({"buf", "mutex"})
  <2>1. {"buf", "mutex"} = {"buf"} \cup {"mutex"} /\ "mutex" \notin {"buf"}
    OBVIOUS
  <2>2. /\ IsFiniteSet({"buf"} \cup {"mutex"})
        /\ Cardinality({"buf"} \cup {"mutex"}) = Cardinality({"buf"}) + 1
    BY <1>2, <2>1, FS_AddElement, Zenon
  <2> QED
    BY <1>2, <2>1, <2>2
<1>4. Cardinality({"buf", "mutex", "cond_not_empty"}) = 3
  <2>1. /\ {"buf", "mutex", "cond_not_empty"} = {"buf", "mutex"} \cup {"cond_not_empty"}
        /\ "cond_not_empty" \notin {"buf", "mutex"}
    OBVIOUS
  <2>2. Cardinality({"buf", "mutex"} \cup {"cond_not_empty"}) = Cardinality({"buf", "mutex"}) + 1
    BY <1>3, <2>1, FS_AddElement, Zenon
  <2> QED
    BY <1>3, <2>1, <2>2
<1>5. CASE res = {}
  BY <1>1, <1>5 DEF Steps, Undone, AllRes
<1>6. CASE res = {"buf"}
  BY <1>2, <1>6 DEF Steps, Undone, AllRes
<1>7. CASE res = {"buf", "mutex"}
  BY <1>3, <1>7 DEF Steps, Undone, AllRes
<1>8. CASE res = {"buf", "mutex", "cond_not_empty"}
  BY <1>4, <1>8 DEF Steps, Undone, AllRes
<1> QED
  BY <1>5, <1>6, <1>7, <1>8

LEMMA ResStep == TypeOK /\ ResInv /\ [Next]_vars => ResInv'
<1> SUFFICES ASSUME TypeOK, ResInv, [Next]_vars PROVE ResInv'
  OBVIOUS
<1>1. ASSUME Running, UNCHANGED <<res, mainPc>> PROVE ResInv'
  BY <1>1 DEF Running, ResInv
<1>2. ASSUME NEW t \in Threads, Worker(t) PROVE ResInv'
  <2>1. CASE UseAfterDestroy(t)
    BY <2>1 DEF UseAfterDestroy, ResInv
  <2>2. CASE ~UseAfterDestroy(t)
    <3>1. Running /\ UNCHANGED <<res, mainPc>>
      BY <1>2, <2>2 DEF Worker, Lock, Put, Get, Unlock, Record
    <3> QED
      BY <1>1, <3>1, SMTT(30)
  <2> QED
    BY <2>1, <2>2
<1>3. ASSUME NEW t \in Threads, SpuriousWakeup(t) PROVE ResInv'
  BY <1>1, <1>3 DEF SpuriousWakeup
<1>4. ASSUME NEW t \in Threads, MainCreate(t) PROVE ResInv'
  BY <1>4 DEF MainCreate, ResInv
<1>5. CASE MainInitStep
  BY <1>5, Undoing DEF MainInitStep, ResInv
<1>6. CASE MainInitFails
  BY <1>6, Undoing DEF MainInitFails, ResInv
<1>7. CASE MainCreateFails \/ MainExit \/ MainJoin
  BY <1>7 DEF MainCreateFails, MainExit, MainJoin, ResInv
<1>8. CASE UNCHANGED vars
  BY <1>8 DEF vars, ResInv
<1> QED
  BY <1>2, <1>3, <1>4, <1>5, <1>6, <1>7, <1>8 DEF Next, MainSucceeds

(* When every thread is done, as many values are recorded as there are. *)
LEMMA AllRecorded == Ledger /\ ResInv => EndsClean
<1> SUFFICES ASSUME Ledger, ResInv PROVE EndsClean
  OBVIOUS
<1>1. mainPc \in {"exited", "finished"} => res = {}
  BY DEF ResInv
<1>2. ASSUME mainPc = "finished" PROVE \A v \in Values : seen[v] = 1
  <2>1. \A c \in Consumers : i[c] = N
    BY <1>2 DEF ResInv, Ledger, LoopInv, Threads
  <2>2. Turns = Consumers \X (0..(N - 1))
    BY <2>1, NAssumption DEF Turns
  <2>3. Cardinality(Recorded) = Cardinality(Values)
    BY <2>2, TurnsFinite, ThreadsAssumption DEF Ledger, TurnsRecord
  <2>4. Recorded \in SUBSET Values
    BY DEF Recorded
  <2>5. Recorded = Values
    BY <2>3, <2>4, TurnsFinite, FS_Subset
  <2> QED
    BY <2>5 DEF Recorded
<1> QED
  BY <1>1, <1>2 DEF EndsClean

LEMMA BufferInductive == Spec => []IndInv
<1>1. Init => ResInv
  BY DEF Init, ResInv
<1>2. TypeOK /\ Ledger /\ ResInv <=> IndInv
  BY DEF Ledger, IndInv
<1> QED
  BY <1>1, <1>2, InitAccounts, StepAccounts, BufferInit, BufferStep, ResStep, PTL DEF Spec

(* Whichever of bq_init and the thread creations fail, main leaves nothing *)
(* set up; and when it has joined all threads, for any number of them, any *)
(* capacity and any number of values, each value was got exactly once.     *)
THEOREM EndsCleanly == Spec => []EndsClean
<1>1. IndInv => Ledger /\ ResInv
  BY DEF Ledger, IndInv
<1> QED
  BY <1>1, BufferInductive, AllRecorded, PTL

(* The buffer implements the bounded queue: a put past the while appends a *)
(* value, a get takes the oldest, and no other step changes what it holds. *)
THEOREM BufferIsFifo == Spec => ImplementsBoundedFifo
<1>1. IndInv => TypeOK /\ Ledger
  BY DEF Ledger, IndInv
<1> QED
  BY <1>1, BufferInductive, BufferInit, BufferStep, PTL
     DEF Spec, ImplementsBoundedFifo, Fifo!Spec
=============================================================================
