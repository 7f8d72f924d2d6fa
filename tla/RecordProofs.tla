---------------------------- MODULE RecordProofs ----------------------------
(***************************************************************************)
(* Theorems about programs that must take in everything once: the lock-    *)
(* based CPU logger its entries, for any CPUs, entries, buffer and log     *)
(* sizes with room for all (CpuLoggerLock); the parser of mock4.c the      *)
(* messages of a buffer (MessageParser); and the flood of number of        *)
(* islands the cells of a grid of any size (Islands).                      *)
(***************************************************************************)
EXTENDS CpuLoggerLock, ParserProgram, Islands, FiniteSetTheorems, TLAPS

LEMMA InitHolds == Init => IndInv
<1> SUFFICES ASSUME Init PROVE IndInv
  OBVIOUS
<1>1. TypeOK
  <2>1. 0 \in Nat /\ 0 \in 0..Entries
    BY EntriesAssumption
  <2>2. busy \in BOOLEAN /\ count \in Nat
    BY DEF Init
  <2> QED
    BY <2>1, <2>2, Zenon DEF Init, TypeOK
<1>2. ~busy /\ \A c \in Cpus : pc[c] = "unborn"
  BY Zenon DEF Init
<1>3. \A c \in Cpus : ~Flushing(c) /\ pc[c] # "asleep" /\ pc[c] # "copy"
  BY <1>2 DEF Flushing
<1> QED
  BY <1>1, <1>2, <1>3 DEF IndInv, OneOwner, NoLostBroadcast, BusyMeansFlushing

(* A CPU that does not write starts to, and only when the flag was clear.  *)
LEMMA Claim ==
  ASSUME IndInv, NEW c \in Cpus, ~busy, pc[c] \in {"loop", "wait"},
         TypeOK', busy', pc' = [pc EXCEPT ![c] = "flush"], UNCHANGED <<count, reg>>
  PROVE  IndInv'
<1>1. \A d \in Cpus : Flushing(d)' <=> d = c
  BY DEF IndInv, TypeOK, BusyMeansFlushing, Flushing
<1> QED
  BY <1>1 DEF IndInv, TypeOK, OneOwner, NoLostBroadcast, BusyMeansFlushing, Flushing

(* A CPU that does not write moves on without writing; it sleeps only when *)
(* the flag is set.                                                        *)
LEMMA Bystander ==
  ASSUME IndInv, NEW c \in Cpus, ~Flushing(c), NEW next \in {"loop", "wait", "asleep", "done"},
         next = "asleep" => busy,
         TypeOK', pc' = [pc EXCEPT ![c] = next], UNCHANGED <<count, busy, reg>>
  PROVE  IndInv'
<1>1. \A d \in Cpus : Flushing(d)' <=> Flushing(d)
  BY DEF IndInv, TypeOK, Flushing
<1>2. OneOwner' /\ BusyMeansFlushing'
  BY <1>1 DEF IndInv, TypeOK, OneOwner, BusyMeansFlushing, Flushing
<1>3. NoLostBroadcast'
  BY <1>1 DEF IndInv, TypeOK, NoLostBroadcast, BusyMeansFlushing
<1> QED
  BY <1>2, <1>3 DEF IndInv

-----------------------------------------------------------------------------
(* Every step preserves the invariant: try_begin_write and                 *)
(* wait_begin_write claim a clear flag, a write keeps the owner, and       *)
(* end_write wakes everybody as it clears the flag.                        *)
LEMMA StepHolds == IndInv /\ [Next]_vars => IndInv'
<1> SUFFICES ASSUME IndInv, [Next]_vars PROVE IndInv'
  OBVIOUS
<1> USE DEF IndInv
<1>1. ASSUME NEW c \in Cpus, Create(c) PROVE IndInv'
  <2>1. TypeOK' /\ ~Flushing(c)
    BY <1>1 DEF Create, TypeOK, Flushing
  <2> QED
    BY <1>1, <2>1, Bystander DEF Create
<1>2. ASSUME NEW c \in Cpus, Stage(c) PROVE IndInv'
  <2>1. TypeOK' /\ ~Flushing(c)
    BY <1>2, EntriesAssumption DEF Stage, TypeOK, Flushing
  <2>2. CASE busy
    <3>1. PICK next \in {"loop", "wait"} : pc' = [pc EXCEPT ![c] = next]
      BY <1>2, <2>2 DEF Stage
    <3>2. busy' = busy
      BY <1>2, <2>2 DEF Stage, TypeOK
    <3> QED
      BY <1>2, <2>1, <2>2, <3>1, <3>2, Bystander DEF Stage
  <2>3. CASE ~busy
    BY <1>2, <2>1, <2>3, Claim DEF Stage
  <2> QED
    BY <2>2, <2>3
<1>3. ASSUME NEW c \in Cpus, Drain(c) PROVE IndInv'
  <2>1. TypeOK' /\ ~Flushing(c)
    BY <1>3 DEF Drain, TypeOK, Flushing
  <2>2. PICK next \in {"done", "wait"} : pc' = [pc EXCEPT ![c] = next]
    BY <1>3 DEF Drain
  <2> QED
    BY <1>3, <2>1, <2>2, Bystander DEF Drain
<1>4. ASSUME NEW c \in Cpus, WaitBegin(c) PROVE IndInv'
  <2>1. TypeOK' /\ ~Flushing(c)
    BY <1>4 DEF WaitBegin, TypeOK, Flushing
  <2>2. CASE busy
    <3>1. busy' = busy
      BY <1>4, <2>2 DEF WaitBegin, TypeOK
    <3> QED
      BY <1>4, <2>1, <2>2, <3>1, Bystander DEF WaitBegin
  <2>3. CASE ~busy
    BY <1>4, <2>1, <2>3, Claim DEF WaitBegin
  <2> QED
    BY <2>2, <2>3
<1>5. ASSUME NEW c \in Cpus, SpuriousWakeup(c) PROVE IndInv'
  <2>1. TypeOK' /\ ~Flushing(c)
    BY <1>5 DEF SpuriousWakeup, TypeOK, Flushing
  <2> QED
    BY <1>5, <2>1, Bystander DEF SpuriousWakeup
<1>6. ASSUME NEW c \in Cpus, FlushLoad(c) \/ FlushCopy(c) PROVE IndInv'
  <2>1. TypeOK' /\ Flushing(c)
    <3>1. CASE FlushLoad(c)
      BY <3>1 DEF FlushLoad, TypeOK, Flushing
    <3>2. CASE FlushCopy(c)
      <4>1. count' \in Nat
        BY <3>2 DEF FlushCopy, TypeOK
      <4> QED
        BY <3>2, <4>1 DEF FlushCopy, TypeOK, Flushing
    <3> QED
      BY <1>6, <3>1, <3>2
  <2>2. \A d \in Cpus : (Flushing(d)' <=> d = c) /\ (Flushing(d) <=> d = c)
    BY <1>6, <2>1 DEF FlushLoad, FlushCopy, TypeOK, OneOwner, Flushing
  <2>3. pc'[c] = "copy" => reg'[c] = count'
    BY <1>6 DEF FlushLoad, FlushCopy, TypeOK
  <2>4. OneOwner'
    <3>1. busy'
      BY <1>6, <2>1 DEF FlushLoad, FlushCopy, OneOwner
    <3> QED
      BY <2>2, <2>3, <3>1 DEF OneOwner, Flushing
  <2>5. NoLostBroadcast' /\ BusyMeansFlushing'
    BY <1>6, <2>2, <2>4 DEF NoLostBroadcast, BusyMeansFlushing, OneOwner
  <2> QED
    BY <2>1, <2>4, <2>5
<1>7. ASSUME NEW c \in Cpus, EndWrite(c) PROVE IndInv'
  <2>1. TypeOK' /\ Flushing(c) /\ ~busy'
    BY <1>7 DEF EndWrite, TypeOK, Flushing
  <2>2. \A d \in Cpus : ~Flushing(d)' /\ pc'[d] # "asleep" /\ pc'[d] # "copy"
    BY <1>7, <2>1 DEF EndWrite, TypeOK, OneOwner, Flushing
  <2> QED
    BY <2>1, <2>2 DEF OneOwner, NoLostBroadcast, BusyMeansFlushing
<1>8. CASE UNCHANGED vars
  BY <1>8 DEF vars, TypeOK, OneOwner, NoLostBroadcast, BusyMeansFlushing, Flushing
<1> QED
  BY <1>1, <1>2, <1>3, <1>4, <1>5, <1>6, <1>7, <1>8 DEF Next, Worker

LEMMA Invariance == Spec => []IndInv
  BY InitHolds, StepHolds, PTL DEF Spec

(* Although the copy runs with no mutex held, one CPU at a time makes it   *)
(* and g_count does not change under it, for any number of CPUs.           *)
THEOREM Ownership == Spec => []OneOwner
  BY Invariance, PTL DEF IndInv

(* A CPU sleeps in wait_begin_write only while some other will broadcast.  *)
THEOREM BroadcastSafety == Spec => []NoLostBroadcast
  BY Invariance, PTL DEF IndInv

-----------------------------------------------------------------------------
(* What a worker may find when it starts a turn, and when it has returned. *)
Ready(c) ==
  /\ pc[c] = "done" => i[c] = Entries /\ pending[c] = <<>>
  /\ pc[c] = "loop" => Len(pending[c]) < LocalCap

(* The log's half of NothingLost. *)
LogInOrder ==
  /\ Logged = {e \in Cpus \X (0..(Entries - 1)) : e[2] < Uncopied(e[1])}
  /\ \A s, t \in 0..(count - 1) : s < t /\ log[s][1] = log[t][1] => log[s][2] < log[t][2]

Staging == StagingInv /\ LogInOrder /\ \A c \in Cpus : Ready(c)

LEMMA StagingSuffices == IndInv /\ Staging => NothingLost
<1> SUFFICES ASSUME IndInv, Staging PROVE NothingLost
  OBVIOUS
<1>1. ASSUME NEW c \in Cpus, NEW m \in 1..(Len(pending[c]) - k[c])
      PROVE  pending[c][k[c] + m] = Uncopied(c) + m - 1
  <2>1. CpuInv(c) /\ pending[c] \in Seq(Nat) /\ k[c] \in Nat /\ i[c] \in Nat
    BY DEF IndInv, TypeOK, Staging, StagingInv
  <2>2. /\ k[c] + m \in 1..Len(pending[c]) /\ Len(pending[c]) \in Nat /\ m \in Int
        /\ k[c] \in Nat /\ i[c] \in Nat
    BY <2>1
  <2>3. pending[c][k[c] + m] = i[c] - Len(pending[c]) + (k[c] + m) - 1
    BY <2>1, <2>2, Zenon DEF CpuInv
  <2>4. \A a, b, n, j \in Int : a - n + (b + j) - 1 = (a - (n - b)) + j - 1
    OBVIOUS
  <2>5. i[c] - Len(pending[c]) + (k[c] + m) - 1 = (i[c] - (Len(pending[c]) - k[c])) + m - 1
    BY <2>2, <2>4, SMTT(30)
  <2> QED
    BY <2>3, <2>5, Zenon DEF Uncopied
<1> QED
  BY <1>1 DEF Staging, LogInOrder, Ready, NothingLost

(* The log is left alone, and so is what each CPU has copied. *)
LEMMA LogKept ==
  ASSUME LogInOrder, UNCHANGED <<log, count>>, \A c \in Cpus : Uncopied(c)' = Uncopied(c)
  PROVE  LogInOrder' /\ Logged' = Logged
<1>1. Logged' = Logged
  BY DEF Logged
<1>2. \A e \in Cpus \X (0..(Entries - 1)) : Uncopied(e[1])' = Uncopied(e[1])
  OBVIOUS
<1> QED
  BY <1>1, <1>2 DEF LogInOrder

(* A CPU whose buffer is left alone, and that stays where it is or is      *)
(* woken.                                                                  *)
LEMMA Elsewhere ==
  ASSUME NEW c \in Cpus, CpuInv(c), Ready(c), pc[c] = "copy" => count' = count,
         pending'[c] = pending[c], k'[c] = k[c], i'[c] = i[c],
         pc'[c] = pc[c] \/ (pc[c] = "asleep" /\ pc'[c] = "wait")
  PROVE  CpuInv(c)' /\ Ready(c)' /\ Uncopied(c)' = Uncopied(c)
  BY DEF CpuInv, Ready, Uncopied, Flushing

(* Only c moves, and only its label: Create, Drain, WaitBegin,             *)
(* SpuriousWakeup and FlushLoad.                                           *)
LEMMA OnlyMoves ==
  ASSUME IndInv, Staging, NEW c \in Cpus, NEW next, pc' = [pc EXCEPT ![c] = next],
         CpuInv(c)', Ready(c)', UNCHANGED <<log, count, i, pending, k>>
  PROVE  Staging'
<1>1. \A d \in Cpus : d # c => pc'[d] = pc[d]
  BY DEF IndInv, TypeOK
<1>2. ASSUME NEW d \in Cpus PROVE CpuInv(d)' /\ Ready(d)'
  <2>1. CASE d # c
    BY <1>1, <2>1, Elsewhere DEF Staging, StagingInv
  <2> QED
    BY <2>1
<1>3. LogInOrder' /\ Logged' = Logged
  BY LogKept DEF Staging, Uncopied
<1> QED
  BY <1>2, <1>3 DEF Staging, StagingInv

LEMMA StageStep ==
  ASSUME IndInv, Staging, NEW c \in Cpus, Stage(c)
  PROVE  Staging'
<1>1. pending[c] \in Seq(Nat) /\ i[c] \in Nat /\ i[c] < Entries /\ k[c] \in Nat
  BY DEF IndInv, TypeOK, Staging, StagingInv, Stage
<1>2. CpuInv(c) /\ k[c] = 0 /\ Len(pending[c]) < LocalCap
  BY DEF Staging, StagingInv, CpuInv, Ready, Stage, Flushing
<1>3. /\ pending'[c] = Append(pending[c], i[c]) /\ i'[c] = i[c] + 1 /\ k' = k
      /\ pc'[c] \in {"flush", "wait", "loop"}
      /\ pc'[c] = "loop" => Len(pending[c]) + 1 # LocalCap
      /\ \A d \in Cpus : d # c => pending'[d] = pending[d] /\ i'[d] = i[d] /\ pc'[d] = pc[d]
      /\ pending' \in [Cpus -> Seq(Nat)]
  BY <1>1 DEF Stage, IndInv, TypeOK, Staging, StagingInv
<1>4. PICK n \in Nat :
        /\ Len(pending[c]) = n /\ Len(pending'[c]) = n + 1
        /\ \A m \in 1..n : pending'[c][m] = pending[c][m]
        /\ pending'[c][n + 1] = i[c]
  <2>1. ASSUME NEW q \in Seq(Nat), NEW x \in Nat
        PROVE  /\ Len(q) \in Nat /\ Len(Append(q, x)) = Len(q) + 1
               /\ \A m \in 1..Len(q) : Append(q, x)[m] = q[m]
               /\ Append(q, x)[Len(q) + 1] = x
    OBVIOUS
  <2> DEFINE q == pending[c]
  <2>2. /\ Len(q) \in Nat /\ Len(Append(q, i[c])) = Len(q) + 1
        /\ \A m \in 1..Len(q) : Append(q, i[c])[m] = q[m]
        /\ Append(q, i[c])[Len(q) + 1] = i[c]
    BY <1>1, <2>1, Zenon
  <2> QED
    BY <1>3, <2>2
<1>5. CpuInv(c)' /\ Ready(c)' /\ Uncopied(c)' = Uncopied(c)
  <2>1. ASSUME NEW m \in 1..(n + 1) PROVE pending'[c][m] = i'[c] - (n + 1) + m - 1
    <3>1. CASE m \in 1..n
      <4>1. pending[c][m] = i[c] - n + m - 1
        BY <1>2, <1>4, <3>1 DEF CpuInv
      <4> QED
        BY <1>1, <1>3, <1>4, <3>1, <4>1, SMTT(30)
    <3>2. CASE m = n + 1
      BY <1>1, <1>3, <1>4, <3>2
    <3> QED
      BY <3>1, <3>2
  <2>2. k'[c] <= n + 1 /\ n + 1 <= i'[c]
    BY <1>1, <1>2, <1>3, <1>4 DEF CpuInv
  <2>3. CpuInv(c)'
    <3>1. \A m \in 1..Len(pending'[c]) : pending'[c][m] = i'[c] - Len(pending'[c]) + m - 1
      BY <1>4, <2>1, Zenon
    <3>2. k'[c] <= Len(pending'[c]) /\ Len(pending'[c]) <= i'[c]
      BY <1>4, <2>2
    <3>3. k'[c] = 0 /\ pc'[c] # "unborn" /\ pc'[c] # "copy"
      BY <1>2, <1>3
    <3> QED
      BY <3>1, <3>2, <3>3, Zenon DEF CpuInv
  <2>4. Ready(c)'
    BY <1>2, <1>3, <1>4, LocalCapAssumption DEF Ready
  <2>5. Uncopied(c) = i[c] - (n - k[c]) /\ Uncopied(c)' = (i[c] + 1) - ((n + 1) - k[c])
    BY <1>3, <1>4, Zenon DEF Uncopied
  <2>6. \A a, b, d \in Int : (a + 1) - ((b + 1) - d) = a - (b - d)
    OBVIOUS
  <2>7. i[c] \in Int /\ k[c] \in Int /\ n \in Int
    BY <1>1, <1>4
  <2>8. Uncopied(c)' = Uncopied(c)
    BY <2>5, <2>6, <2>7, Zenon
  <2> QED
    BY <2>3, <2>4, <2>8
<1>6. ASSUME NEW d \in Cpus PROVE CpuInv(d)' /\ Ready(d)' /\ Uncopied(d)' = Uncopied(d)
  <2>1. CASE d # c
    BY <1>3, <2>1, Elsewhere DEF Stage, Staging, StagingInv
  <2> QED
    BY <1>5, <2>1
<1>7. LogInOrder' /\ Logged' = Logged
  BY <1>6, LogKept DEF Stage, Staging
<1> QED
  BY <1>3, <1>6, <1>7 DEF Staging, StagingInv, Stage

(* There are as many entries as main has made room for. *)
LEMMA EntriesFinite ==
  /\ IsFiniteSet(Cpus \X (0..(Entries - 1)))
  /\ Cardinality(Cpus \X (0..(Entries - 1))) <= LogCapacity
<1>1. IsFiniteSet(0..(Entries - 1)) /\ Cardinality(0..(Entries - 1)) = Entries
  BY EntriesAssumption, FS_Interval
<1>2. /\ IsFiniteSet(Cpus \X (0..(Entries - 1)))
      /\ Cardinality(Cpus \X (0..(Entries - 1))) = Cardinality(Cpus) * Cardinality(0..(Entries - 1))
  BY <1>1, CpusAssumption, FS_Product, Zenon
<1> QED
  BY <1>1, <1>2, LogCapacityAssumption

(* flush's store: the entry goes to the end of the log. *)
LEMMA CopyStep ==
  ASSUME IndInv, Staging, NEW c \in Cpus, FlushCopy(c)
  PROVE  Staging'
<1>1. /\ pending[c] \in Seq(Nat) /\ i[c] \in Nat /\ i[c] <= Entries /\ k[c] \in Nat /\ count \in Nat
      /\ Entries \in Nat /\ LogCapacity \in Nat
  BY EntriesAssumption, LogCapacityAssumption DEF IndInv, TypeOK, Staging, StagingInv
<1>2. CpuInv(c) /\ k[c] < Len(pending[c]) /\ count < LogCapacity /\ reg[c] = count
  BY DEF Staging, StagingInv, CpuInv, IndInv, OneOwner, FlushCopy
<1>3. PICK n \in Nat, e \in Nat :
        /\ Len(pending[c]) = n /\ e = pending[c][k[c] + 1] /\ e < i[c]
        /\ e = i[c] - (n - k[c]) /\ Uncopied(c) = e
  <2>1. PICK n \in Nat : Len(pending[c]) = n
    BY <1>1
  <2>2. k[c] + 1 \in 1..n /\ n <= i[c]
    <3>1. k[c] < n /\ n <= i[c]
      BY <1>2, <2>1, Zenon DEF CpuInv
    <3>2. \A a, b \in Nat : a < b => a + 1 \in 1..b
      OBVIOUS
    <3> QED
      BY <1>1, <3>1, <3>2, Zenon
  <2>3. pending[c][k[c] + 1] = i[c] - n + (k[c] + 1) - 1
    BY <1>2, <2>1, <2>2, Zenon DEF CpuInv
  <2>4. i[c] - n + (k[c] + 1) - 1 = i[c] - (n - k[c])
    BY <1>1
  <2>5. i[c] - (n - k[c]) \in Nat /\ i[c] - (n - k[c]) < i[c]
    <3>1. \A a, b, d \in Nat : b <= a /\ d + 1 \in 1..b => a - (b - d) \in Nat /\ a - (b - d) < a
      OBVIOUS
    <3> QED
      BY <1>1, <2>2, <3>1, Zenon
  <2>6. Uncopied(c) = i[c] - (n - k[c])
    BY <2>1 DEF Uncopied
  <2> QED
    BY <2>1, <2>3, <2>4, <2>5, <2>6, Zenon
<1>4. /\ log' = [log EXCEPT ![count] = <<c, e>>] /\ count' = count + 1
      /\ k' = [k EXCEPT ![c] = @ + 1] /\ pc' = [pc EXCEPT ![c] = "flush"]
      /\ UNCHANGED <<i, pending>>
  BY <1>2, <1>3 DEF FlushCopy
<1>5. /\ k'[c] = k[c] + 1 /\ pc'[c] = "flush" /\ k' \in [Cpus -> Nat]
      /\ \A d \in Cpus : d # c => k'[d] = k[d] /\ pc'[d] = pc[d] /\ pc[d] # "copy"
  <2>1. \A d \in Cpus : d # c => pc[d] # "copy"
    BY DEF FlushCopy, IndInv, OneOwner, Flushing
  <2> QED
    BY <1>1, <1>4, <2>1 DEF IndInv, TypeOK, Staging, StagingInv
<1>6. CpuInv(c)' /\ Ready(c)' /\ Uncopied(c)' = e + 1
  <2>1. Uncopied(c)' = i[c] - (n - (k[c] + 1))
    BY <1>3, <1>4, <1>5, Zenon DEF Uncopied
  <2>2. Uncopied(c)' = e + 1
    BY <1>1, <1>3, <2>1
  <2>3. CpuInv(c)'
    <3>0. k[c] < n /\ n <= i[c]
      BY <1>2, <1>3 DEF CpuInv
    <3>1. k'[c] <= Len(pending'[c]) /\ Len(pending'[c]) <= i'[c]
      BY <1>1, <1>3, <1>4, <1>5, <3>0, SMTT(30)
    <3>2. \A m \in 1..Len(pending'[c]) : pending'[c][m] = i'[c] - Len(pending'[c]) + m - 1
      BY <1>2, <1>4, Zenon DEF CpuInv
    <3> QED
      BY <1>5, <3>1, <3>2 DEF CpuInv, Flushing
  <2> QED
    BY <1>5, <2>2, <2>3 DEF Ready
<1>7. \A d \in Cpus : d # c => CpuInv(d)' /\ Ready(d)' /\ Uncopied(d)' = Uncopied(d)
  BY <1>4, <1>5, Elsewhere DEF Staging, StagingInv
<1>8. <<c, e>> \in Cpus \X (0..(Entries - 1)) /\ <<c, e>> \notin Logged
  <2>1. e \in 0..(Entries - 1) /\ ~(e < e)
    BY <1>1, <1>3
  <2>2. <<c, e>>[1] = c /\ <<c, e>>[2] = e
    OBVIOUS
  <2> QED
    BY <1>3, <2>1, <2>2 DEF Staging, LogInOrder
<1>9. log' \in [Places -> (Cpus \X (0..(Entries - 1))) \cup {NoEntry}] /\ count \in Places
  BY <1>1, <1>2, <1>4, <1>8, SMTT(30) DEF Places, Staging, StagingInv
<1>10. /\ log'[count] = <<c, e>>
       /\ \A s \in 0..(count - 1) : s \in Places /\ s # count /\ log'[s] = log[s]
       /\ 0..(count' - 1) = (0..(count - 1)) \cup {count}
  <2>1. \A s \in 0..(count - 1) : s \in Places /\ s # count
    BY <1>1, <1>2 DEF Places
  <2>2. 0..(count' - 1) = (0..(count - 1)) \cup {count}
    BY <1>1, <1>4
  <2> QED
    BY <1>4, <1>9, <2>1, <2>2 DEF Staging, StagingInv
<1>11. Logged' = Logged \cup {<<c, e>>}
  BY <1>10, Zenon DEF Logged
<1>12. IsFiniteSet(Logged) /\ count = Cardinality(Logged)
  <2>2. Logged \in SUBSET (Cpus \X (0..(Entries - 1)))
    BY DEF Staging, LogInOrder
  <2> QED
    BY <2>2, EntriesFinite, FS_Subset DEF Staging, StagingInv
<1>13. count' = Cardinality(Logged') /\ count' <= LogCapacity
  <2>1. Cardinality(Logged \cup {<<c, e>>}) = Cardinality(Logged) + 1
    BY <1>8, <1>12, FS_AddElement
  <2> QED
    BY <1>1, <1>2, <1>4, <1>11, <1>12, <2>1
<1>14. Logged' = {x \in Cpus \X (0..(Entries - 1)) : x[2] < Uncopied(x[1])'}
  <2>1. ASSUME NEW x \in Cpus \X (0..(Entries - 1))
        PROVE  x \in Logged' <=> x[2] < Uncopied(x[1])'
    <3>1. x = <<x[1], x[2]>> /\ x[1] \in Cpus /\ x[2] \in Nat
      BY <1>1
    <3>2. x \in Logged <=> x[2] < Uncopied(x[1])
      BY DEF Staging, LogInOrder
    <3>3. CASE x[1] = c
      <4>1. x[2] < e + 1 <=> x[2] < e \/ x[2] = e
        BY <3>1
      <4>2. x = <<c, e>> <=> x[2] = e
        BY <3>1, <3>3
      <4> QED
        BY <1>3, <1>6, <1>11, <3>2, <3>3, <4>1, <4>2
    <3>4. CASE x[1] # c
      BY <1>7, <1>11, <3>1, <3>2, <3>4
    <3> QED
      BY <3>3, <3>4
  <2>2. Logged' \subseteq Cpus \X (0..(Entries - 1))
    BY <1>8, <1>11 DEF Staging, LogInOrder
  <2> QED
    BY <2>1, <2>2
<1>15. ASSUME NEW s \in 0..(count' - 1), NEW t \in 0..(count' - 1), s < t, log'[s][1] = log'[t][1]
       PROVE  log'[s][2] < log'[t][2]
  <2>1. s \in 0..(count - 1)
    BY <1>1, <1>4, <1>15
  <2>2. CASE t \in 0..(count - 1)
    BY <1>10, <1>15, <2>1, <2>2 DEF Staging, LogInOrder
  <2>3. CASE t = count
    <3>1. log[s] \in Logged
      BY <2>1 DEF Logged
    <3>2. log[s][2] < Uncopied(log[s][1])
      BY <3>1 DEF Staging, LogInOrder
    <3>3. log[s][1] = c
      BY <1>10, <1>15, <2>1, <2>3
    <3>4. log'[s] = log[s] /\ log'[t] = <<c, e>>
      BY <1>10, <2>1, <2>3
    <3> QED
      BY <1>3, <3>2, <3>3, <3>4
  <2> QED
    BY <1>10, <2>2, <2>3
<1>16. LogInOrder'
  BY <1>14, <1>15 DEF LogInOrder
<1> QED
  BY <1>4, <1>5, <1>6, <1>7, <1>9, <1>13, <1>16 DEF Staging, StagingInv

(* end_write: flush has stopped because everything is copied, for an entry *)
(* that is not in the log would have a place in it.                        *)
LEMMA EndStep ==
  ASSUME IndInv, Staging, NEW c \in Cpus, EndWrite(c)
  PROVE  Staging'
<1>1. /\ i[c] \in Nat /\ i[c] <= Entries /\ k[c] \in Nat /\ count \in Nat
      /\ Entries \in Nat /\ LogCapacity \in Nat /\ LocalCap \in Nat /\ LocalCap > 0
  BY EntriesAssumption, LogCapacityAssumption, LocalCapAssumption
     DEF IndInv, TypeOK, Staging, StagingInv
<1>2. PICK n \in Nat : Len(pending[c]) = n /\ k[c] <= n /\ n <= i[c] /\ Uncopied(c) = i[c] - (n - k[c])
  <2>1. pending[c] \in Seq(Nat) /\ CpuInv(c)
    BY DEF Staging, StagingInv
  <2> QED
    BY <2>1 DEF CpuInv, Uncopied
<1>3. k[c] = n
  <2> SUFFICES ASSUME k[c] < n PROVE FALSE
    BY <1>1, <1>2
  <2>1. PICK e \in 0..(Entries - 1) : e = Uncopied(c)
    BY <1>1, <1>2
  <2>2. <<c, e>> \notin Logged
    <3>1. <<c, e>>[1] = c /\ <<c, e>>[2] = e /\ ~(e < e)
      BY <2>1
    <3> QED
      BY <2>1, <3>1 DEF Staging, LogInOrder
  <2>3. <<c, e>> \in Cpus \X (0..(Entries - 1)) /\ Logged \in SUBSET (Cpus \X (0..(Entries - 1)))
    BY <2>1 DEF Staging, LogInOrder
  <2>4. Cardinality(Logged) < Cardinality(Cpus \X (0..(Entries - 1)))
    <3>1. /\ Cardinality(Logged) <= Cardinality(Cpus \X (0..(Entries - 1)))
          /\ Cardinality(Logged) = Cardinality(Cpus \X (0..(Entries - 1)))
               => Logged = Cpus \X (0..(Entries - 1))
      BY <2>3, EntriesFinite, FS_Subset
    <3>2. Cardinality(Logged) \in Nat /\ Cardinality(Cpus \X (0..(Entries - 1))) \in Nat
      BY <2>3, EntriesFinite, FS_Subset, FS_CardinalityType
    <3> QED
      BY <2>2, <2>3, <3>1, <3>2
  <2>5. count < LogCapacity
    <3>1. Cardinality(Cpus \X (0..(Entries - 1))) \in Nat
      BY EntriesFinite, FS_CardinalityType
    <3> QED
      BY <1>1, <2>4, <3>1, EntriesFinite DEF Staging, StagingInv
  <2> QED
    BY <1>1, <1>2, <2>5 DEF EndWrite
<1>4. /\ pending'[c] = <<>> /\ k'[c] = 0 /\ pc'[c] = "loop"
      /\ pending' \in [Cpus -> Seq(Nat)] /\ k' \in [Cpus -> Nat]
      /\ \A d \in Cpus : d # c => /\ pending'[d] = pending[d] /\ k'[d] = k[d]
                                  /\ pc'[d] = pc[d] \/ (pc[d] = "asleep" /\ pc'[d] = "wait")
  BY DEF EndWrite, Staging, StagingInv
<1>5. CpuInv(c)' /\ Ready(c)' /\ Uncopied(c)' = Uncopied(c)
  <2>1. Len(pending'[c]) = 0 /\ i' = i
    BY <1>4 DEF EndWrite
  <2>2. CpuInv(c)' /\ Ready(c)'
    BY <1>1, <1>4, <2>1 DEF CpuInv, Ready
  <2>3. Uncopied(c)' = i[c] - (0 - 0)
    BY <1>4, <2>1, Zenon DEF Uncopied
  <2> QED
    BY <1>1, <1>2, <1>3, <2>2, <2>3
<1>6. ASSUME NEW d \in Cpus PROVE CpuInv(d)' /\ Ready(d)' /\ Uncopied(d)' = Uncopied(d)
  <2>1. CASE d # c
    BY <1>4, <2>1, Elsewhere DEF EndWrite, Staging, StagingInv
  <2> QED
    BY <1>5, <2>1
<1>7. LogInOrder' /\ Logged' = Logged
  BY <1>6, LogKept DEF EndWrite, Staging
<1> QED
  BY <1>4, <1>6, <1>7 DEF Staging, StagingInv, EndWrite

LEMMA StagingStep == IndInv /\ Staging /\ [Next]_vars => Staging'
<1> SUFFICES ASSUME IndInv, Staging, [Next]_vars PROVE Staging'
  OBVIOUS
<1>0. \A c \in Cpus : CpuInv(c) /\ Ready(c)
  BY DEF Staging, StagingInv
<1>1. ASSUME NEW c \in Cpus, Create(c) PROVE Staging'
  <2>1. pc'[c] = "loop" /\ pending' = pending /\ pending[c] = <<>> /\ Len(pending[c]) = 0
    BY <1>0, <1>1 DEF Create, CpuInv, IndInv, TypeOK
  <2>2. Ready(c)'
    BY <2>1, LocalCapAssumption DEF Ready
  <2>3. CpuInv(c)'
    BY <1>0, <1>1, <2>1 DEF Create, CpuInv, Flushing
  <2> QED
    BY <1>1, <2>2, <2>3, OnlyMoves, ZenonT(30) DEF Create
<1>2. ASSUME NEW c \in Cpus, Drain(c) PROVE Staging'
  <2>1. CpuInv(c)' /\ Ready(c)'
    BY <1>0, <1>2 DEF Drain, CpuInv, Ready, Flushing, IndInv, TypeOK
  <2> QED
    BY <1>2, <2>1, OnlyMoves DEF Drain
<1>3. ASSUME NEW c \in Cpus, WaitBegin(c) PROVE Staging'
  <2>1. CpuInv(c)' /\ Ready(c)'
    BY <1>0, <1>3 DEF WaitBegin, CpuInv, Ready, Flushing, IndInv, TypeOK
  <2> QED
    BY <1>3, <2>1, OnlyMoves DEF WaitBegin
<1>4. ASSUME NEW c \in Cpus, SpuriousWakeup(c) PROVE Staging'
  <2>1. CpuInv(c)' /\ Ready(c)'
    BY <1>0, <1>4 DEF SpuriousWakeup, CpuInv, Ready, Flushing, IndInv, TypeOK
  <2> QED
    BY <1>4, <2>1, OnlyMoves DEF SpuriousWakeup
<1>5. ASSUME NEW c \in Cpus, FlushLoad(c) PROVE Staging'
  <2>1. CpuInv(c)' /\ Ready(c)'
    BY <1>0, <1>5 DEF FlushLoad, CpuInv, Ready, Flushing, IndInv, TypeOK
  <2> QED
    BY <1>5, <2>1, OnlyMoves DEF FlushLoad
<1>6. CASE UNCHANGED vars
  BY <1>6 DEF vars, Staging, StagingInv, LogInOrder, Logged, Uncopied, CpuInv, Ready, Flushing
<1> QED
  BY <1>1, <1>2, <1>3, <1>4, <1>5, <1>6, StageStep, CopyStep, EndStep DEF Next, Worker

LEMMA StagingInit == Init => Staging
<1> SUFFICES ASSUME Init PROVE Staging
  OBVIOUS
<1>1. /\ count = 0 /\ Entries \in Nat /\ LogCapacity \in Nat
      /\ \A c \in Cpus : pc[c] = "unborn" /\ i[c] = 0 /\ k[c] = 0 /\ pending[c] = <<>>
  BY EntriesAssumption, LogCapacityAssumption DEF Init
<1>2. Logged = {} /\ Cardinality(Logged) = 0
  <2>1. Logged = {}
    BY <1>1 DEF Logged
  <2> QED
    BY <2>1, FS_EmptySet
<1>3. ASSUME NEW c \in Cpus PROVE CpuInv(c) /\ Ready(c) /\ Uncopied(c) = 0
  BY <1>1 DEF CpuInv, Ready, Uncopied
<1>4. LogInOrder
  BY <1>1, <1>2, <1>3 DEF LogInOrder
<1>5. StagingInv
  BY <1>1, <1>2, <1>3 DEF Init, StagingInv
<1> QED
  BY <1>3, <1>4, <1>5 DEF Staging

(* No entry is lost, doubled or reordered, whichever CPUs stage while      *)
(* another copies, for any number of them and any sizes with room for all. *)
THEOREM LogSafety == Spec => []NothingLost
  BY Invariance, StagingInit, StagingStep, StagingSuffices, PTL DEF Spec

(* The elements of a sequence over S *)
LEMMA ElementsIn ==
  ASSUME NEW S, NEW s \in Seq(S)
  PROVE  Len(s) \in Nat /\ \A j \in 1..Len(s) : s[j] \in S
OBVIOUS

(***************************************************************************)
(* MessageParser                                                           *)
(***************************************************************************)
(* The two bytes of a number give it back, and are those of no other. *)
LEMMA Quotient ==
  ASSUME NEW d \in Nat \ {0}, NEW q \in Int, -d < d * q, d * q < d
  PROVE  q = 0
<1>1. CASE q >= 1
  <2>1. d * q >= d
    BY <1>1
  <2> QED
    BY <2>1
<1>2. CASE q <= -1
  <2>1. d * q <= -d
    BY <1>2
  <2> QED
    BY <2>1
<1> QED
  BY <1>1, <1>2

LEMMA TwoBytes ==
  \A d \in Nat \ {0}, h \in Nat : \A l \in 0..(d - 1) :
    ((h * d + l) % d) = l /\ ((h * d + l) \div d) = h
<1> TAKE d \in Nat \ {0}, h \in Nat
<1> TAKE l \in 0..(d - 1)
<1>1. PICK a \in Nat : a = h * d + l
  OBVIOUS
<1>2. PICK q \in Int, r \in 0..(d - 1) : q = a \div d /\ r = (a % d) /\ a = d * q + r
  OBVIOUS
<1>3. PICK e \in Int : e = q - h /\ d * e = l - r
  BY <1>1, <1>2
<1>4. -d < d * e /\ d * e < d
  BY <1>3
<1>5. e = 0
  BY <1>4, Quotient
<1> QED
  BY <1>1, <1>2, <1>3, <1>5

LEMMA OneNumber ==
  \A d \in Nat \ {0}, n \in Nat : (n \div d) * d + (n % d) = n
OBVIOUS

LEMMA ParserInit == M!Init => M!IndInv
<1> SUFFICES ASSUME M!Init PROVE M!IndInv
  OBVIOUS
<1>1. PICK n \in 0..MaxSize : bytes \in [1..n -> 0..(Base - 1)]
  BY DEF M!Init
<1>2. bytes \in Seq(0..(Base - 1)) /\ Len(bytes) \in Nat
  BY <1>1, BaseAssumption
<1>3. offset = 0 /\ parsed = 0 /\ handled = <<>> /\ result = M!Unset
  BY Zenon DEF M!Init
<1>4. Len(handled) = 0 /\ M!End(0) = 0 /\ M!Unset \in Int /\ M!Unset # -1
  BY <1>3 DEF M!End, M!Unset
<1>5. M!TypeOK
  BY <1>2, <1>3, <1>4 DEF M!TypeOK
<1>6. M!ParsedExactly
  BY <1>2, <1>3, <1>4 DEF M!ParsedExactly
<1> QED
  BY <1>5, <1>6 DEF M!IndInv

(* What parse_msgs reads at i is the header that was written there: ... *)
LEMMA ReadsHeader ==
  ASSUME M!TypeOK, M!HeaderFits
  PROVE  M!Type \in Nat /\ M!Length \in Nat /\ M!HasHeader(offset, M!Type, M!Length)
<1>0. ASSUME NEW b \in 1..4 PROVE bytes[offset + b] \in 0..(Base - 1)
  <2>1. PICK n \in Nat : n = Len(bytes) /\ \A j \in 1..n : bytes[j] \in 0..(Base - 1)
    BY ElementsIn, Zenon DEF M!TypeOK
  <2>2. offset + b \in 1..n
    BY <2>1 DEF M!TypeOK, M!HeaderFits
  <2> QED
    BY <2>1, <2>2, Zenon
<1>1. PICK b1, b2, b3, b4 \in 0..(Base - 1) :
        b1 = bytes[offset + 1] /\ b2 = bytes[offset + 2] /\ b3 = bytes[offset + 3] /\ b4 = bytes[offset + 4]
  BY <1>0
<1>a. offset + 2 + 1 = offset + 3 /\ offset + 2 + 2 = offset + 4
  BY DEF M!TypeOK
<1>2. M!Type = b2 * Base + b1 /\ M!Length = b4 * Base + b3
  BY <1>1, <1>a, Zenon DEF M!Type, M!Length, M!Word
<1>3. M!Type \in Nat /\ M!Length \in Nat
  BY <1>2, BaseAssumption
<1>4. (M!Type % Base) = b1 /\ (M!Type \div Base) = b2
  BY <1>2, TwoBytes, BaseAssumption
<1>5. (M!Length % Base) = b3 /\ (M!Length \div Base) = b4
  BY <1>2, TwoBytes, BaseAssumption
<1>6. ASSUME NEW b \in 1..4 PROVE bytes[offset + b] = M!Header(M!Type, M!Length)[b]
  <2>1. b = 1 \/ b = 2 \/ b = 3 \/ b = 4
    OBVIOUS
  <2> QED
    BY <1>1, <1>4, <1>5, <2>1 DEF M!Header
<1> QED
  BY <1>3, <1>6 DEF M!HasHeader

(* ... and no other. *)
LEMMA OnlyHeader ==
  ASSUME M!TypeOK, NEW type \in Nat, NEW n \in Nat, M!HasHeader(offset, type, n)
  PROVE  M!Type = type /\ M!Length = n
<1>1. /\ bytes[offset + 1] = (type % Base) /\ bytes[offset + 2] = (type \div Base)
      /\ bytes[offset + 3] = (n % Base) /\ bytes[offset + 4] = (n \div Base)
  BY DEF M!HasHeader, M!Header
<1>2. M!Type = (type \div Base) * Base + (type % Base) /\ M!Length = (n \div Base) * Base + (n % Base)
  BY <1>1 DEF M!Type, M!Length, M!Word, M!TypeOK
<1> QED
  BY <1>2, OneNumber, BaseAssumption

(* A message that is handled is added to those before it, *)
LEMMA ParserHandles ==
  ASSUME M!IndInv, M!HandleMsg
  PROVE  M!IndInv'
<1>1. /\ M!TypeOK /\ M!ParsedExactly
      /\ offset < Len(bytes) /\ M!HeaderFits /\ M!Type \in M!KnownTypes /\ M!PayloadFits
      /\ result = M!Unset /\ UNCHANGED <<bytes, result>>
      /\ offset' = offset + M!Length + 4 /\ parsed' = (parsed + 1) % (Base * Base)
      /\ handled' = Append(handled, [type |-> M!Type, payload |-> offset + 4, len |-> M!Length])
  BY DEF M!IndInv, M!HandleMsg, M!WellFormed
<1>2. M!Type \in Nat /\ M!Length \in Nat /\ M!HasHeader(offset, M!Type, M!Length)
  BY <1>1, ReadsHeader
<1> DEFINE m == [type |-> M!Type, payload |-> offset + 4, len |-> M!Length]
           Handled == [type : Nat, payload : Nat, len : Nat]
<1>3. PICK n \in Nat : n = Len(handled)
  BY <1>1 DEF M!TypeOK
<1>4. m \in Handled /\ handled \in Seq(Handled) /\ offset \in Nat
  BY <1>1, <1>2 DEF M!TypeOK
<1>5. /\ handled' \in Seq(Handled) /\ Len(handled') = n + 1 /\ handled'[n + 1] = m
      /\ \A q \in 1..n : handled'[q] = handled[q]
  BY <1>1, <1>3, <1>4
<1>6. parsed' \in Nat
  <2>1. PICK w \in Nat \ {0} : w = Base * Base
    BY BaseAssumption
  <2>2. \A c \in Nat, d \in Nat \ {0} : ((c + 1) % d) \in Nat
    OBVIOUS
  <2> QED
    BY <1>1, <2>1, <2>2, Zenon DEF M!TypeOK
<1>7. M!TypeOK'
  BY <1>1, <1>2, <1>5, <1>6 DEF M!TypeOK
<1>8. \A q \in 0..n : M!End(q)' = M!End(q)
  <2> TAKE q \in 0..n
  <2>1. q = 0 \/ q \in 1..n
    OBVIOUS
  <2>2. q = 0 \/ handled'[q] = handled[q]
    BY <1>5, <2>1, Zenon
  <2> QED
    BY <2>2, Zenon DEF M!End
<1>9. M!End(n + 1)' = offset'
  BY <1>1, <1>2, <1>3, <1>4, <1>5 DEF M!End
<1>10. offset = M!End(n)
  BY <1>1, <1>3, SMTT(30) DEF M!ParsedExactly
<1>11. ASSUME NEW q \in 1..n PROVE M!ReadBack(q)'
  <2>1. M!ReadBack(q)
    BY <1>1, <1>3, Zenon DEF M!ParsedExactly
  <2>2. q - 1 \in 0..n
    OBVIOUS
  <2>3. M!End(q - 1)' = M!End(q - 1) /\ handled'[q] = handled[q]
    BY <1>5, <1>8, <2>2, Zenon
  <2> QED
    BY <1>1, <2>1, <2>3 DEF M!ReadBack, M!HasHeader, M!Header, M!KnownTypes
<1>12. M!ReadBack(n + 1)'
  <2>1. n + 1 - 1 = n /\ n \in 0..n
    OBVIOUS
  <2>2. M!End(n + 1 - 1)' = offset
    BY <1>8, <1>10, <2>1, Zenon
  <2>3. PICK type, len \in Nat : type = M!Type /\ len = M!Length
    BY <1>2
  <2>a. m.type = M!Type /\ m.payload = offset + 4 /\ m.len = M!Length
    OBVIOUS
  <2> HIDE DEF m
  <2>4. handled'[n + 1].type = type /\ handled'[n + 1].payload = offset + 4 /\ handled'[n + 1].len = len
    BY <1>5, <2>3, <2>a, Zenon
  <2>5. bytes' = bytes /\ M!HasHeader(offset, type, len) /\ type \in M!KnownTypes
    BY <1>1, <1>2, <2>3, Zenon
  <2>6. \A b \in 1..4 : bytes'[offset + b] = M!Header(type, len)[b]
    BY <2>5, Zenon DEF M!HasHeader
  <2> QED
    BY <2>2, <2>4, <2>5, <2>6 DEF M!ReadBack, M!HasHeader, M!KnownTypes
<1>13. \A q \in 1..Len(handled') : M!ReadBack(q)'
  <2> SUFFICES ASSUME NEW q \in 1..(n + 1) PROVE M!ReadBack(q)'
    BY <1>5
  <2>1. q \in 1..n \/ q = n + 1
    OBVIOUS
  <2> QED
    BY <1>11, <1>12, <2>1, Zenon
<1>14. offset' <= Len(bytes) /\ result' = M!Unset /\ bytes' = bytes
  BY <1>1, <1>2, <1>4 DEF M!PayloadFits
<1> QED
  BY <1>5, <1>7, <1>9, <1>13, <1>14 DEF M!IndInv, M!ParsedExactly, M!Unset

(* one that is refused could not have been read, and the last return is    *)
(* the count.                                                              *)
LEMMA ParserStep == M!IndInv /\ [M!Next]_parserVars => M!IndInv'
<1> SUFFICES ASSUME M!IndInv, [M!Next]_parserVars PROVE M!IndInv'
  OBVIOUS
<1>1. CASE M!HandleMsg
  BY <1>1, ParserHandles
<1>2. CASE M!GiveUp
  <2>1. /\ UNCHANGED <<bytes, offset, parsed, handled>> /\ result' = -1 /\ offset < Len(bytes)
        /\ M!TypeOK /\ M!ParsedExactly /\ ~M!WellFormed
    BY <1>2 DEF M!GiveUp, M!IndInv
  <2>2. ASSUME NEW type \in M!KnownTypes, NEW n \in 0..(Len(bytes) - offset - 4),
               M!HasHeader(offset, type, n)
        PROVE  FALSE
    <3>1. PICK z \in Nat : z = Len(bytes)
      BY <2>1, ElementsIn, Zenon DEF M!TypeOK
    <3>2. n \in Nat /\ offset + n + 4 <= Len(bytes) /\ offset + 4 <= Len(bytes) /\ type \in Nat
      BY <2>1, <3>1 DEF M!TypeOK, M!KnownTypes
    <3>3. M!Type = type /\ M!Length = n
      BY <2>1, <2>2, <3>2, OnlyHeader
    <3> QED
      BY <2>1, <2>2, <3>2, <3>3 DEF M!WellFormed, M!HeaderFits, M!PayloadFits
  <2>3. \A type \in M!KnownTypes : \A n \in 0..(Len(bytes) - offset - 4) : ~M!HasHeader(offset, type, n)
    BY <2>2
  <2>4. (\A type \in M!KnownTypes : \A n \in 0..(Len(bytes) - offset - 4) : ~M!HasHeader(offset, type, n))'
    BY <2>1, <2>3, SMTT(30) DEF M!HasHeader, M!Header, M!KnownTypes
  <2>5. (\A q \in 1..Len(handled) : M!ReadBack(q))' /\ (offset = M!End(Len(handled)))'
    BY <2>1 DEF M!ParsedExactly, M!ReadBack, M!End, M!HasHeader, M!Header, M!KnownTypes
  <2>6. M!TypeOK'
    BY <2>1 DEF M!TypeOK
  <2> QED
    BY <2>1, <2>4, <2>5, <2>6 DEF M!IndInv, M!ParsedExactly, M!Unset
<1>3. CASE M!Return
  <2>1. /\ UNCHANGED <<bytes, offset, parsed, handled>> /\ result' = parsed /\ offset >= Len(bytes)
        /\ M!TypeOK /\ M!ParsedExactly
    BY <1>3 DEF M!Return, M!IndInv
  <2>2. Len(bytes) \in Nat /\ offset \in Nat /\ parsed \in Nat
    BY <2>1, ElementsIn, Zenon DEF M!TypeOK
  <2>3. result' \in Int /\ result' # -1 /\ ~(offset < Len(bytes))
    BY <2>1, <2>2, SMTT(30)
  <2>4. (\A q \in 1..Len(handled) : M!ReadBack(q))' /\ (offset = M!End(Len(handled)))'
    BY <2>1 DEF M!ParsedExactly, M!ReadBack, M!End, M!HasHeader, M!Header, M!KnownTypes
  <2>5. M!TypeOK'
    BY <2>1, <2>3 DEF M!TypeOK
  <2> QED
    BY <2>1, <2>3, <2>4, <2>5 DEF M!IndInv, M!ParsedExactly, M!Unset
<1>4. CASE UNCHANGED parserVars
  <2>1. UNCHANGED <<bytes, offset, parsed, handled, result>>
    BY <1>4 DEF parserVars
  <2>2. \A q, type, n : M!HasHeader(q, type, n)' <=> M!HasHeader(q, type, n)
    BY <2>1, ZenonT(30) DEF M!HasHeader, M!Header
  <2>3. (\A q \in 1..Len(handled) : M!ReadBack(q))' /\ (offset = M!End(Len(handled)))'
    BY <2>1 DEF M!IndInv, M!ParsedExactly, M!ReadBack, M!End, M!HasHeader, M!Header, M!KnownTypes
  <2>4. M!TypeOK'
    BY <2>1 DEF M!IndInv, M!TypeOK
  <2> QED
    BY <2>1, <2>2, <2>3, <2>4, Zenon DEF M!IndInv, M!ParsedExactly, M!Unset, M!KnownTypes
<1> QED
  BY <1>1, <1>2, <1>3, <1>4 DEF M!Next

(* For every buffer parse_msgs of mock4.c is the inverse of writing        *)
(* messages: what it hands to handle_msg lies end to end, each payload     *)
(* behind the header written for it and all of it inside the buffer, and   *)
(* it returns -1 only where no further message could be read.              *)
THEOREM ParserSafety == M!Spec => [](M!ParsedExactly /\ ParsedExactly)
<1>1. M!Init => M!IndInv
  BY ParserInit
<1>2. M!IndInv /\ [M!Next]_(M!vars) => M!IndInv'
  BY ParserStep DEF M!vars, parserVars
<1>3. M!IndInv => M!ParsedExactly /\ ParsedExactly
  BY DEF M!IndInv, ParsedExactly
<1> QED
  BY <1>1, <1>2, <1>3, PTL DEF M!Spec

(***************************************************************************)
(* Islands                                                                 *)
(***************************************************************************)
LEMMA AdjacentBack == \A c, d \in Cells : Adjacent(c, d) => Adjacent(d, c)
BY GridAssumption DEF Cells, Adjacent, Abs

(* The four directions lead to the cells next to c. *)
LEMMA FourBeside ==
  ASSUME NEW c \in Cells, NEW d \in Cells
  PROVE  Adjacent(c, d) <=> \E j \in 1..4 : d = Beside(c, j)
<1>1. PICK x, y, u, v \in Int : c = <<x, y>> /\ d = <<u, v>>
  BY GridAssumption DEF Cells
<1>2. Adjacent(c, d) <=> \/ u = x - 1 /\ v = y
                         \/ u = x /\ v = y + 1
                         \/ u = x + 1 /\ v = y
                         \/ u = x /\ v = y - 1
  <2>1. c[1] = x /\ c[2] = y /\ d[1] = u /\ d[2] = v
    BY <1>1
  <2>2. Adjacent(c, d) <=> Abs(x - u) + Abs(y - v) = 1
    BY <2>1, Zenon DEF Adjacent
  <2>3. PICK p, q \in Int : p = x - u /\ q = y - v
    OBVIOUS
  <2>4. Abs(p) + Abs(q) = 1 <=> (p = 1 /\ q = 0) \/ (p = 0 /\ q = -1) \/ (p = -1 /\ q = 0) \/ (p = 0 /\ q = 1)
    <3>1. \A z \in Int : Abs(z) \in Int /\ (z >= 0 => Abs(z) = z) /\ (z < 0 => Abs(z) = -z)
      BY DEF Abs
    <3>2. PICK a, b \in Int : a = Abs(p) /\ b = Abs(q)
      BY <3>1
    <3>3. (p >= 0 => a = p) /\ (p < 0 => a = -p) /\ (q >= 0 => b = q) /\ (q < 0 => b = -q)
      BY <3>1, <3>2
    <3>4. a + b = 1 <=> (p = 1 /\ q = 0) \/ (p = 0 /\ q = -1) \/ (p = -1 /\ q = 0) \/ (p = 0 /\ q = 1)
      BY <3>3
    <3> QED
      BY <3>2, <3>4, Zenon
  <2>5. /\ p = 1 /\ q = 0 <=> u = x - 1 /\ v = y
        /\ p = 0 /\ q = -1 <=> u = x /\ v = y + 1
        /\ p = -1 /\ q = 0 <=> u = x + 1 /\ v = y
        /\ p = 0 /\ q = 1 <=> u = x /\ v = y - 1
    BY <2>3
  <2>6. Adjacent(c, d) <=> Abs(p) + Abs(q) = 1
    BY <2>2, <2>3, Zenon
  <2> QED
    BY <2>4, <2>5, <2>6, Zenon
<1>3. /\ Beside(c, 1) = <<x - 1, y>> /\ Beside(c, 2) = <<x, y + 1>>
      /\ Beside(c, 3) = <<x + 1, y>> /\ Beside(c, 4) = <<x, y - 1>>
  BY <1>1 DEF Beside, Dirs
<1>4. (\E j \in 1..4 : d = Beside(c, j)) <=>
        d = <<x - 1, y>> \/ d = <<x, y + 1>> \/ d = <<x + 1, y>> \/ d = <<x, y - 1>>
  <2>1. \A j \in 1..4 : j = 1 \/ j = 2 \/ j = 3 \/ j = 4
    OBVIOUS
  <2>2. 1 \in 1..4 /\ 2 \in 1..4 /\ 3 \in 1..4 /\ 4 \in 1..4
    OBVIOUS
  <2> QED
    BY <1>3, <2>1, <2>2, Zenon
<1>5. /\ d = <<x - 1, y>> <=> u = x - 1 /\ v = y
      /\ d = <<x, y + 1>> <=> u = x /\ v = y + 1
      /\ d = <<x + 1, y>> <=> u = x + 1 /\ v = y
      /\ d = <<x, y - 1>> <=> u = x /\ v = y - 1
  BY <1>1
<1> QED
  BY <1>2, <1>4, <1>5, Zenon

(* One sequence after another *)
IsJoin(u, w, t) ==
  /\ Len(u) = Len(w) + Len(t)
  /\ \A j \in 1..Len(w) : u[j] = w[j]
  /\ \A j \in 1..Len(t) : u[Len(w) + j] = t[j]

LEMMA Joined ==
  ASSUME NEW C, NEW w \in Seq(C), NEW t \in Seq(C)
  PROVE  w \o t \in Seq(C) /\ IsJoin(w \o t, w, t)
BY DEF IsJoin

(* Taking one more cell into a list of different cells *)
Once(s) == s \in Seq(Cells) /\ IsFiniteSet(Elems(s)) /\ Len(s) = Cardinality(Elems(s))

Takes(s, t, c, j, S) ==
  Once(s) /\ Beside(c, j) \notin Elems(s) /\ S \subseteq Cells /\ t = s \o Taken(c, j, S)

LEMMA TakeOne ==
  ASSUME NEW s, NEW t, NEW c, NEW j, NEW S, Takes(s, t, c, j, S)
  PROVE  Once(t) /\ Elems(t) = Elems(s) \cup ({Beside(c, j)} \cap S)
<1>0. /\ s \in Seq(Cells) /\ Once(s) /\ Beside(c, j) \notin Elems(s) /\ S \subseteq Cells
      /\ t = s \o Taken(c, j, S)
  BY DEF Once, Takes
<1>1. CASE Beside(c, j) \notin S
  <2>1. t = s
    BY <1>0, <1>1, SMTT(30) DEF Taken
  <2> QED
    BY <1>0, <1>1, <2>1
<1>2. CASE Beside(c, j) \in S
  <2>1. PICK e \in Cells : e = Beside(c, j) /\ e \in S /\ e \notin Elems(s)
    BY <1>0, <1>2
  <2>2. t = s \o <<e>>
    BY <1>0, <1>2, <2>1, Zenon DEF Taken
  <2>3. t \in Seq(Cells) /\ Len(t) = Len(s) + 1 /\ t[Len(s) + 1] = e
        /\ \A n \in 1..Len(s) : t[n] = s[n]
    <3>0. <<e>> \in Seq(Cells) /\ Len(<<e>>) = 1 /\ <<e>>[1] = e
      BY <2>1
    <3>1. PICK r : r = <<e>> /\ r \in Seq(Cells) /\ Len(r) = 1 /\ r[1] = e
      BY <3>0, Zenon
    <3>2. t \in Seq(Cells) /\ IsJoin(t, s, r)
      BY <1>0, <2>2, <3>1, Joined, Zenon
    <3>3. 1 \in 1..Len(r)
      BY <3>1
    <3> QED
      BY <3>1, <3>2, <3>3, Zenon DEF IsJoin
  <2>4. Elems(t) = Elems(s) \cup {e}
    <3>1. PICK z \in Nat : z = Len(s)
      BY <1>0
    <3>2. \A n : n \in 1..(z + 1) <=> n \in 1..z \/ n = z + 1
      OBVIOUS
    <3>3. ASSUME NEW d \in Elems(t) PROVE d \in Elems(s) \cup {e}
      <4>1. PICK n \in 1..(z + 1) : d = t[n]
        BY <2>3, <3>1 DEF Elems
      <4> QED
        BY <2>3, <3>1, <3>2, <4>1, ZenonT(30) DEF Elems
    <3>4. ASSUME NEW d \in Elems(s) PROVE d \in Elems(t)
      <4>1. PICK n \in 1..z : d = s[n]
        BY <3>1, Zenon DEF Elems
      <4>2. n \in 1..Len(t) /\ t[n] = d
        BY <2>3, <3>1, <4>1
      <4> QED
        BY <4>2, Zenon DEF Elems
    <3>5. e \in Elems(t)
      <4>1. z + 1 \in 1..Len(t) /\ t[z + 1] = e
        BY <2>3, <3>1
      <4> QED
        BY <4>1, ZenonT(30) DEF Elems
    <3> QED
      BY <3>3, <3>4, <3>5, Zenon
  <2>5. IsFiniteSet(Elems(t)) /\ Cardinality(Elems(t)) = Cardinality(Elems(s)) + 1
    <3>1. PICK E : E = Elems(s) /\ IsFiniteSet(E) /\ e \notin E /\ Elems(t) = E \cup {e}
      BY <1>0, <2>1, <2>4, Zenon DEF Once
    <3>2. IsFiniteSet(E \cup {e}) /\ Cardinality(E \cup {e}) = Cardinality(E) + 1
      BY <3>1, FS_AddElement
    <3> QED
      BY <3>1, <3>2, Zenon
  <2> QED
    BY <1>0, <2>1, <2>3, <2>4, <2>5 DEF Once
<1> QED
  BY <1>1, <1>2

(* Around lists the neighbours of c that are in S, each once. *)
LEMMA AroundExact ==
  ASSUME NEW c \in Cells, NEW S \in SUBSET Cells, NEW found, found = Around(c, S)
  PROVE  Once(found) /\ Elems(found) = {d \in S : Adjacent(c, d)}
<1>1. PICK x, y \in Int : c = <<x, y>>
  BY GridAssumption DEF Cells
<1>2. /\ Beside(c, 1) = <<x - 1, y>> /\ Beside(c, 2) = <<x, y + 1>>
      /\ Beside(c, 3) = <<x + 1, y>> /\ Beside(c, 4) = <<x, y - 1>>
  BY <1>1 DEF Beside, Dirs
<1>3. /\ Beside(c, 1) # Beside(c, 2) /\ Beside(c, 1) # Beside(c, 3)
      /\ Beside(c, 1) # Beside(c, 4) /\ Beside(c, 2) # Beside(c, 3)
      /\ Beside(c, 2) # Beside(c, 4) /\ Beside(c, 3) # Beside(c, 4)
  BY <1>2
<1>4. PICK s0 : s0 = <<>> /\ s0 \in Seq(Cells)
  <2>1. <<>> \in Seq(Cells)
    OBVIOUS
  <2> QED
    BY <2>1, Zenon
<1>5. Elems(s0) = {} /\ Len(s0) = 0
  BY <1>4 DEF Elems
<1>6. Once(s0)
  BY <1>4, <1>5, FS_EmptySet DEF Once
<1>7. PICK s1 : s1 = s0 \o Taken(c, 1, S)
  OBVIOUS
<1>8. /\ Once(s1)
      /\ Elems(s1) = {Beside(c, 1)} \cap S
  <2>1. Beside(c, 1) \notin Elems(s0)
    BY <1>5
  <2> QED
    <3>0. Takes(s0, s1, c, 1, S)
      BY <1>6, <1>7, <2>1 DEF Takes
    <3>1. Elems(s1) = Elems(s0) \cup ({Beside(c, 1)} \cap S) /\ Once(s1)
      BY <3>0, TakeOne
    <3> QED
      BY <1>5, <3>1, Zenon
<1>9. PICK s2 : s2 = s1 \o Taken(c, 2, S)
  OBVIOUS
<1>10. /\ Once(s2)
       /\ Elems(s2) = {Beside(c, 1), Beside(c, 2)} \cap S
  <2>1. Beside(c, 2) \notin Elems(s1)
    BY <1>3, <1>8
  <2> QED
    <3>0. Takes(s1, s2, c, 2, S)
      BY <1>8, <1>9, <2>1 DEF Takes
    <3>1. Elems(s2) = Elems(s1) \cup ({Beside(c, 2)} \cap S) /\ Once(s2)
      BY <3>0, TakeOne
    <3> QED
      BY <1>8, <3>1, Zenon
<1>11. PICK s3 : s3 = s2 \o Taken(c, 3, S)
  OBVIOUS
<1>12. /\ Once(s3)
       /\ Elems(s3) = {Beside(c, 1), Beside(c, 2), Beside(c, 3)} \cap S
  <2>1. Beside(c, 3) \notin Elems(s2)
    BY <1>3, <1>10
  <2> QED
    <3>0. Takes(s2, s3, c, 3, S)
      BY <1>10, <1>11, <2>1 DEF Takes
    <3>1. Elems(s3) = Elems(s2) \cup ({Beside(c, 3)} \cap S) /\ Once(s3)
      BY <3>0, TakeOne
    <3> QED
      BY <1>10, <3>1, Zenon
<1>13. PICK s4 : s4 = s3 \o Taken(c, 4, S)
  OBVIOUS
<1>14. /\ Once(s4)
       /\ Elems(s4) = {Beside(c, 1), Beside(c, 2), Beside(c, 3), Beside(c, 4)} \cap S
  <2>1. Beside(c, 4) \notin Elems(s3)
    BY <1>3, <1>12
  <2> QED
    <3>0. Takes(s3, s4, c, 4, S)
      BY <1>12, <1>13, <2>1 DEF Takes
    <3>1. Elems(s4) = Elems(s3) \cup ({Beside(c, 4)} \cap S) /\ Once(s4)
      BY <3>0, TakeOne
    <3> QED
      BY <1>12, <3>1, Zenon
<1>15. s1 = Taken(c, 1, S)
  <2>1. Taken(c, 1, S) \in Seq(Cells)
    BY DEF Taken
  <2> QED
    BY <1>4, <1>7, <2>1
<1>16. found = s4
  BY <1>9, <1>11, <1>13, <1>15, Zenon DEF Around
<1>17. \A d \in S : Adjacent(c, d) <=>
         d \in {Beside(c, 1), Beside(c, 2), Beside(c, 3), Beside(c, 4)}
  <2>1. \A j : j \in 1..4 <=> j = 1 \/ j = 2 \/ j = 3 \/ j = 4
    OBVIOUS
  <2> TAKE d \in S
  <2>2. d \in Cells
    OBVIOUS
  <2>3. Adjacent(c, d) <=> \E j \in 1..4 : d = Beside(c, j)
    BY <2>2, FourBeside, Zenon
  <2> QED
    BY <2>1, <2>3, Zenon
<1> QED
  BY <1>14, <1>16, <1>17


(* Two islands that share a cell are one. *)
LEMMA OneIsland ==
  ASSUME NEW S \in AllIslands, NEW R \in Closed, S \cap R # {}
  PROVE  S \subseteq R
<1>1. S \in Closed /\ \A Q \in Closed : Q \subseteq S => Q = S
  BY Zenon DEF AllIslands
<1>2. S \cap R \in Closed
  BY <1>1 DEF Closed
<1>3. S \cap R = S
  BY <1>1, <1>2
<1> QED
  BY <1>3

(* Every cell of land is on an island: on what all closed sets that hold   *)
(* it have in common.                                                      *)
LEMMA SomeIsland ==
  ASSUME land \subseteq Cells, NEW c \in land
  PROVE  \E S \in AllIslands : c \in S
<1> DEFINE S == {d \in land : \A R \in Closed : c \in R => d \in R}
<1>1. c \in S
  OBVIOUS
<1>2. S \in Closed
  <2>1. ASSUME NEW d \in S, NEW e \in land, Adjacent(d, e) PROVE e \in S
    <3> SUFFICES ASSUME NEW R \in Closed, c \in R PROVE e \in R
      OBVIOUS
    <3>1. d \in R
      OBVIOUS
    <3> QED
      BY <2>1, <3>1 DEF Closed
  <2> QED
    BY <1>1, <2>1 DEF Closed
<1>3. ASSUME NEW R \in Closed, R \subseteq S PROVE R = S
  <2>1. CASE c \in R
    BY <1>3, <2>1
  <2>2. CASE c \notin R
    <3> DEFINE Q == S \ R
    <3>1. ASSUME NEW d \in Q, NEW e \in land, Adjacent(d, e) PROVE e \in Q
      <4>1. e \in S
        BY <1>2, <3>1 DEF Closed
      <4>2. d \in Cells /\ e \in Cells /\ d \in land
        OBVIOUS
      <4>3. Adjacent(e, d)
        BY <3>1, <4>2, AdjacentBack
      <4>4. e \notin R
        BY <4>2, <4>3 DEF Closed
      <4> QED
        BY <4>1, <4>4
    <3>2. Q \in Closed
      BY <1>1, <2>2, <3>1 DEF Closed
    <3>3. c \in Q
      BY <1>1, <2>2
    <3>4. S \subseteq Q
      BY <3>2, <3>3
    <3>5. R = {}
      BY <1>3, <3>4
    <3> QED
      BY <3>5 DEF Closed
  <2> QED
    BY <2>1, <2>2
<1>4. S \in AllIslands
  <2> HIDE DEF S
  <2> QED
    BY <1>2, <1>3, Zenon DEF AllIslands
<1> QED
  BY <1>1, <1>4

LEMMA FiniteCells ==
  ASSUME land \subseteq Cells
  PROVE  /\ IsFiniteSet(Cells) /\ \A S \in SUBSET land : IsFiniteSet(S)
         /\ \A U \in SUBSET AllIslands : IsFiniteSet(U)
<1>1. IsFiniteSet(0..(Rows - 1)) /\ IsFiniteSet(0..(Cols - 1))
  <2>1. 0 \in Int /\ Rows - 1 \in Int /\ Cols - 1 \in Int
    BY GridAssumption
  <2> QED
    BY <2>1, FS_Interval
<1>2. IsFiniteSet(Cells)
  BY <1>1, FS_Product, Zenon DEF Cells
<1>3. IsFiniteSet(land) /\ \A S \in SUBSET land : IsFiniteSet(S)
  BY <1>2, FS_Subset
<1>4. IsFiniteSet(SUBSET land)
  BY <1>3, FS_SUBSET
<1>5. AllIslands \subseteq SUBSET land
  BY DEF AllIslands, Closed
<1>6. \A U \in SUBSET AllIslands : IsFiniteSet(U)
  BY <1>4, <1>5, FS_Subset
<1> QED
  BY <1>2, <1>3, <1>6


(* Taking the first cell from a queue and putting others *)
LEMMA GetAndPut ==
  ASSUME NEW s \in Seq(Cells), s # <<>>, NEW t \in Seq(Cells), NEW u, u = Tail(s) \o t
  PROVE  /\ u \in Seq(Cells) /\ Head(s) \in Elems(s)
         /\ Elems(u) \subseteq Elems(s) \cup Elems(t)
         /\ Elems(t) \subseteq Elems(u) /\ Elems(s) \subseteq Elems(u) \cup {Head(s)}
<1>1. PICK m, n \in Nat : Len(s) = m + 1 /\ Len(t) = n
  <2>1. Len(s) \in Nat /\ Len(s) # 0 /\ Len(t) \in Nat
    OBVIOUS
  <2>2. Len(s) - 1 \in Nat /\ Len(s) = (Len(s) - 1) + 1
    BY <2>1
  <2> QED
    BY <2>1, <2>2, Zenon
<1>2. /\ u \in Seq(Cells) /\ Len(u) = m + n /\ Head(s) = s[1]
      /\ \A j \in 1..m : u[j] = s[j + 1]
      /\ \A j \in 1..n : u[m + j] = t[j]
  <2>1. PICK w : w = Tail(s)
    OBVIOUS
  <2>2. w \in Seq(Cells) /\ Len(w) = m /\ Head(s) = s[1]
    BY <1>1, <2>1
  <2>3. \A j \in 1..m : w[j] = s[j + 1]
    BY <1>1, <2>1
  <2>4. u = w \o t
    BY <2>1
  <2>5. w \o t \in Seq(Cells) /\ IsJoin(w \o t, w, t)
    BY <2>2, Joined, Zenon
  <2>6. u \in Seq(Cells) /\ IsJoin(u, w, t)
    BY <2>4, <2>5, Zenon
  <2>7. /\ u \in Seq(Cells) /\ Len(u) = m + n
        /\ \A j \in 1..m : u[j] = w[j]
        /\ \A j \in 1..n : u[m + j] = t[j]
    BY <1>1, <2>2, <2>6 DEF IsJoin
  <2> QED
    BY <2>2, <2>3, <2>7
<1>3. Head(s) \in Elems(s)
  <2>1. 1 \in 1..Len(s)
    BY <1>1
  <2> QED
    BY <1>2, <2>1, Zenon DEF Elems
<1>4. ASSUME NEW d \in Elems(u) PROVE d \in Elems(s) \cup Elems(t)
  <2>1. PICK j \in 1..(m + n) : d = u[j]
    BY <1>2 DEF Elems
  <2>2. CASE j \in 1..m
    <3>1. j + 1 \in 1..Len(s)
      BY <1>1, <2>2
    <3>2. d = s[j + 1]
      BY <1>2, <2>1, <2>2, Zenon
    <3> QED
      BY <3>1, <3>2, Zenon DEF Elems
  <2>3. CASE j \notin 1..m
    <3>1. PICK l \in 1..n : j = m + l
      BY <2>3
    <3>2. l \in 1..Len(t) /\ d = t[l]
      BY <1>1, <1>2, <2>1, <3>1, Zenon
    <3> QED
      BY <3>2, Zenon DEF Elems
  <2> QED
    BY <2>2, <2>3
<1>5. ASSUME NEW d \in Elems(t) PROVE d \in Elems(u)
  <2>1. PICK j \in 1..n : d = t[j]
    BY <1>1 DEF Elems
  <2>2. m + j \in 1..Len(u)
    BY <1>2, <2>1
  <2>3. d = u[m + j]
    BY <1>2, <2>1, Zenon
  <2> QED
    BY <2>2, <2>3, Zenon DEF Elems
<1>6. ASSUME NEW d \in Elems(s) PROVE d \in Elems(u) \cup {Head(s)}
  <2>1. PICK j \in 1..(m + 1) : d = s[j]
    BY <1>1 DEF Elems
  <2>2. CASE j = 1
    BY <1>2, <2>1, <2>2
  <2>3. CASE j # 1
    <3>1. PICK l \in 1..m : j = l + 1
      BY <2>3
    <3>2. l \in 1..Len(u)
      BY <1>2, <3>1
    <3>3. d = u[l]
      BY <1>2, <2>1, <3>1, Zenon
    <3> QED
      BY <3>2, <3>3, Zenon DEF Elems
  <2> QED
    BY <2>2, <2>3
<1> QED
  BY <1>2, <1>3, <1>4, <1>5, <1>6

(* The scan meets every cell. *)
LEMMA ScanMeets == \A c \in Cells : \E n \in 0..(Rows * Cols - 1) : c = CellAt(n)
<1> TAKE c \in Cells
<1>1. PICK x \in 0..(Rows - 1), y \in 0..(Cols - 1) : c = <<x, y>>
  BY DEF Cells
<1>2. Rows \in Nat \ {0} /\ Cols \in Nat \ {0} /\ x \in Nat /\ y \in Nat
  BY GridAssumption, <1>1
<1>3. PICK n \in Nat : n = x * Cols + y
  BY <1>2
<1>4. (n % Cols) = y /\ (n \div Cols) = x
  BY <1>1, <1>2, <1>3, TwoBytes
<1>5. n \in 0..(Rows * Cols - 1)
  <2>1. PICK r \in Nat : Rows = r + 1 /\ x <= r
    BY <1>1, <1>2
  <2>2. \A a, b, p \in Nat : a <= b => a * p <= b * p
    OBVIOUS
  <2>3. x * Cols <= r * Cols /\ x * Cols \in Nat /\ r * Cols \in Nat
    BY <1>2, <2>1, <2>2
  <2>4. Rows * Cols = r * Cols + Cols
    BY <1>2, <2>1
  <2> QED
    BY <1>1, <1>2, <1>3, <2>3, <2>4
<1> QED
  BY <1>1, <1>4, <1>5, Zenon DEF CellAt

LEMMA IslandStarts == IslandInit => IslandInv
<1> SUFFICES ASSUME IslandInit PROVE IslandInv
  OBVIOUS
<1>1. /\ land \subseteq Cells /\ grid = land /\ queue = <<>> /\ put = 0 /\ scanned = 0
      /\ islands = 0 /\ Sunk = {}
  BY DEF IslandInit, Sunk
<1>2. IslandTypeOK
  <2>1. 0 \in 0..(Rows * Cols)
    BY GridAssumption
  <2> QED
    BY <1>1, <2>1 DEF IslandTypeOK
<1>3. Elems(queue) = {} /\ Touched = {}
  BY <1>1 DEF Elems, Touched
<1>4. put = Cardinality(Sunk) /\ islands = Cardinality(Touched)
  BY <1>1, <1>3, FS_EmptySet
<1>5. \A n \in 0..(scanned - 1) : FALSE
  BY <1>1
<1> QED
  BY <1>1, <1>2, <1>3, <1>4, <1>5 DEF IslandInv

(* What the land says stays as it is. *)
LEMMA SameIslands ==
  ASSUME land' = land
  PROVE  Closed' = Closed /\ AllIslands' = AllIslands
<1>1. Closed' = Closed
  BY DEF Closed, Adjacent, Abs
<1> QED
  BY <1>1 DEF AllIslands

(* Between two floods the islands that were touched have sunk. *)
LEMMA SunkWhole ==
  ASSUME IslandInv, queue = <<>>
  PROVE  Sunk \in Closed \cup {{}} /\ \A S \in AllIslands : S \cap Sunk # {} => S \subseteq Sunk
<1>1. Elems(queue) = {} /\ Sunk \subseteq land
  BY DEF Elems, Sunk
<1>2. \A c \in Sunk, d \in land : Adjacent(c, d) => d \in Sunk
  BY <1>1 DEF IslandInv
<1>3. Sunk \in Closed \cup {{}}
  BY <1>1, <1>2 DEF Closed
<1> QED
  BY <1>3, OneIsland


LEMMA ScanStep ==
  ASSUME IslandInv, ScanLand
  PROVE  IslandInv'
<1>1. /\ queue = <<>> /\ scanned < Rows * Cols /\ islands >= 0 /\ scanned' = scanned + 1
      /\ land' = land
  BY DEF ScanLand
<1>2. /\ land \subseteq Cells /\ grid \subseteq land /\ put \in Nat /\ islands \in Nat
      /\ scanned \in Nat /\ Rows * Cols \in Nat /\ IslandTypeOK
  BY <1>1, GridAssumption DEF IslandInv, IslandTypeOK
<1>3. Closed' = Closed /\ AllIslands' = AllIslands
  BY <1>1, SameIslands
<1>4. scanned' \in 0..(Rows * Cols)
  BY <1>1, <1>2
<1>5. \A n \in 0..(scanned' - 1) : n \in 0..(scanned - 1) \/ n = scanned
  BY <1>1, <1>2
<1>6. Elems(queue) = {}
  BY <1>1 DEF Elems
<1>7. \A c \in Sunk, d \in land : Adjacent(c, d) => d \in Sunk
  BY <1>6, SMTT(30) DEF IslandInv
<1>8. CASE CellAt(scanned) \notin grid
  <2>1. UNCHANGED <<queue, put, grid, islands>>
    BY <1>8 DEF ScanLand
  <2>2. IslandTypeOK'
    BY <1>1, <1>2, <1>4, <2>1 DEF IslandTypeOK, Cells
  <2>3. Sunk' = Sunk /\ Touched' = Touched /\ Elems(queue)' = Elems(queue)
    BY <1>1, <1>3, <2>1 DEF Sunk, Touched, Elems
  <2>4. \A n \in 0..(scanned' - 1) : CellAt(n) \notin grid'
    BY <1>5, <1>8, <2>1 DEF IslandInv
  <2>5. (\A c \in Sunk \ Elems(queue) : \A d \in land : Adjacent(c, d) => d \in Sunk)'
    BY <1>1, <1>7, <2>3, SMTT(30) DEF Adjacent, Abs
  <2> QED
    BY <1>2, <2>1, <2>2, <2>3, <2>4, <2>5 DEF IslandInv, CellAt
<1>9. CASE CellAt(scanned) \in grid
  <2>1. PICK c \in grid : c = CellAt(scanned) /\ c \in Cells /\ c \in land
    BY <1>2, <1>9
  <2>2. /\ queue' = <<c>> /\ put' = put + 1 /\ grid' = grid \ {c} /\ islands' = islands + 1
    BY <1>9, <2>1 DEF ScanLand
  <2>3. IslandTypeOK'
    BY <1>1, <1>2, <1>4, <2>1, <2>2 DEF IslandTypeOK, Cells
  <2>4. Sunk' = Sunk \cup {c} /\ c \notin Sunk /\ Elems(queue)' = {c}
    BY <1>1, <2>1, <2>2 DEF Sunk, Elems
  <2>5. put' = Cardinality(Sunk')
    <3>1. IsFiniteSet(Sunk) /\ put = Cardinality(Sunk)
      BY <1>2, FiniteCells DEF Sunk, IslandInv
    <3>2. Cardinality(Sunk \cup {c}) = Cardinality(Sunk) + 1
      BY <2>4, <3>1, FS_AddElement
    <3> QED
      BY <2>2, <2>4, <3>1, <3>2
  <2>6. (\A d \in Sunk \ Elems(queue) : \A e \in land : Adjacent(d, e) => e \in Sunk)'
    <3> SUFFICES ASSUME NEW d \in Sunk, NEW e \in land, Adjacent(d, e) PROVE e \in Sunk'
      BY <1>1, <2>4 DEF Adjacent, Abs
    <3> QED
      BY <1>7, <2>4
  <2>7. PICK S \in AllIslands : c \in S
    BY <1>2, <2>1, SomeIsland
  <2>8. Touched' = Touched \cup {S}
    <3>1. \A R \in AllIslands : c \in R => R = S
      BY <2>7, OneIsland DEF AllIslands
    <3> QED
      BY <1>3, <2>4, <2>7, <3>1 DEF Touched
  <2>9. S \notin Touched
    BY <1>1, <2>4, <2>7, SunkWhole DEF Touched
  <2>10. islands' = Cardinality(Touched')
    <3>1. IsFiniteSet(Touched) /\ islands = Cardinality(Touched)
      BY <1>1, <1>2, FiniteCells DEF Touched, IslandInv
    <3>2. Cardinality(Touched \cup {S}) = Cardinality(Touched) + 1
      BY <2>9, <3>1, FS_AddElement
    <3> QED
      BY <2>2, <2>8, <3>1, <3>2, SMTT(30)
  <2>11. \A n \in 0..(scanned' - 1) : CellAt(n) \notin grid'
    BY <1>5, <2>1, <2>2 DEF IslandInv
  <2> QED
    BY <2>2, <2>3, <2>4, <2>5, <2>6, <2>10, <2>11 DEF IslandInv, CellAt
<1> QED
  BY <1>8, <1>9

LEMMA FloodStep ==
  ASSUME IslandInv, Flood
  PROVE  IslandInv'
<1>1. PICK h, found : h = Head(queue) /\ found = Around(h, grid)
  OBVIOUS
<1>2. /\ queue # <<>> /\ queue' = Tail(queue) \o found /\ put' = put + Len(found)
      /\ grid' = grid \ Elems(found) /\ UNCHANGED <<land, scanned, islands>>
  BY <1>1 DEF Flood
<1>3. /\ land \subseteq Cells /\ grid \subseteq land /\ put \in Nat /\ queue \in Seq(Cells)
      /\ Elems(queue) \subseteq Sunk /\ IslandTypeOK
  BY DEF IslandInv, IslandTypeOK
<1>4. h \in Elems(queue) /\ h \in Sunk /\ h \in land /\ h \in Cells
  <2>1. <<>> \in Seq(Cells)
    OBVIOUS
  <2>2. h \in Elems(queue)
    BY <1>1, <1>2, <1>3, <2>1, GetAndPut
  <2> QED
    BY <1>3, <2>2 DEF Sunk
<1>5. /\ Once(found) /\ Elems(found) = {d \in grid : Adjacent(h, d)}
  <2>1. grid \in SUBSET Cells
    BY <1>3
  <2> QED
    BY <1>1, <1>4, <2>1, AroundExact
<1>6. /\ found \in Seq(Cells) /\ IsFiniteSet(Elems(found)) /\ Len(found) = Cardinality(Elems(found))
  BY <1>5 DEF Once
<1>7. /\ queue' \in Seq(Cells) /\ Elems(queue') \subseteq Elems(queue) \cup Elems(found)
      /\ Elems(found) \subseteq Elems(queue') /\ Elems(queue) \subseteq Elems(queue') \cup {h}
  BY <1>1, <1>2, <1>3, <1>6, GetAndPut
<1>8. Sunk' = Sunk \cup Elems(found) /\ Sunk \cap Elems(found) = {} /\ Elems(queue)' = Elems(queue')
  BY <1>2, <1>3, <1>5 DEF Sunk, Elems
<1>9. IslandTypeOK'
  BY <1>2, <1>3, <1>6, <1>7 DEF IslandTypeOK, Cells
<1>10. put' = Cardinality(Sunk')
  <2>1. IsFiniteSet(Sunk) /\ put = Cardinality(Sunk)
    BY <1>3, FiniteCells DEF Sunk, IslandInv
  <2>2. Cardinality(Sunk \cup Elems(found)) =
          Cardinality(Sunk) + Cardinality(Elems(found)) - Cardinality(Sunk \cap Elems(found))
    BY <1>6, <2>1, FS_Union
  <2>3. Cardinality(Sunk \cap Elems(found)) = 0
    BY <1>8, FS_EmptySet
  <2> QED
    BY <1>2, <1>3, <1>6, <1>8, <2>1, <2>2, <2>3
<1>11. (\A c \in Sunk \ Elems(queue) : \A d \in land : Adjacent(c, d) => d \in Sunk)'
  <2> SUFFICES ASSUME NEW c \in Sunk \cup Elems(found), c \notin Elems(queue'), NEW d \in land,
                      Adjacent(c, d), d \in grid
               PROVE  d \in Elems(found)
    BY <1>2, <1>8 DEF Adjacent, Abs, Sunk
  <2>1. c \in Sunk
    BY <1>7
  <2>2. CASE c = h
    BY <1>5, <2>2
  <2>3. CASE c # h
    <3>1. c \notin Elems(queue)
      BY <1>7, <2>3
    <3>2. d \in Sunk
      BY <2>1, <3>1 DEF IslandInv
    <3> QED
      BY <3>2 DEF Sunk
  <2> QED
    BY <2>2, <2>3, SMTT(30)
<1>12. Touched' = Touched
  <2>1. ASSUME NEW S \in AllIslands, NEW d \in S, d \in Elems(found) PROVE S \cap Sunk # {}
    <3>1. d \in grid /\ Adjacent(h, d) /\ d \in Cells
      BY <1>3, <1>5, <2>1
    <3>2. Adjacent(d, h)
      BY <1>4, <3>1, AdjacentBack
    <3>3. h \in S
      BY <1>4, <3>2 DEF AllIslands, Closed
    <3> QED
      BY <1>4, <3>3
  <2>2. AllIslands' = AllIslands
    BY <1>2, SameIslands
  <2> QED
    BY <1>8, <2>1, <2>2 DEF Touched
<1>13. \A n \in 0..(scanned' - 1) : CellAt(n) \notin grid'
  BY <1>2 DEF IslandInv
<1> QED
  BY <1>2, <1>3, <1>7, <1>8, <1>9, <1>10, <1>11, <1>12, <1>13, SMTT(30) DEF IslandInv, CellAt

LEMMA IslandStep == IslandInv /\ [IslandNext]_islandVars => IslandInv'
<1> SUFFICES ASSUME IslandInv, [IslandNext]_islandVars PROVE IslandInv'
  OBVIOUS
<1>1. ASSUME UNCHANGED <<land, grid, queue, put, scanned>>, islands' = islands \/ islands' = -1
      PROVE  IslandInv'
  <2>1. AllIslands' = AllIslands
    BY <1>1, SameIslands
  <2>2. Sunk' = Sunk /\ Elems(queue)' = Elems(queue)
    BY <1>1 DEF Sunk, Elems
  <2>3. Touched' = Touched
    BY <2>1, <2>2 DEF Touched
  <2>4. IslandTypeOK'
    BY <1>1 DEF IslandInv, IslandTypeOK, Cells
  <2>5. (\A c \in Sunk \ Elems(queue) : \A d \in land : Adjacent(c, d) => d \in Sunk)'
    BY <1>1, <2>2 DEF IslandInv, Adjacent, Abs
  <2> QED
    BY <1>1, <2>2, <2>3, <2>4, <2>5 DEF IslandInv, CellAt
<1>2. CASE NoMemory
  BY <1>1, <1>2, Zenon DEF NoMemory
<1>3. CASE UNCHANGED islandVars
  BY <1>1, <1>3, Zenon DEF islandVars
<1> QED
  BY <1>2, <1>3, ScanStep, FloodStep DEF IslandNext

LEMMA IslandEnd == IslandInv => IslandsExact
<1> SUFFICES ASSUME IslandInv PROVE IslandsExact
  OBVIOUS
<1>1. put = Cardinality(Sunk)
  BY DEF IslandInv
<1>2. ASSUME queue = <<>>, islands >= 0
      PROVE  /\ Sunk \in Closed \cup {{}}
             /\ islands = Cardinality({S \in AllIslands : S \subseteq Sunk})
             /\ scanned = Rows * Cols => Sunk = land
  <2>1. Sunk \in Closed \cup {{}}
    BY <1>2, SunkWhole
  <2>2. {S \in AllIslands : S \subseteq Sunk} = Touched
    <3>1. \A S \in AllIslands : S # {}
      BY DEF AllIslands, Closed
    <3>2. \A S \in AllIslands : S \cap Sunk # {} <=> S \subseteq Sunk
      BY <1>2, <3>1, SunkWhole
    <3> QED
      BY <3>2 DEF Touched
  <2>3. ASSUME scanned = Rows * Cols PROVE Sunk = land
    <3>1. ASSUME NEW c \in land PROVE c \notin grid
      <4>1. c \in Cells
        BY DEF IslandInv, IslandTypeOK
      <4>2. PICK n \in 0..(Rows * Cols - 1) : c = CellAt(n)
        BY <4>1, ScanMeets
      <4> QED
        BY <2>3, <4>2 DEF IslandInv
    <3> QED
      BY <3>1 DEF Sunk
  <2> QED
    BY <1>2, <2>1, <2>2, <2>3 DEF IslandInv
<1> QED
  BY <1>1, <1>2 DEF IslandsExact

(* For a grid of any size numberOfIslands queues every cell at most once,  *)
(* sinks an island whole before it goes on with its scan, and returns the  *)
(* number of islands.                                                      *)
THEOREM IslandSafety == IslandSpec => []IslandsExact
<1> QED
  BY IslandStarts, IslandStep, IslandEnd, PTL DEF IslandSpec
=============================================================================
