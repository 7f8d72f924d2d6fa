--------------------------- MODULE ExerciseProofs ---------------------------
(***************************************************************************)
(* Theorems about the counts of four exercises: FutexMutex and the         *)
(* LockedCounter it implements, for any number of threads and turns;       *)
(* ParkingLot, for a lot of any shape; VisibleRace, for any number of      *)
(* increments.                                                             *)
(***************************************************************************)
EXTENDS FutexMutex, ParkingLot, RaceProgram, FiniteSetTheorems, TLAPS

(* Where a worker goes after a turn is one of two labels. *)
LEMMA LoopLabels == \A n \in Int : Loop(n) \in {"fast", "done"}
BY DEF Loop

(* The initial state satisfies the inductive invariant. *)
LEMMA InitIndInv == Init => IndInv
BY DEF Init, IndInv, TypeOK, MutualExclusion, NoLostWakeup, WordTellsHeld,
       NoStaleIncrement, Holders, Sleepers

(* Every step of a worker, of the kernel and of main keeps the types. *)
LEMMA TypeStep == TypeOK /\ [Next]_vars => TypeOK'
<1> SUFFICES ASSUME TypeOK, [Next]_vars PROVE TypeOK'
  OBVIOUS
<1> USE LoopLabels, IterAssumption DEF TypeOK, Goto
<1>1. ASSUME NEW t \in Threads, LockFast(t) PROVE TypeOK'
  BY <1>1 DEF LockFast
<1>2. ASSUME NEW t \in Threads, LockSlow(t) PROVE TypeOK'
  BY <1>2 DEF LockSlow
<1>3. ASSUME NEW t \in Threads, FutexWait(t) PROVE TypeOK'
  BY <1>3 DEF FutexWait
<1>4. ASSUME NEW t \in Threads, FutexInterrupt(t) PROVE TypeOK'
  BY <1>4 DEF FutexInterrupt
<1>5. ASSUME NEW t \in Threads, Load(t) PROVE TypeOK'
  BY <1>5 DEF Load
<1>6. ASSUME NEW t \in Threads, Store(t) PROVE TypeOK'
  BY <1>6 DEF Store
<1>7. ASSUME NEW t \in Threads, Unlock(t) PROVE TypeOK'
  BY <1>7 DEF Unlock
<1>8. ASSUME NEW t \in Threads, FutexWake(t) PROVE TypeOK'
  BY <1>8 DEF FutexWake, Sleepers
<1>9. ASSUME NEW t \in Threads, MainCreate(t) PROVE TypeOK'
  BY <1>9 DEF MainCreate
<1>10. CASE MainCreateFails
  BY <1>10 DEF MainCreateFails
<1>11. CASE MainJoin
  BY <1>11 DEF MainJoin
<1>12. CASE UNCHANGED vars
  BY <1>12 DEF vars
<1> QED
  BY <1>1, <1>2, <1>3, <1>4, <1>5, <1>6, <1>7, <1>8, <1>9, <1>10, <1>11, <1>12
  DEF Next, Worker

(* Every step keeps the rest of the inductive invariant. *)
LEMMA IndStep == IndInv /\ [Next]_vars => IndInv'
<1> SUFFICES ASSUME IndInv, [Next]_vars PROVE IndInv'
  OBVIOUS
<1>0. TypeOK'
  BY TypeStep DEF IndInv
<1> DEFINE Rest == MutualExclusion /\ NoLostWakeup /\ WordTellsHeld /\ NoStaleIncrement
<1>a. TypeOK /\ Rest
  BY DEF IndInv
<1> SUFFICES Rest'
  BY <1>0 DEF IndInv
<1> USE <1>a, <1>0, LoopLabels, IterAssumption
        DEF TypeOK, Goto, MutualExclusion, NoLostWakeup, WordTellsHeld,
            NoStaleIncrement, Holders, Sleepers, Markers, Wakers
<1>1. ASSUME NEW t \in Threads, LockFast(t) PROVE Rest'
  BY <1>1 DEF LockFast
<1>2. ASSUME NEW t \in Threads, LockSlow(t) PROVE Rest'
  BY <1>2 DEF LockSlow
<1>3. ASSUME NEW t \in Threads, FutexWait(t) PROVE Rest'
  BY <1>3 DEF FutexWait
<1>4. ASSUME NEW t \in Threads, FutexInterrupt(t) PROVE Rest'
  BY <1>4 DEF FutexInterrupt
<1>5. ASSUME NEW t \in Threads, Load(t) PROVE Rest'
  BY <1>5 DEF Load
<1>6. ASSUME NEW t \in Threads, Store(t) PROVE Rest'
  BY <1>6 DEF Store
<1>7. ASSUME NEW t \in Threads, Unlock(t) PROVE Rest'
  BY <1>7 DEF Unlock
<1>8. ASSUME NEW t \in Threads, FutexWake(t) PROVE Rest'
  BY <1>8 DEF FutexWake
<1>9. ASSUME NEW t \in Threads, MainCreate(t) PROVE Rest'
  BY <1>9 DEF MainCreate
<1>10. CASE MainCreateFails
  BY <1>10 DEF MainCreateFails
<1>11. CASE MainJoin
  BY <1>11 DEF MainJoin
<1>12. CASE UNCHANGED vars
  BY <1>12 DEF vars
<1> QED
  BY <1>1, <1>2, <1>3, <1>4, <1>5, <1>6, <1>7, <1>8, <1>9, <1>10, <1>11, <1>12
  DEF Next, Worker

(* The lock word stays within 0..2 and every worker where the code puts it, *)
(* for any number of threads. *)
THEOREM TypeCorrect == Spec => []TypeOK
<1>1. Init => TypeOK
  BY InitIndInv DEF IndInv
<1> QED
  BY <1>1, TypeStep, PTL DEF Spec

(* The conjunction of the safety invariants holds in every reachable state. *)
THEOREM Safety == Spec => []IndInv
BY InitIndInv, IndStep, PTL DEF Spec

(* my_lock and my_unlock exclude each other's callers. *)
THEOREM Exclusion == Spec => []MutualExclusion
<1>1. IndInv => MutualExclusion
  BY DEF IndInv
<1> QED
  BY <1>1, Safety, PTL

(* No sleeper is forgotten, although the fast path may overwrite the 2. *)
THEOREM WakeupSafety == Spec => []NoLostWakeup
<1>1. IndInv => NoLostWakeup
  BY DEF IndInv
<1> QED
  BY <1>1, Safety, PTL

-----------------------------------------------------------------------------
(* A store that has been done is one of finitely many. *)
LEMMA TurnsFinite == IsFiniteSet(Threads \X (0 .. Iter - 1)) /\ IsFiniteSet(Increments)
<1>1. IsFiniteSet(0 .. Iter - 1)
  BY FS_Interval, IterAssumption
<1>2. IsFiniteSet(Threads \X (0 .. Iter - 1))
  BY <1>1, FS_Product, ThreadsAssumption
<1>3. Increments \subseteq Threads \X (0 .. Iter - 1)
  BY DEF Increments
<1> QED
  BY <1>2, <1>3, FS_Subset

(* A step that leaves the number of stores of every thread alone leaves    *)
(* the set of stores alone.                                                *)
LEMMA SameIncrements ==
  ASSUME \A t \in Threads : Stored(t)' = Stored(t)
  PROVE  Increments' = Increments
BY DEF Increments

(* Every step keeps the accounting of the stores. *)
LEMMA TotalStep ==
  ASSUME Iter > 0
  PROVE  IndInv /\ TotalInv /\ [Next]_vars => TotalInv'
<1> SUFFICES ASSUME IndInv, TotalInv, [Next]_vars PROVE TotalInv'
  OBVIOUS
<1> DEFINE Turns == \A t \in Threads :
             /\ iters[t] <= Iter
             /\ pc[t] = "unborn" => iters[t] = 0
             /\ pc[t] = "done" => iters[t] = Iter
             /\ pc[t] \notin {"unborn", "wake", "done"} => iters[t] < Iter
           Joined == mainPc = "joined" => \A t \in Threads : pc[t] = "done"
<1>a. TypeOK /\ Turns /\ Joined /\ counter = Cardinality(Increments)
  BY DEF IndInv, TotalInv
<1> USE <1>a, IterAssumption DEF TypeOK, Goto, Running, Stored
<1>k. ASSUME Turns', Joined', counter' = Cardinality(Increments') PROVE TotalInv'
  BY <1>k DEF TotalInv
<1>1. ASSUME NEW t \in Threads, LockFast(t) \/ LockSlow(t) \/ FutexWait(t) \/ FutexInterrupt(t)
                                \/ Load(t)
      PROVE  TotalInv'
  <2> USE DEF LockFast, LockSlow, FutexWait, FutexInterrupt, Load
  <2>1. Turns' /\ Joined'
    BY <1>1
  <2>2. Increments' = Increments /\ counter' = counter
    BY <1>1, SameIncrements
  <2> QED
    BY <1>k, <2>1, <2>2
<1>2. ASSUME NEW t \in Threads, Store(t) PROVE TotalInv'
  <2> USE <1>2 DEF Store
  <2>1. Turns' /\ Joined'
    OBVIOUS
  <2>2. <<t, iters[t]>> \in Threads \X (0 .. Iter - 1) /\ <<t, iters[t]>> \notin Increments
    BY DEF Increments
  <2>3. Increments' = Increments \cup {<<t, iters[t]>>}
    <3>1. ASSUME NEW s \in Threads \X (0 .. Iter - 1)
          PROVE  s[2] < Stored(s[1])' <=> s[2] < Stored(s[1]) \/ s = <<t, iters[t]>>
      OBVIOUS
    <3> QED
      BY <3>1, <2>2 DEF Increments
  <2>4. Cardinality(Increments') = counter + 1
    BY <2>2, <2>3, TurnsFinite, FS_AddElement
  <2>5. counter' = counter + 1
    BY DEF IndInv, NoStaleIncrement
  <2> QED
    BY <1>k, <2>1, <2>4, <2>5
<1>3. ASSUME NEW t \in Threads, Unlock(t) PROVE TotalInv'
  <2> USE <1>3 DEF Unlock, Loop
  <2>1. Turns' /\ Joined'
    OBVIOUS
  <2>2. Increments' = Increments /\ counter' = counter
    BY SameIncrements
  <2> QED
    BY <1>k, <2>1, <2>2
<1>4. ASSUME NEW t \in Threads, FutexWake(t) PROVE TotalInv'
  <2> USE <1>4 DEF FutexWake, Sleepers, Loop
  <2>1. Turns' /\ Joined'
    OBVIOUS
  <2>2. Increments' = Increments /\ counter' = counter
    BY SameIncrements
  <2> QED
    BY <1>k, <2>1, <2>2
<1>5. ASSUME NEW t \in Threads, MainCreate(t) PROVE TotalInv'
  <2> USE <1>5 DEF MainCreate, Loop
  <2>1. Turns' /\ Joined'
    OBVIOUS
  <2>2. Increments' = Increments /\ counter' = counter
    BY SameIncrements
  <2> QED
    BY <1>k, <2>1, <2>2
<1>6. CASE MainCreateFails \/ MainJoin \/ UNCHANGED vars
  <2> USE <1>6 DEF MainCreateFails, MainJoin, vars
  <2>1. Turns' /\ Joined'
    OBVIOUS
  <2>2. Increments' = Increments /\ counter' = counter
    BY SameIncrements
  <2> QED
    BY <1>k, <2>1, <2>2
<1> QED
  BY <1>1, <1>2, <1>3, <1>4, <1>5, <1>6 DEF Next, Worker

(* No increment is lost and none is counted twice: when main has joined    *)
(* the workers the counter is what it asserts, for any positive repetition *)
(* count.  (For a negative one, which main accepts, it is not: the count   *)
(* is then compared with a negative product.)                              *)
THEOREM TotalSafety ==
  ASSUME Iter > 0
  PROVE  Spec => []TotalAsserted
<1>1. Init => TotalInv
  <2> SUFFICES ASSUME Init PROVE TotalInv
    OBVIOUS
  <2>1. Increments = {}
    BY IterAssumption DEF Init, Increments, Stored
  <2> QED
    BY <2>1, FS_EmptySet, IterAssumption DEF Init, TotalInv
<1>2. TotalInv => TotalAsserted
  <2> SUFFICES ASSUME TotalInv, mainPc = "joined" PROVE counter = Iter * Cardinality(Threads)
    BY DEF TotalAsserted
  <2>1. Increments = Threads \X (0 .. Iter - 1)
    BY IterAssumption DEF TotalInv, Increments, Stored
  <2>2. IsFiniteSet(0 .. Iter - 1) /\ Cardinality(0 .. Iter - 1) = Iter
    BY FS_Interval, IterAssumption
  <2>3. Cardinality(Threads) \in Nat
    BY FS_CardinalityType, ThreadsAssumption
  <2>4. counter = Cardinality(Threads) * Iter
    BY <2>1, <2>2, FS_Product, ThreadsAssumption, ZenonT(30) DEF TotalInv
  <2> QED
    BY <2>3, <2>4, IterAssumption
<1> QED
  BY <1>1, <1>2, InitIndInv, IndStep, TotalStep, PTL DEF Spec

-----------------------------------------------------------------------------
(* Each step of the futex lock is a step of worker_lock, or none. *)
LEMMA RefinementStep == IndInv /\ [Next]_vars => [LC!Next]_LC!vars
<1> SUFFICES ASSUME IndInv, [Next]_vars PROVE [LC!Next]_LC!vars
  OBVIOUS
<1> DEFINE lpc == [t \in Threads |-> LockedPc(t)]
<1> USE IterAssumption
        DEF IndInv, TypeOK, MutualExclusion, WordTellsHeld, Goto, Holders, LockedPc,
            Loop, LC!Loop, Running, LC!Running
<1>1. ASSUME NEW t \in Threads, LockFast(t) PROVE LC!Lock(t) \/ UNCHANGED LC!vars
  <2>1. CASE word = 0
    <3>1. Holders = {} /\ Holders' = {t}
      BY <1>1, <2>1 DEF LockFast
    <3>2. lpc' = [lpc EXCEPT ![t] = "load"]
      BY <1>1, <2>1 DEF LockFast
    <3> QED
      BY <1>1, <2>1, <3>1, <3>2 DEF LockFast, LC!Lock
  <2>2. CASE word # 0
    <3>1. Holders' = Holders /\ lpc' = lpc
      BY <1>1, <2>2 DEF LockFast
    <3> QED
      BY <1>1, <2>2, <3>1 DEF LockFast, LC!vars
  <2> QED
    BY <2>1, <2>2
<1>2. ASSUME NEW t \in Threads, LockSlow(t) PROVE LC!Lock(t) \/ UNCHANGED LC!vars
  <2>1. CASE word = 0
    <3>1. Holders = {} /\ Holders' = {t}
      BY <1>2, <2>1 DEF LockSlow
    <3>2. lpc' = [lpc EXCEPT ![t] = "load"]
      BY <1>2, <2>1 DEF LockSlow
    <3> QED
      BY <1>2, <2>1, <3>1, <3>2 DEF LockSlow, LC!Lock
  <2>2. CASE word # 0
    <3>1. Holders' = Holders /\ lpc' = lpc
      BY <1>2, <2>2 DEF LockSlow
    <3> QED
      BY <1>2, <2>2, <3>1 DEF LockSlow, LC!vars
  <2> QED
    BY <2>1, <2>2
<1>3. ASSUME NEW t \in Threads, FutexWait(t) \/ FutexInterrupt(t) PROVE UNCHANGED LC!vars
  <2>1. Holders' = Holders /\ lpc' = lpc
    BY <1>3 DEF FutexWait, FutexInterrupt
  <2> QED
    BY <1>3, <2>1 DEF FutexWait, FutexInterrupt, LC!vars
<1>4. ASSUME NEW t \in Threads, Load(t) PROVE LC!Load(t)
  <2>1. Holders' = Holders /\ lpc' = [lpc EXCEPT ![t] = "store"]
    BY <1>4 DEF Load
  <2> QED
    BY <1>4, <2>1 DEF Load, LC!Load
<1>5. ASSUME NEW t \in Threads, Store(t) PROVE LC!Store(t)
  <2>1. Holders' = Holders /\ lpc' = [lpc EXCEPT ![t] = "unlock"]
    BY <1>5 DEF Store
  <2> QED
    BY <1>5, <2>1 DEF Store, LC!Store
<1>6. ASSUME NEW t \in Threads, Unlock(t) PROVE LC!Unlock(t)
  <2>1. Holders' = Holders \ {t}
    BY <1>6 DEF Unlock
  <2>2. lpc' = [lpc EXCEPT ![t] = LC!Loop(iters[t] + 1)]
    BY <1>6 DEF Unlock
  <2> QED
    BY <1>6, <2>1, <2>2 DEF Unlock, LC!Unlock
<1>7. ASSUME NEW t \in Threads, FutexWake(t) PROVE UNCHANGED LC!vars
  <2>1. Holders' = Holders /\ lpc' = lpc
    BY <1>7 DEF FutexWake, Sleepers
  <2> QED
    BY <1>7, <2>1 DEF FutexWake, LC!vars
<1>8. ASSUME NEW t \in Threads, MainCreate(t) PROVE LC!MainCreate(t)
  <2>1. Holders' = Holders /\ lpc' = [lpc EXCEPT ![t] = LC!Loop(0)]
    BY <1>8 DEF MainCreate
  <2>2. \A u \in Threads : lpc'[u] # "unborn" <=> pc'[u] # "unborn"
    BY <1>8 DEF MainCreate
  <2> QED
    BY <1>8, <2>1, <2>2 DEF MainCreate, LC!MainCreate
<1>9. CASE MainCreateFails
  <2>1. Holders' = Holders /\ lpc' = lpc
    BY <1>9 DEF MainCreateFails
  <2> QED
    BY <1>9, <2>1 DEF MainCreateFails, LC!Next, LC!MainCreateFails
<1>10. CASE MainJoin
  <2>1. Holders' = Holders /\ lpc' = lpc /\ \A t \in Threads : lpc[t] = "done"
    BY <1>10 DEF MainJoin
  <2> QED
    BY <1>10, <2>1 DEF MainJoin, LC!Next, LC!MainJoin
<1>11. CASE UNCHANGED vars
  <2>1. Holders' = Holders /\ lpc' = lpc
    BY <1>11 DEF vars
  <2> QED
    BY <1>11, <2>1 DEF vars, LC!vars
<1> QED
  BY <1>1, <1>2, <1>3, <1>4, <1>5, <1>6, <1>7, <1>8, <1>9, <1>10, <1>11
  DEF Next, Worker, LC!Next, LC!Worker

(* The hand-made lock does what a pthread mutex does: every behaviour of   *)
(* worker is one of worker_lock.                                           *)
THEOREM FutexRefinement == Spec => ImplementsLockedCounter
<1>1. Init => LC!Init
  BY DEF Init, LC!Init, Holders, LockedPc
<1> QED
  BY <1>1, RefinementStep, Safety, PTL DEF Spec, ImplementsLockedCounter, LC!Spec

-----------------------------------------------------------------------------
(* The same program run with "pthread", in variables of its own. *)
VARIABLES lockPc, holders

L == INSTANCE LockedCounter WITH pc <- lockPc

(* The mutex excludes, a loaded value does not go stale, and the loop      *)
(* variables are where the program counters say, initially and after every *)
(* step.                                                                   *)
THEOREM LockInductive ==
  ASSUME Iter \in Int
  PROVE  L!Spec => []L!IndInv
<1>1. L!Init => L!IndInv
  <2>1. L!Init => L!TypeOK
    BY DEF L!Init, L!TypeOK
  <2>2. L!Init => L!HoldersInv
    BY DEF L!Init, L!HoldersInv
  <2>3. L!Init => L!NoStaleIncrement /\ L!LoopInv
    BY ZenonT(30) DEF L!Init, L!NoStaleIncrement, L!LoopInv
  <2> QED
    BY <2>1, <2>2, <2>3 DEF L!IndInv
<1>2. L!IndInv /\ [L!Next]_(L!vars) => L!IndInv'
  <2> SUFFICES ASSUME L!IndInv, [L!Next]_(L!vars) PROVE L!IndInv'
    OBVIOUS
  <2> USE DEF L!IndInv, L!TypeOK, L!HoldersInv, L!NoStaleIncrement, L!LoopInv
  <2>1. ASSUME NEW t \in Threads, L!Lock(t) PROVE L!IndInv'
    BY <2>1 DEF L!Lock
  <2>2. ASSUME NEW t \in Threads, L!Load(t) PROVE L!IndInv'
    BY <2>2 DEF L!Load
  <2>3. ASSUME NEW t \in Threads, L!Store(t) PROVE L!IndInv'
    BY <2>3 DEF L!Store
  <2>4. ASSUME NEW t \in Threads, L!Unlock(t) PROVE L!IndInv'
    BY <2>4 DEF L!Unlock, L!Loop
  <2>5. ASSUME NEW t \in Threads, L!MainCreate(t) PROVE L!IndInv'
    BY <2>5 DEF L!MainCreate, L!Loop
  <2>6. CASE L!MainCreateFails
    BY <2>6 DEF L!MainCreateFails
  <2>7. CASE L!MainJoin
    BY <2>7 DEF L!MainJoin
  <2>8. CASE UNCHANGED L!vars
    BY <2>8 DEF L!vars
  <2> QED
    BY <2>1, <2>2, <2>3, <2>4, <2>5, <2>6, <2>7, <2>8 DEF L!Next, L!Worker
<1> QED
  BY <1>1, <1>2, PTL DEF L!Spec

(* Every initial state of the locked program is one of the atomic program  *)
(* and every step is one of its steps or changes nothing it shows:         *)
(* worker_lock loses no increment.                                         *)
THEOREM LockRefinement ==
  ASSUME Iter \in Int
  PROVE  L!Spec => L!ImplementsAtomicCounter
<1>1. L!Init => L!AC!Init
  BY DEF L!Init, L!AC!Init, L!Increments, L!Started
<1>2. L!IndInv /\ [L!Next]_(L!vars) => [L!AC!Next]_(L!AC!vars)
  <2> SUFFICES ASSUME L!IndInv, [L!Next]_(L!vars) PROVE [L!AC!Next]_(L!AC!vars)
    OBVIOUS
  <2> USE DEF L!IndInv, L!TypeOK
  <2>1. ASSUME NEW t \in Threads, L!Lock(t) PROVE UNCHANGED L!AC!vars
    BY <2>1 DEF L!Lock, L!AC!vars, L!Increments, L!Started
  <2>2. ASSUME NEW t \in Threads, L!Load(t) PROVE UNCHANGED L!AC!vars
    BY <2>2 DEF L!Load, L!AC!vars, L!Increments, L!Started
  <2>3. ASSUME NEW t \in Threads, L!Store(t) PROVE L!AC!Add(t)
    <3>1. counter' = counter + 1
      BY <2>3 DEF L!Store, L!NoStaleIncrement
    <3>2. L!Increments[t] < Iter /\ t \in L!Started
      BY <2>3 DEF L!Store, L!LoopInv, L!Increments, L!Started
    <3>3. L!Increments' = [L!Increments EXCEPT ![t] = @ + 1]
      BY <2>3 DEF L!Store, L!Increments
    <3>4. L!Started' = L!Started
      BY <2>3 DEF L!Store, L!Started
    <3> QED
      BY <2>3, <3>1, <3>2, <3>3, <3>4 DEF L!Store, L!Running, L!AC!Add, L!AC!Running
  <2>4. ASSUME NEW t \in Threads, L!Unlock(t) PROVE UNCHANGED L!AC!vars
    BY <2>4 DEF L!Unlock, L!Loop, L!AC!vars, L!Increments, L!Started
  <2>5. ASSUME NEW t \in Threads, L!MainCreate(t) PROVE L!AC!MainCreate(t)
    <3>1. L!Started' = L!Started \cup {t} /\ t \notin L!Started
      BY <2>5 DEF L!MainCreate, L!Loop, L!Started
    <3>2. L!Increments' = L!Increments
      BY <2>5 DEF L!MainCreate, L!Loop, L!Increments
    <3>3. L!Started' = Threads <=> \A u \in Threads : lockPc'[u] # "unborn"
      BY DEF L!Started
    <3> QED
      BY <2>5, <3>1, <3>2, <3>3 DEF L!MainCreate, L!AC!MainCreate
  <2>6. ASSUME L!MainCreateFails PROVE L!AC!MainCreateFails
    BY <2>6 DEF L!MainCreateFails, L!AC!MainCreateFails, L!Increments, L!Started
  <2>7. ASSUME L!MainJoin PROVE L!AC!MainJoin
    BY <2>7 DEF L!MainJoin, L!AC!MainJoin, L!Increments, L!Started, L!LoopInv
  <2>8. ASSUME UNCHANGED L!vars PROVE UNCHANGED L!AC!vars
    BY <2>8 DEF L!vars, L!AC!vars, L!Increments, L!Started
  <2> QED
    BY <2>1, <2>2, <2>3, <2>4, <2>5, <2>6, <2>7, <2>8 DEF L!Next, L!Worker, L!AC!Next
<1> QED
  BY <1>1, <1>2, LockInductive, PTL DEF L!Spec, L!AC!Spec, L!ImplementsAtomicCounter

-----------------------------------------------------------------------------
(* ParkingLot: a lot of any shape. *)
(* A lot has finitely many spots, and none of them is the answer "no".     *)
LEMMA SpotsFinite ==
  ASSUME LotShape
  PROVE  /\ IsFiniteSet(Spots)
         /\ \A S : S \subseteq Spots => IsFiniteSet(S) /\ Cardinality(S) \in Nat
<1>1. PerFloor \in Nat
  BY DEF LotShape, PerFloor
<1>2. IsFiniteSet(0..(Levels - 1)) /\ IsFiniteSet(0..(PerFloor - 1))
  BY <1>1, FS_Interval DEF LotShape
<1>3. IsFiniteSet(Spots)
  BY <1>2, FS_Product DEF Spots
<1> QED
  BY <1>3, FS_Subset, FS_CardinalityType

LEMMA SpotsAreNoNo == \A p \in Spots : p # NoTicket
  BY DEF Spots, NoTicket

LEMMA SizesOfSpots == \A p \in Spots : SizeOf(p) \in Sizes
  BY DEF SizeOf, Sizes

(* What create_lot makes: every size has its own stretch of each floor.    *)
LEMMA FreshCounts ==
  ASSUME LotShape, NEW first \in Nat, NEW n \in Nat
  PROVE  Cardinality((0..(Levels - 1)) \X (first..(first + n - 1))) = Levels * n
<1>1. /\ IsFiniteSet(0..(Levels - 1)) /\ Cardinality(0..(Levels - 1)) = Levels
  BY FS_Interval DEF LotShape
<1>2. /\ IsFiniteSet(first..(first + n - 1)) /\ Cardinality(first..(first + n - 1)) = n
  BY FS_Interval
<1>3. ASSUME NEW S, NEW T, IsFiniteSet(S), IsFiniteSet(T)
      PROVE  Cardinality(S \X T) = Cardinality(S) * Cardinality(T)
  BY <1>3, FS_Product
<1>4. Cardinality((0..(Levels - 1)) \X (first..(first + n - 1)))
        = Cardinality(0..(Levels - 1)) * Cardinality(first..(first + n - 1))
  BY <1>1, <1>2, <1>3, Zenon
<1> QED
  BY <1>1, <1>2, <1>4, Zenon

(* A spot that is taken leaves the free ones of its size and no others.    *)
LEMMA ParkPreserves ==
  ASSUME LotShape, LotTypeOK, CountsInStep,
         NEW v \in Vehicles, NEW s \in Sizes, NEW p \in Spots, Park(v, s, p)
  PROVE  LotTypeOK' /\ CountsInStep'
<1>1. p \in Free(s) /\ ~occupied[p] /\ SizeOf(p) = s
  BY DEF Park, Free
<1>2. /\ occupied' = [occupied EXCEPT ![p] = TRUE]
      /\ freeCount' = [freeCount EXCEPT ![s] = freeCount[s] - 1]
  BY DEF Park
<1>3. \A z \in Sizes : Free(z) \subseteq Spots
  BY DEF Free
<1>4. Free(s)' = Free(s) \ {p}
  BY <1>1, <1>2 DEF Free, LotTypeOK
<1>5. \A z \in Sizes : z # s => Free(z)' = Free(z)
  BY <1>1, <1>2 DEF Free, LotTypeOK
<1>6. /\ Cardinality(Free(s) \ {p}) = Cardinality(Free(s)) - 1
      /\ Cardinality(Free(s) \ {p}) \in Nat
  <2>1. IsFiniteSet(Free(s)) /\ Cardinality(Free(s) \ {p}) \in Nat
    BY <1>3, SpotsFinite
  <2> QED
    BY <1>1, <2>1, FS_RemoveElement
<1>7. freeCount[s] - 1 \in Nat
  BY <1>6 DEF CountsInStep
<1>8. LotTypeOK'
  BY <1>2, <1>7 DEF LotTypeOK
<1>9. ASSUME NEW z \in Sizes
      PROVE  freeCount'[z] = Cardinality(Free(z)')
  <2>1. CASE z = s
    BY <2>1, <1>2, <1>4, <1>6 DEF CountsInStep, LotTypeOK
  <2>2. CASE z # s
    BY <2>2, <1>2, <1>5 DEF CountsInStep, LotTypeOK
  <2> QED
    BY <2>1, <2>2
<1> QED
  BY <1>8, <1>9 DEF CountsInStep

(* A spot that is left joins the free ones of its size.                    *)
LEMMA LeavePreserves ==
  ASSUME LotShape, LotTypeOK, CountsInStep, NEW t, Leave(t)
  PROVE  LotTypeOK' /\ CountsInStep'
<1> DEFINE s == SizeOf(t)
<1>1. t \in Spots /\ occupied[t] /\ s \in Sizes
  BY SizesOfSpots DEF Leave
<1>2. /\ occupied' = [occupied EXCEPT ![t] = FALSE]
      /\ freeCount' = [freeCount EXCEPT ![s] = freeCount[s] + 1]
  BY DEF Leave
<1>3. \A z \in Sizes : Free(z) \subseteq Spots
  BY DEF Free
<1>4. t \notin Free(s) /\ Free(s)' = Free(s) \cup {t}
  BY <1>1, <1>2 DEF Free, LotTypeOK
<1>5. \A z \in Sizes : z # s => Free(z)' = Free(z)
  BY <1>1, <1>2 DEF Free, LotTypeOK
<1> HIDE DEF s
<1>6. /\ Cardinality(Free(s) \cup {t}) = Cardinality(Free(s)) + 1
      /\ Cardinality(Free(s)) \in Nat
  <2>1. IsFiniteSet(Free(s)) /\ Cardinality(Free(s)) \in Nat
    BY <1>1, <1>3, SpotsFinite
  <2> QED
    BY <1>4, <2>1, FS_AddElement
<1>7. LotTypeOK'
  BY <1>1, <1>2 DEF LotTypeOK
<1>8. ASSUME NEW z \in Sizes
      PROVE  freeCount'[z] = Cardinality(Free(z)')
  <2>1. CASE z = s
    BY <2>1, <1>1, <1>2, <1>4, <1>6 DEF CountsInStep, LotTypeOK
  <2>2. CASE z # s
    BY <2>2, <1>2, <1>5 DEF CountsInStep, LotTypeOK
  <2> QED
    BY <2>1, <2>2
<1> QED
  BY <1>7, <1>8 DEF CountsInStep

(* Where the counts are right a size is passed over only when it is full.  *)
LEMMA RoomIsFree ==
  ASSUME LotShape, LotTypeOK, CountsInStep, NEW s \in Sizes
  PROVE  Room(s) <=> Free(s) # {}
<1>1. IsFiniteSet(Free(s))
  BY SpotsFinite DEF Free
<1>2. Cardinality(Free(s)) = 0 <=> Free(s) = {}
  BY <1>1, FS_EmptySet
<1> QED
  BY <1>2 DEF Room, CountsInStep

-----------------------------------------------------------------------------
(* create_lot leaves the counts in step.                                   *)
LEMMA InitInStep ==
  ASSUME LotShape, LotInit
  PROVE  LotTypeOK /\ CountsInStep
<1> DEFINE Floors == 0..(Levels - 1)
<1>1. /\ NumSmall \in Nat /\ NumMedium \in Nat /\ NumLarge \in Nat /\ Levels \in Nat
      /\ PerFloor = NumSmall + NumMedium + NumLarge
  BY DEF LotShape, PerFloor
<1>2. /\ freeCount[0] = Levels * NumSmall
      /\ freeCount[1] = Levels * NumMedium
      /\ freeCount[2] = Levels * NumLarge
  BY DEF LotInit, Sizes
<1>3. LotTypeOK
  <2>1. Levels * NumSmall \in Nat /\ Levels * NumMedium \in Nat /\ Levels * NumLarge \in Nat
    BY <1>1
  <2> QED
    BY <2>1 DEF LotInit, LotTypeOK, Sizes
<1>4. Free(0) = Floors \X (0..(0 + NumSmall - 1))
  BY <1>1 DEF LotInit, Free, Spots, SizeOf
<1>5. Free(1) = Floors \X (NumSmall..(NumSmall + NumMedium - 1))
  BY <1>1 DEF LotInit, Free, Spots, SizeOf
<1>6. Free(2) = Floors \X ((NumSmall + NumMedium)..(NumSmall + NumMedium + NumLarge - 1))
  BY <1>1 DEF LotInit, Free, Spots, SizeOf
<1>7. Cardinality(Free(0)) = Levels * NumSmall
  BY <1>1, <1>4, FreshCounts
<1>8. Cardinality(Free(1)) = Levels * NumMedium
  BY <1>1, <1>5, FreshCounts
<1>9. Cardinality(Free(2)) = Levels * NumLarge
  <2>1. NumSmall + NumMedium \in Nat
    BY <1>1
  <2> QED
    BY <1>1, <1>6, <2>1, FreshCounts, ZenonT(30)
<1>10. freeCount[0] = Cardinality(Free(0)) /\ freeCount[1] = Cardinality(Free(1))
         /\ freeCount[2] = Cardinality(Free(2))
  BY <1>2, <1>7, <1>8, <1>9, Zenon
<1> QED
  BY <1>3, <1>10 DEF CountsInStep, Sizes

(* Every call keeps the counts in step.                                    *)
LEMMA StepInStep ==
  ASSUME LotShape, LotTypeOK, CountsInStep, [LotNext]_lotVars
  PROVE  LotTypeOK' /\ CountsInStep'
<1>1. ASSUME UNCHANGED <<occupied, freeCount>>
      PROVE  LotTypeOK' /\ CountsInStep'
  BY <1>1 DEF LotTypeOK, CountsInStep, Free
<1>2. ASSUME NEW v \in Vehicles, Refuse(v)
      PROVE  LotTypeOK' /\ CountsInStep'
  BY <1>1, <1>2 DEF Refuse
<1>3. ASSUME NEW v \in Vehicles, NEW s \in Sizes, NEW p \in Spots, Park(v, s, p)
      PROVE  LotTypeOK' /\ CountsInStep'
  BY <1>3, ParkPreserves
<1>4. ASSUME NEW t \in Tickets, Leave(t)
      PROVE  LotTypeOK' /\ CountsInStep'
  BY <1>4, LeavePreserves
<1>5. ASSUME NEW t \in Tickets, LeaveInvalid(t)
      PROVE  LotTypeOK' /\ CountsInStep'
  BY <1>1, <1>5 DEF LeaveInvalid
<1>6. CASE UNCHANGED lotVars
  BY <1>1, <1>6 DEF lotVars
<1> QED
  BY <1>2, <1>3, <1>4, <1>5, <1>6 DEF LotNext

(* A call of assigner gives the vehicle the spot it should have.           *)
LEMMA StepFits ==
  ASSUME LotShape, LotTypeOK, CountsInStep, [LotNext]_lotVars
  PROVE  [SmallestThatFits]_lotVars
<1>1. ASSUME NEW v \in Vehicles
      PROVE  \A p \in Fitting(v) : p \in Free(SizeOf(p)) /\ SizeOf(p) \in Sizes
  BY <1>1, SizesOfSpots DEF Fitting, Free
<1>2. ASSUME NEW v \in Vehicles, Refuse(v)
      PROVE  SmallestThatFits
  <2>1. \A s \in Sizes : SmallestFit(v) <= s => Free(s) = {}
    BY <1>2, RoomIsFree DEF Refuse
  <2>2. Fitting(v) = {}
    BY <1>1, <2>1 DEF Fitting
  <2> QED
    BY <1>2, <2>2 DEF Refuse, SmallestThatFits
<1>3. ASSUME NEW v \in Vehicles, NEW s \in Sizes, NEW p \in Spots, Park(v, s, p)
      PROVE  SmallestThatFits
  <2>1. /\ SmallestFit(v) <= s /\ ~occupied[p] /\ SizeOf(p) = s
        /\ \A z \in Sizes : SmallestFit(v) <= z /\ z < s => Free(z) = {}
    BY <1>3, RoomIsFree DEF Park, Free
  <2>2. p \in Fitting(v)
    BY <2>1 DEF Fitting
  <2>3. \A q \in Fitting(v) : SizeOf(p) <= SizeOf(q)
    <3> TAKE q \in Fitting(v)
    <3>1. SmallestFit(v) <= SizeOf(q) /\ SizeOf(q) \in Sizes /\ Free(SizeOf(q)) # {}
      BY <1>1 DEF Fitting
    <3>2. ~(SizeOf(q) < s)
      BY <2>1, <3>1
    <3> QED
      BY <2>1, <3>1, <3>2 DEF Sizes
  <2>4. last'.ticket = p /\ last'.vehicle = v /\ occupied' = [occupied EXCEPT ![p] = TRUE]
    BY <1>3 DEF Park
  <2> QED
    BY <2>2, <2>3, <2>4, SpotsAreNoNo DEF SmallestThatFits
<1>4. ASSUME NEW t \in Tickets, Leave(t) \/ LeaveInvalid(t)
      PROVE  SmallestThatFits
  BY <1>4 DEF Leave, LeaveInvalid, SmallestThatFits
<1> QED
  BY <1>2, <1>3, <1>4 DEF LotNext

(* However vehicles come and whatever tickets come back, in a lot of any   *)
(* number of levels and spots the free counts agree with the flags, and    *)
(* assigner gives the smallest spot that fits, refusing only when there is *)
(* none.                                                                   *)
THEOREM LotIsHonest == LotShape /\ LotSpec => LotHonest
<1>1. ASSUME LotShape PROVE LotSpec => [](LotTypeOK /\ CountsInStep)
  <2>1. LotInit => LotTypeOK /\ CountsInStep
    BY <1>1, InitInStep
  <2>2. LotTypeOK /\ CountsInStep /\ [LotNext]_lotVars => (LotTypeOK /\ CountsInStep)'
    BY <1>1, StepInStep
  <2> QED
    BY <2>1, <2>2, PTL DEF LotSpec
<1> DEFINE Honest == last'.call # "create" => CountsInStep' /\ SmallestThatFits
<1>2. ASSUME LotShape PROVE LotTypeOK /\ CountsInStep /\ [LotNext]_lotVars => [Honest]_lotVars
  BY <1>2, StepInStep, StepFits
<1>3. ASSUME LotShape PROVE LotSpec => LotHonest
  <2>1. LotTypeOK /\ CountsInStep /\ [LotNext]_lotVars => [Honest]_lotVars
    BY <1>2, <1>3
  <2>2. LotSpec => [](LotTypeOK /\ CountsInStep)
    BY <1>1, <1>3
  <2> QED
    BY <2>1, <2>2, PTL DEF LotSpec, LotHonest
<1> QED
  BY <1>3

(***************************************************************************)
(* VisibleRace                                                             *)
(***************************************************************************)
LEMMA RaceInit == V!Init => V!IndInv
BY RepsAssumption
DEF V!Init, V!IndInv, V!TypeOK, V!ThreadInv, V!Made, V!Stored, V!Threads

(* The steps of main and of the workers keep the types. *)
LEMMA RaceTypes == V!TypeOK /\ [V!Next]_raceVars => V!TypeOK'
<1> SUFFICES ASSUME V!TypeOK, [V!Next]_raceVars PROVE V!TypeOK'
  OBVIOUS
<1> USE DEF V!TypeOK, V!Loop, V!Threads
<1>1. ASSUME NEW t \in V!Threads, V!Create(t) PROVE V!TypeOK'
  BY <1>1 DEF V!Create
<1>2. ASSUME NEW t \in V!Threads, V!Load(t) PROVE V!TypeOK'
  BY <1>2 DEF V!Load
<1>3. ASSUME NEW t \in V!Threads, V!Store(t) PROVE V!TypeOK'
  BY <1>3 DEF V!Store
<1>4. CASE V!CreateFails
  BY <1>4 DEF V!CreateFails
<1>5. CASE V!Join
  BY <1>5 DEF V!Join
<1>6. CASE UNCHANGED raceVars
  BY <1>6 DEF raceVars
<1> QED
  BY <1>1, <1>2, <1>3, <1>4, <1>5, <1>6 DEF V!Next

(* Every step keeps what relates the total, the registers and the turns:   *)
(* a value that is loaded has been stored, so that a thread stores at most *)
(* as many as were made, and a 1 only on its first turn.                   *)
LEMMA RaceStep == V!IndInv /\ [V!Next]_raceVars => V!IndInv'
<1> SUFFICES ASSUME V!IndInv, [V!Next]_raceVars PROVE V!IndInv'
  OBVIOUS
<1>t. V!TypeOK /\ V!TypeOK'
  BY RaceTypes DEF V!IndInv
<1>i. \A u \in V!Threads : V!ThreadInv(u)
  BY DEF V!IndInv
<1> USE RepsAssumption DEF V!Threads
<1>1. ASSUME NEW t \in V!Threads, V!Create(t) PROVE V!IndInv'
  <2>1. UNCHANGED <<total, made, loaded>> /\ at' = [at EXCEPT ![t] = V!Loop(0)] /\ raceMain' # "end"
    BY <1>1 DEF V!Create
  <2>2. V!Made' = V!Made /\ (V!Stored' <=> V!Stored)
    BY <2>1 DEF V!Made, V!Stored
  <2>3. \A u \in V!Threads : V!ThreadInv(u)'
    BY <1>t, <1>i, <2>1, <2>2 DEF V!ThreadInv, V!Loop, V!TypeOK
  <2>4. Reps >= 2 => at'[t] # "done"
    BY <1>t, <2>1 DEF V!Loop, V!TypeOK
  <2> QED
    BY <1>t, <2>1, <2>2, <2>3, <2>4 DEF V!IndInv
<1>2. ASSUME NEW t \in V!Threads, V!Load(t) PROVE V!IndInv'
  <2>1. /\ UNCHANGED <<total, made, raceMain>> /\ at' = [at EXCEPT ![t] = "store"]
        /\ loaded' = [loaded EXCEPT ![t] = total] /\ at[t] = "load"
    BY <1>2 DEF V!Load
  <2>2. V!Made' = V!Made /\ (V!Stored' <=> V!Stored)
    BY <2>1 DEF V!Made, V!Stored
  <2>3. V!ThreadInv(t)'
    BY <1>t, <2>1, <2>2, SMTT(30) DEF V!IndInv, V!ThreadInv, V!TypeOK, V!Stored
  <2>4. ASSUME NEW u \in V!Threads, u # t PROVE V!ThreadInv(u)'
    BY <1>t, <1>i, <2>1, <2>2, <2>4, SMTT(30) DEF V!ThreadInv, V!TypeOK
  <2>5. at'[t] # "done" /\ raceMain' # "end"
    BY <1>t, <2>1 DEF V!IndInv, V!TypeOK
  <2> QED
    BY <1>t, <2>1, <2>2, <2>3, <2>4, <2>5 DEF V!IndInv
<1>3. ASSUME NEW t \in V!Threads, V!Store(t) PROVE V!IndInv'
  <2>1. /\ UNCHANGED <<loaded, raceMain>> /\ at' = [at EXCEPT ![t] = V!Loop(made[t] + 1)]
        /\ made' = [made EXCEPT ![t] = made[t] + 1] /\ total' = loaded[t] + 1 /\ at[t] = "store"
    BY <1>3 DEF V!Store
  <2>2. V!Made' = V!Made + 1 /\ V!Made \in Nat
    BY <1>t, <2>1 DEF V!Made, V!TypeOK
  <2>3. total' <= V!Made' /\ total' >= 1
    BY <1>t, <1>i, <2>1, <2>2 DEF V!ThreadInv, V!TypeOK
  <2>4. V!ThreadInv(t)'
    BY <1>t, <1>i, <2>1, <2>2 DEF V!ThreadInv, V!TypeOK, V!Loop
  <2>5. ASSUME NEW u \in V!Threads, u # t PROVE V!ThreadInv(u)'
    BY <1>t, <1>i, <2>1, <2>2, <2>5 DEF V!ThreadInv, V!TypeOK
  <2>6. Reps >= 2 /\ total' < 2 => at'[t] # "done"
    <3> SUFFICES ASSUME Reps >= 2, total' < 2 PROVE at'[t] # "done"
      OBVIOUS
    <3>1. made[t] = 0
      BY <1>t, <1>i, <2>1 DEF V!ThreadInv, V!TypeOK
    <3> QED
      BY <1>t, <2>1, <3>1 DEF V!Loop, V!TypeOK
  <2>7. raceMain' # "end"
    BY <1>t, <2>1 DEF V!IndInv, V!TypeOK
  <2> QED
    BY <1>t, <2>3, <2>4, <2>5, <2>6, <2>7 DEF V!IndInv
<1>4. CASE V!CreateFails
  BY <1>t, <1>4 DEF V!CreateFails, V!IndInv, V!ThreadInv, V!Made, V!Stored
<1>5. CASE V!Join
  BY <1>t, <1>5 DEF V!Join, V!IndInv, V!ThreadInv, V!Made, V!Stored
<1>6. CASE UNCHANGED raceVars
  BY <1>t, <1>6 DEF raceVars, V!IndInv, V!ThreadInv, V!Made, V!Stored
<1> QED
  BY <1>1, <1>2, <1>3, <1>4, <1>5, <1>6 DEF V!Next

(* At the end every thread has made its turns. *)
LEMMA RaceEnd == V!IndInv => V!RaceOutcome
<1> SUFFICES ASSUME V!IndInv PROVE V!RaceOutcome
  OBVIOUS
<1>1. ASSUME raceMain = "end" PROVE (Reps >= 1 => total >= 1) /\ (Reps >= 2 => total >= 2)
  <2>1. \A t \in V!Threads : at[t] = "done" /\ made[t] \in Nat /\ made[t] >= Reps
    BY <1>1 DEF V!IndInv, V!ThreadInv, V!TypeOK
  <2>2. Reps >= 1 => V!Stored
    BY <2>1, RepsAssumption DEF V!Stored, V!Threads
  <2> QED
    BY <2>1, <2>2, RepsAssumption DEF V!IndInv, V!TypeOK
<1> QED
  BY <1>1, RepsAssumption DEF V!IndInv, V!RaceOutcome, V!TypeOK

(* Whatever the interleaving of the four workers of visible_race.c and     *)
(* however often they increment, the total is never more than the          *)
(* increments made, and at the end at least two of them are left (one if   *)
(* each thread makes one).                                                 *)
THEOREM RaceSafety == V!Spec => [](V!RaceOutcome /\ RaceOutcome)
<1>1. V!Init => V!IndInv
  BY RaceInit
<1>2. V!IndInv /\ [V!Next]_(V!vars) => V!IndInv'
  BY RaceStep DEF V!vars, raceVars
<1>3. V!IndInv => V!RaceOutcome /\ RaceOutcome
  BY RaceEnd DEF RaceOutcome
<1> QED
  BY <1>1, <1>2, <1>3, PTL DEF V!Spec
=============================================================================
