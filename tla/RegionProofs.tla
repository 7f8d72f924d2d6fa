---------------------------- MODULE RegionProofs ----------------------------
(***************************************************************************)
(* Theorems about the region tables of mock1.c and mock1_rcu.c.  No table is*)
(* freed or missing under a reader, for any number of vCPUs, writers,      *)
(* regions and addresses (Rcu); the sorted table and the unsorted one give *)
(* the same verdicts and translations, for every range of addresses and    *)
(* every size of the tables (RegionTable).                                 *)
(***************************************************************************)
EXTENDS Rcu, RegionProgram, TLAPS

(* The state in which main starts the vCPUs satisfies the invariant. *)
LEMMA InitInv == Init => IndInv
<1> SUFFICES ASSUME Init PROVE IndInv
  OBVIOUS
<1> USE NReadersAssumption, Region0Assumption DEF Init
<1>1. TypeOK
  BY DEF TypeOK
<1>2. LockInv /\ LiveInv /\ AddInv
  BY DEF LockInv, LiveInv, AddInv, Second
<1>3. ReadersInv /\ GraceInv /\ HitsInv
  BY DEF ReadersInv, GraceInv, HitsInv, InSection
<1> QED
  BY <1>1, <1>2, <1>3 DEF IndInv

(* The steps of a vCPU keep the invariant: a table is loaded while it is   *)
(* the published one and while the reader's seq is visibly odd.            *)
LEMMA ReaderStep ==
  ASSUME IndInv, NEW r \in Readers, Reader(r) \/ Flush(r)
  PROVE  IndInv'
<1>1. CASE ReadBeginStore(r)
  <2> USE <1>1 DEF ReadBeginStore, tableVars, writerVars
  <2>1. TypeOK'
    BY DEF IndInv, TypeOK
  <2>2. LockInv' /\ LiveInv' /\ AddInv'
    BY DEF IndInv, LockInv, LiveInv, AddInv, Second
  <2>3. ReadersInv'
    BY DEF IndInv, TypeOK, ReadersInv
  <2>4. GraceInv'
    BY DEF IndInv, TypeOK, GraceInv, InSection, Awaits
  <2>5. HitsInv'
    BY DEF IndInv, TypeOK, HitsInv, InSection
  <2> QED
    BY <2>1, <2>2, <2>3, <2>4, <2>5 DEF IndInv
<1>2. CASE ReadBeginLoad(r)
  <2> USE <1>2 DEF ReadBeginLoad, tableVars, writerVars
  <2>1. TypeOK'
    BY DEF IndInv, TypeOK
  <2>2. LockInv' /\ LiveInv' /\ AddInv'
    BY DEF IndInv, LockInv, LiveInv, AddInv, Second
  <2>3. ReadersInv'
    BY DEF IndInv, TypeOK, ReadersInv
  <2>4. GraceInv'
    BY DEF IndInv, TypeOK, GraceInv, InSection, Awaits
  <2>5. HitsInv'
    BY DEF IndInv, TypeOK, HitsInv, InSection
  <2> QED
    BY <2>1, <2>2, <2>3, <2>4, <2>5 DEF IndInv
<1>3. ASSUME NEW g \in Regions, Lookup(r, g) PROVE IndInv'
  <2> USE <1>3 DEF Lookup, tableVars, writerVars
  <2>1. TypeOK'
    BY DEF IndInv, TypeOK
  <2>2. LockInv' /\ LiveInv' /\ AddInv'
    BY DEF IndInv, LockInv, LiveInv, AddInv, Second
  <2>3. ReadersInv'
    BY DEF IndInv, TypeOK, ReadersInv
  <2>4. GraceInv'
    BY DEF IndInv, TypeOK, GraceInv, InSection, Awaits
  <2>5. contents[tbl[r]] \subseteq contents[current]
    BY DEF IndInv, AddInv, GraceInv, InSection, Awaits
  <2>6. HitsInv'
    BY <2>5 DEF IndInv, TypeOK, HitsInv, InSection
  <2> QED
    BY <2>1, <2>2, <2>3, <2>4, <2>6 DEF IndInv
<1>4. CASE ReadEnd(r)
  <2> USE <1>4 DEF ReadEnd, tableVars, writerVars
  <2>1. TypeOK'
    BY DEF IndInv, TypeOK
  <2>2. LockInv' /\ LiveInv' /\ AddInv'
    BY DEF IndInv, LockInv, LiveInv, AddInv, Second
  <2>3. ReadersInv'
    BY DEF IndInv, TypeOK, ReadersInv
  <2>4. GraceInv'
    BY DEF IndInv, TypeOK, GraceInv, InSection, Awaits
  <2>5. HitsInv'
    BY DEF IndInv, TypeOK, HitsInv, InSection
  <2> QED
    BY <2>1, <2>2, <2>3, <2>4, <2>5 DEF IndInv
<1>5. CASE VcpuStops(r)
  <2> USE <1>5 DEF VcpuStops, tableVars, writerVars
  <2>1. TypeOK'
    BY DEF IndInv, TypeOK
  <2>2. LockInv' /\ LiveInv' /\ AddInv'
    BY DEF IndInv, LockInv, LiveInv, AddInv, Second
  <2>3. ReadersInv'
    BY DEF IndInv, TypeOK, ReadersInv
  <2>4. GraceInv'
    BY DEF IndInv, TypeOK, GraceInv, InSection, Awaits
  <2>5. HitsInv'
    BY DEF IndInv, TypeOK, HitsInv, InSection
  <2> QED
    BY <2>1, <2>2, <2>3, <2>4, <2>5 DEF IndInv
<1>6. CASE Flush(r)
  <2> USE <1>6 DEF Flush, tableVars, writerVars
  <2>1. TypeOK'
    BY DEF IndInv, TypeOK
  <2>2. LockInv' /\ LiveInv' /\ AddInv'
    BY DEF IndInv, LockInv, LiveInv, AddInv, Second
  <2>3. ReadersInv'
    BY DEF IndInv, TypeOK, ReadersInv
  <2>4. GraceInv'
    BY DEF IndInv, TypeOK, ReadersInv, GraceInv, InSection, Awaits
  <2>5. HitsInv'
    BY DEF IndInv, TypeOK, HitsInv, InSection
  <2> QED
    BY <2>1, <2>2, <2>3, <2>4, <2>5 DEF IndInv
<1> QED
  BY <1>1, <1>2, <1>3, <1>4, <1>5, <1>6 DEF Reader

(* The steps of region_add keep the invariant: it frees the replaced table *)
(* only when it has waited for every reader that could hold it.            *)
LEMMA WriterStep ==
  ASSUME IndInv, NEW w \in Writers, Adding(w) \/ \E g \in Regions : AddLock(w, g)
  PROVE  IndInv'
<1>1. mainPc = "run" /\ \A v \in Writers \ {w} : wpc[v] = "idle"
  <2>1. CASE lock = {}
    BY <2>1 DEF IndInv, LockInv, Adding, AddLock, AddFails, AddBuild, AddPublish,
         WaitLoadEven, WaitLoadOdd, WaitSpin, AddFree, AddUnlock
  <2>2. CASE lock # {}
    <3>1. w \in lock
      BY <2>2 DEF IndInv, LockInv, Adding, AddLock, AddFails, AddBuild, AddPublish,
           WaitLoadEven, WaitLoadOdd, WaitSpin, AddFree, AddUnlock
    <3> QED
      BY <3>1 DEF IndInv, TypeOK, LockInv
  <2> QED
    BY <2>1, <2>2
<1>2. \A a \in Addrs : a \in live <=> a = current \/ Second(w, a)
  BY <1>1 DEF IndInv, LiveInv, Second
<1>3. \A r \in Readers : InSection(r) =>
        tbl[r] = current \/ (Awaits(w, r) /\ tbl[r] = old[w])
  BY <1>1 DEF IndInv, GraceInv, Awaits
<1>4. ASSUME NEW g \in Regions, AddLock(w, g) PROVE IndInv'
  <2> USE <1>1, <1>4 DEF AddLock, tableVars, readerVars
  <2>1. TypeOK'
    BY NReadersAssumption, Region0Assumption DEF IndInv, TypeOK, AddInv
  <2>2. LockInv'
    BY DEF IndInv, TypeOK, LockInv
  <2>3. LiveInv'
    <3>1. \A v \in Writers \ {w} : wpc'[v] = "idle"
      BY DEF IndInv, TypeOK
    <3>2. \A a \in Addrs : a \in live' <=> a = current' \/ Second(w, a)'
      BY <1>2 DEF IndInv, TypeOK, AddInv, Second
    <3> QED
      BY <3>1, <3>2 DEF LiveInv, Second
  <2>4. AddInv'
    BY <1>2 DEF IndInv, TypeOK, AddInv
  <2>5. ReadersInv'
    BY DEF IndInv, TypeOK, ReadersInv
  <2>6. GraceInv'
    <3> SUFFICES ASSUME NEW r \in Readers, InSection(r)'
                 PROVE  tbl'[r] = current' \/ (Awaits(w, r)' /\ tbl'[r] = old'[w])
      BY DEF GraceInv
    <3> QED
      BY <1>3 DEF IndInv, TypeOK, ReadersInv, AddInv, InSection, Awaits, Readers
  <2>7. HitsInv'
    BY <1>2 DEF IndInv, TypeOK, AddInv, HitsInv, InSection
  <2> QED
    BY <2>1, <2>2, <2>3, <2>4, <2>5, <2>6, <2>7 DEF IndInv
<1>5. CASE AddFails(w)
  <2> USE <1>1, <1>5 DEF AddFails, tableVars, readerVars
  <2>1. TypeOK'
    BY NReadersAssumption, Region0Assumption DEF IndInv, TypeOK, AddInv
  <2>2. LockInv'
    BY DEF IndInv, TypeOK, LockInv
  <2>3. LiveInv'
    <3>1. \A v \in Writers \ {w} : wpc'[v] = "idle"
      BY DEF IndInv, TypeOK
    <3>2. \A a \in Addrs : a \in live' <=> a = current' \/ Second(w, a)'
      BY <1>2 DEF IndInv, TypeOK, AddInv, Second
    <3> QED
      BY <3>1, <3>2 DEF LiveInv, Second
  <2>4. AddInv'
    BY <1>2 DEF IndInv, TypeOK, AddInv
  <2>5. ReadersInv'
    BY DEF IndInv, TypeOK, ReadersInv
  <2>6. GraceInv'
    <3> SUFFICES ASSUME NEW r \in Readers, InSection(r)'
                 PROVE  tbl'[r] = current' \/ (Awaits(w, r)' /\ tbl'[r] = old'[w])
      BY DEF GraceInv
    <3> QED
      BY <1>3 DEF IndInv, TypeOK, ReadersInv, AddInv, InSection, Awaits, Readers
  <2>7. HitsInv'
    BY <1>2 DEF IndInv, TypeOK, AddInv, HitsInv, InSection
  <2> QED
    BY <2>1, <2>2, <2>3, <2>4, <2>5, <2>6, <2>7 DEF IndInv
<1>6. CASE AddBuild(w)
  <2> USE <1>1, <1>6 DEF AddBuild, tableVars, readerVars
  <2>1. TypeOK'
    BY NReadersAssumption, Region0Assumption DEF IndInv, TypeOK, AddInv
  <2>2. LockInv'
    BY DEF IndInv, TypeOK, LockInv
  <2>3. LiveInv'
    <3>1. \A v \in Writers \ {w} : wpc'[v] = "idle"
      BY DEF IndInv, TypeOK
    <3>2. \A a \in Addrs : a \in live' <=> a = current' \/ Second(w, a)'
      BY <1>2 DEF IndInv, TypeOK, AddInv, Second
    <3> QED
      BY <3>1, <3>2 DEF LiveInv, Second
  <2>4. AddInv'
    BY <1>2 DEF IndInv, TypeOK, AddInv
  <2>5. ReadersInv'
    BY DEF IndInv, TypeOK, ReadersInv
  <2>6. GraceInv'
    <3> SUFFICES ASSUME NEW r \in Readers, InSection(r)'
                 PROVE  tbl'[r] = current' \/ (Awaits(w, r)' /\ tbl'[r] = old'[w])
      BY DEF GraceInv
    <3> QED
      BY <1>3 DEF IndInv, TypeOK, ReadersInv, AddInv, InSection, Awaits, Readers
  <2>7. HitsInv'
    BY <1>2 DEF IndInv, TypeOK, AddInv, HitsInv, InSection
  <2> QED
    BY <2>1, <2>2, <2>3, <2>4, <2>5, <2>6, <2>7 DEF IndInv
<1>7. CASE AddPublish(w)
  <2> USE <1>1, <1>7 DEF AddPublish, tableVars, readerVars
  <2>1. TypeOK'
    BY NReadersAssumption, Region0Assumption DEF IndInv, TypeOK, AddInv
  <2>2. LockInv'
    BY DEF IndInv, TypeOK, LockInv
  <2>3. LiveInv'
    <3>1. \A v \in Writers \ {w} : wpc'[v] = "idle"
      BY DEF IndInv, TypeOK
    <3>2. \A a \in Addrs : a \in live' <=> a = current' \/ Second(w, a)'
      BY <1>2 DEF IndInv, TypeOK, AddInv, Second
    <3> QED
      BY <3>1, <3>2 DEF LiveInv, Second
  <2>4. AddInv'
    BY <1>2 DEF IndInv, TypeOK, AddInv
  <2>5. ReadersInv'
    BY DEF IndInv, TypeOK, ReadersInv
  <2>6. GraceInv'
    <3> SUFFICES ASSUME NEW r \in Readers, InSection(r)'
                 PROVE  tbl'[r] = current' \/ (Awaits(w, r)' /\ tbl'[r] = old'[w])
      BY DEF GraceInv
    <3> QED
      BY <1>3 DEF IndInv, TypeOK, ReadersInv, AddInv, InSection, Awaits, Readers
  <2>7. HitsInv'
    BY <1>2 DEF IndInv, TypeOK, AddInv, HitsInv, InSection
  <2> QED
    BY <2>1, <2>2, <2>3, <2>4, <2>5, <2>6, <2>7 DEF IndInv
<1>8. CASE WaitLoadEven(w)
  <2> USE <1>1, <1>8 DEF WaitLoadEven, tableVars, readerVars
  <2>1. TypeOK'
    BY NReadersAssumption, Region0Assumption DEF IndInv, TypeOK, AddInv
  <2>2. LockInv'
    BY DEF IndInv, TypeOK, LockInv
  <2>3. LiveInv'
    <3>1. \A v \in Writers \ {w} : wpc'[v] = "idle"
      BY DEF IndInv, TypeOK
    <3>2. \A a \in Addrs : a \in live' <=> a = current' \/ Second(w, a)'
      BY <1>2 DEF IndInv, TypeOK, AddInv, Second
    <3> QED
      BY <3>1, <3>2 DEF LiveInv, Second
  <2>4. AddInv'
    BY <1>2 DEF IndInv, TypeOK, AddInv
  <2>5. ReadersInv'
    BY DEF IndInv, TypeOK, ReadersInv
  <2>6. GraceInv'
    <3> SUFFICES ASSUME NEW r \in Readers, InSection(r)'
                 PROVE  tbl'[r] = current' \/ (Awaits(w, r)' /\ tbl'[r] = old'[w])
      BY DEF GraceInv
    <3> QED
      BY <1>3 DEF IndInv, TypeOK, ReadersInv, AddInv, InSection, Awaits, Readers
  <2>7. HitsInv'
    BY <1>2 DEF IndInv, TypeOK, AddInv, HitsInv, InSection
  <2> QED
    BY <2>1, <2>2, <2>3, <2>4, <2>5, <2>6, <2>7 DEF IndInv
<1>9. CASE WaitLoadOdd(w)
  <2> USE <1>1, <1>9 DEF WaitLoadOdd, tableVars, readerVars
  <2>1. TypeOK'
    BY NReadersAssumption, Region0Assumption DEF IndInv, TypeOK, AddInv
  <2>2. LockInv'
    BY DEF IndInv, TypeOK, LockInv
  <2>3. LiveInv'
    <3>1. \A v \in Writers \ {w} : wpc'[v] = "idle"
      BY DEF IndInv, TypeOK
    <3>2. \A a \in Addrs : a \in live' <=> a = current' \/ Second(w, a)'
      BY <1>2 DEF IndInv, TypeOK, AddInv, Second
    <3> QED
      BY <3>1, <3>2 DEF LiveInv, Second
  <2>4. AddInv'
    BY <1>2 DEF IndInv, TypeOK, AddInv
  <2>5. ReadersInv'
    BY DEF IndInv, TypeOK, ReadersInv
  <2>6. GraceInv'
    <3> SUFFICES ASSUME NEW r \in Readers, InSection(r)'
                 PROVE  tbl'[r] = current' \/ (Awaits(w, r)' /\ tbl'[r] = old'[w])
      BY DEF GraceInv
    <3> QED
      BY <1>3, SMTT(30) DEF IndInv, TypeOK, ReadersInv, AddInv, InSection, Awaits, Readers
  <2>7. HitsInv'
    BY <1>2 DEF IndInv, TypeOK, AddInv, HitsInv, InSection
  <2> QED
    BY <2>1, <2>2, <2>3, <2>4, <2>5, <2>6, <2>7 DEF IndInv
<1>10. CASE WaitSpin(w)
  <2> USE <1>1, <1>10 DEF WaitSpin, tableVars, readerVars
  <2>1. TypeOK'
    BY NReadersAssumption, Region0Assumption DEF IndInv, TypeOK, AddInv
  <2>2. LockInv'
    BY DEF IndInv, TypeOK, LockInv
  <2>3. LiveInv'
    <3>1. \A v \in Writers \ {w} : wpc'[v] = "idle"
      BY DEF IndInv, TypeOK
    <3>2. \A a \in Addrs : a \in live' <=> a = current' \/ Second(w, a)'
      BY <1>2 DEF IndInv, TypeOK, AddInv, Second
    <3> QED
      BY <3>1, <3>2 DEF LiveInv, Second
  <2>4. AddInv'
    BY <1>2 DEF IndInv, TypeOK, AddInv
  <2>5. ReadersInv'
    BY DEF IndInv, TypeOK, ReadersInv
  <2>6. GraceInv'
    <3> SUFFICES ASSUME NEW r \in Readers, InSection(r)'
                 PROVE  tbl'[r] = current' \/ (Awaits(w, r)' /\ tbl'[r] = old'[w])
      BY DEF GraceInv
    <3> QED
      BY <1>3, SMTT(30) DEF IndInv, TypeOK, ReadersInv, AddInv, InSection, Awaits, Readers
  <2>7. HitsInv'
    BY <1>2 DEF IndInv, TypeOK, AddInv, HitsInv, InSection
  <2> QED
    BY <2>1, <2>2, <2>3, <2>4, <2>5, <2>6, <2>7 DEF IndInv
<1>11. CASE AddFree(w)
  <2> USE <1>1, <1>11 DEF AddFree, tableVars, readerVars
  <2>1. TypeOK'
    BY NReadersAssumption, Region0Assumption DEF IndInv, TypeOK, AddInv
  <2>2. LockInv'
    BY DEF IndInv, TypeOK, LockInv
  <2>3. LiveInv'
    <3>1. \A v \in Writers \ {w} : wpc'[v] = "idle"
      BY DEF IndInv, TypeOK
    <3>2. \A a \in Addrs : a \in live' <=> a = current' \/ Second(w, a)'
      BY <1>2 DEF IndInv, TypeOK, AddInv, Second
    <3> QED
      BY <3>1, <3>2 DEF LiveInv, Second
  <2>4. AddInv'
    BY <1>2 DEF IndInv, TypeOK, AddInv
  <2>5. ReadersInv'
    BY DEF IndInv, TypeOK, ReadersInv
  <2>6. GraceInv'
    <3> SUFFICES ASSUME NEW r \in Readers, InSection(r)'
                 PROVE  tbl'[r] = current' \/ (Awaits(w, r)' /\ tbl'[r] = old'[w])
      BY DEF GraceInv
    <3> QED
      BY <1>3, SMTT(30) DEF IndInv, TypeOK, ReadersInv, AddInv, InSection, Awaits, Readers
  <2>7. HitsInv'
    BY <1>2 DEF IndInv, TypeOK, AddInv, HitsInv, InSection
  <2> QED
    BY <2>1, <2>2, <2>3, <2>4, <2>5, <2>6, <2>7 DEF IndInv
<1>12. CASE AddUnlock(w)
  <2> USE <1>1, <1>12 DEF AddUnlock, tableVars, readerVars
  <2>1. TypeOK'
    BY NReadersAssumption, Region0Assumption DEF IndInv, TypeOK, AddInv
  <2>2. LockInv'
    BY DEF IndInv, TypeOK, LockInv
  <2>3. LiveInv'
    <3>1. \A v \in Writers \ {w} : wpc'[v] = "idle"
      BY DEF IndInv, TypeOK
    <3>2. \A a \in Addrs : a \in live' <=> a = current' \/ Second(w, a)'
      BY <1>2 DEF IndInv, TypeOK, AddInv, Second
    <3> QED
      BY <3>1, <3>2 DEF LiveInv, Second
  <2>4. AddInv'
    BY <1>2 DEF IndInv, TypeOK, AddInv
  <2>5. ReadersInv'
    BY SMTT(30) DEF IndInv, TypeOK, ReadersInv
  <2>6. GraceInv'
    <3> SUFFICES ASSUME NEW r \in Readers, InSection(r)'
                 PROVE  tbl'[r] = current' \/ (Awaits(w, r)' /\ tbl'[r] = old'[w])
      BY DEF GraceInv
    <3> QED
      BY <1>3 DEF IndInv, TypeOK, ReadersInv, AddInv, InSection, Awaits, Readers
  <2>7. HitsInv'
    BY <1>2 DEF IndInv, TypeOK, AddInv, HitsInv, InSection
  <2> QED
    BY <2>1, <2>2, <2>3, <2>4, <2>5, <2>6, <2>7 DEF IndInv
<1> QED
  BY <1>4, <1>5, <1>6, <1>7, <1>8, <1>9, <1>10, <1>11, <1>12 DEF Adding

(* Every step of the program keeps the invariant. *)
LEMMA NextInv == IndInv /\ [Next]_vars => IndInv'
<1> SUFFICES ASSUME IndInv, [Next]_vars PROVE IndInv'
  OBVIOUS
<1>1. CASE MainStop
  <2> USE <1>1 DEF MainStop, tableVars, writerVars, readerVars
  <2>1. TypeOK' /\ LockInv' /\ LiveInv' /\ AddInv'
    BY SMTT(30) DEF IndInv, TypeOK, LockInv, LiveInv, AddInv, Second
  <2>2. ReadersInv' /\ GraceInv' /\ HitsInv'
    BY DEF IndInv, ReadersInv, GraceInv, HitsInv, InSection, Awaits
  <2> QED
    BY <2>1, <2>2, SMTT(30) DEF IndInv
<1>2. CASE MainEnd
  <2> USE <1>2 DEF MainEnd, writerVars, readerVars
  <2>1. TypeOK' /\ LockInv' /\ AddInv'
    BY DEF IndInv, TypeOK, LockInv, AddInv
  <2>2. LiveInv'
    BY DEF IndInv, TypeOK, LockInv, LiveInv, Second
  <2>3. ReadersInv' /\ GraceInv' /\ HitsInv'
    BY DEF IndInv, ReadersInv, GraceInv, HitsInv, InSection, Awaits
  <2> QED
    BY <2>1, <2>2, <2>3 DEF IndInv
<1>3. CASE UNCHANGED vars
  <2> USE <1>3 DEF vars, tableVars, writerVars, readerVars
  <2>1. TypeOK' /\ LockInv' /\ LiveInv' /\ AddInv'
    BY DEF IndInv, TypeOK, LockInv, LiveInv, AddInv, Second
  <2>2. ReadersInv' /\ GraceInv' /\ HitsInv'
    BY DEF IndInv, ReadersInv, GraceInv, HitsInv, InSection, Awaits
  <2> QED
    BY <2>1, <2>2 DEF IndInv
<1> QED
  BY <1>1, <1>2, <1>3, ReaderStep, WriterStep DEF Next

(* The invariant holds in every state of the program. *)
THEOREM Invariance == Spec => []IndInv
<1> QED
  BY InitInv, NextInv, PTL DEF Spec

-----------------------------------------------------------------------------
(* What a reader holds is allocated: its table is the published one or the *)
(* one that the region_add under way has not freed.                        *)
LEMMA HeldIsLive == IndInv => NoUseAfterFree
<1> SUFFICES ASSUME IndInv, NEW r \in Readers, InSection(r) PROVE tbl[r] \in live
  BY DEF NoUseAfterFree
<1>1. mainPc # "end"
  BY DEF IndInv, ReadersInv, InSection
<1>2. CASE tbl[r] = current
  BY <1>1, <1>2 DEF IndInv, TypeOK, LiveInv
<1>3. ASSUME NEW w \in Writers, Awaits(w, r), tbl[r] = old[w] PROVE tbl[r] \in live
  BY <1>1, <1>3 DEF IndInv, AddInv, LiveInv, Second, Awaits
<1> QED
  BY <1>2, <1>3 DEF IndInv, GraceInv

(* wait_for_readers is a grace period: region_add frees no table that a    *)
(* vCPU still reads, for any number of vCPUs and writers.                  *)
THEOREM GracePeriod == Spec => []NoUseAfterFree
<1> QED
  BY Invariance, HeldIsLive, PTL

(* No vCPU ever loses a region it has once translated through.             *)
THEOREM Monotonicity == Spec => []MonotoneReads
<1>1. IndInv => MonotoneReads
  BY DEF IndInv, HitsInv, MonotoneReads
<1> QED
  BY <1>1, Invariance, PTL

(* region_add and main leak no table. *)
THEOREM LeakFreedom == Spec => []NoTableLeaks
<1>1. IndInv => NoTableLeaks
  <2> SUFFICES ASSUME IndInv PROVE NoTableLeaks
    OBVIOUS
  <2>1. mainPc = "end" => live = {}
    BY DEF IndInv, TypeOK, LiveInv
  <2>2. ASSUME mainPc # "end", NEW a \in live, a # current
        PROVE  \E w \in Writers : wpc[w] \in {"publish", "wait", "spin"} /\ a \in {old[w], new[w]}
    BY <2>2 DEF IndInv, TypeOK, LiveInv, Second
  <2> QED
    BY <2>1, <2>2 DEF NoTableLeaks
<1> QED
  BY <1>1, Invariance, PTL

(* A table that is published or that a vCPU reads is never written to:     *)
(* region_add fills only memory that malloc has just returned.             *)
THEOREM Immutability == Spec => PublishedImmutable
<1> DEFINE Held(a) == a = current \/ \E r \in Readers : InSection(r) /\ tbl[r] = a
<1>1. ASSUME IndInv, [Next]_vars, NEW a \in Addrs, Held(a)
      PROVE  contents'[a] = contents[a]
  <2>1. CASE UNCHANGED contents
    BY <2>1
  <2>2. ASSUME NEW w \in Writers, AddBuild(w) PROVE contents'[a] = contents[a]
    <3>1. mainPc # "end"
      BY <1>1, <2>2 DEF IndInv, TypeOK, LockInv, AddBuild
    <3>2. a \in live
      BY <1>1, <3>1, HeldIsLive DEF NoUseAfterFree, IndInv, LiveInv
    <3> QED
      BY <1>1, <2>2, <3>2 DEF IndInv, TypeOK, AddBuild
  <2> QED
    BY <1>1, <2>1, <2>2 DEF Next, Reader, Adding, Flush, ReadBeginStore, ReadBeginLoad,
         ReadEnd, VcpuStops, Lookup, AddLock, AddFails, AddPublish, WaitLoadEven,
         WaitLoadOdd, WaitSpin, AddFree, AddUnlock, MainStop, MainEnd, vars, tableVars
<1>2. IndInv /\ [Next]_vars =>
        [\A a \in Addrs : Held(a) => contents'[a] = contents[a]]_vars
  BY <1>1
<1> QED
  BY <1>2, Invariance, PTL DEF Spec, PublishedImmutable

(* The elements of a sequence over S *)
LEMMA ElementsIn ==
  ASSUME NEW S, NEW s \in Seq(S)
  PROVE  Len(s) \in Nat /\ \A j \in 1..Len(s) : s[j] \in S
OBVIOUS

(***************************************************************************)
(* RegionTable                                                             *)
(***************************************************************************)
LEMMA RegionFields ==
  \A r \in T!Region : r.start \in 0..UMax /\ r.size \in 0..UMax /\ r.hva \in 0..UMax
BY RegionAssumption DEF T!Region, T!Addrs

(* Unsigned sums and differences that stay in range are the numbers. *)
LEMMA SmallMod == \A a \in Int, d \in Nat \ {0} : 0 <= a /\ a < d => (a % d) = a
OBVIOUS

LEMMA AddExact == \A a, b \in Nat : a + b <= UMax => T!Add(a, b) = a + b
BY SmallMod, RegionAssumption DEF T!Add

LEMMA SubExact == \A a, b \in 0..UMax : b <= a => T!Sub(a, b) = a - b
BY SmallMod, RegionAssumption DEF T!Sub

(* What the first two checks of region_add establish *)
LEMMA CheckedFits == \A r \in T!Region : ~T!BadSize(r) /\ ~T!Wraps(r) => T!Fits(r)
<1> TAKE r \in T!Region
<1>1. r.start \in 0..UMax /\ r.size \in 0..UMax /\ r.hva \in 0..UMax
  BY RegionFields
<1>2. T!Sub(UMax, r.size) = UMax - r.size
  BY <1>1, SubExact, RegionAssumption
<1> QED
  BY <1>1, <1>2, RegionAssumption DEF T!BadSize, T!Wraps, T!Fits

LEMMA EndExact == \A r \in T!Region : T!Fits(r) => T!End(r) = r.start + r.size
<1> TAKE r \in T!Region
<1>1. r.start \in Nat /\ r.size \in Nat
  BY RegionFields, RegionAssumption
<1> QED
  BY <1>1, AddExact DEF T!Fits, T!End

(* The comparison of mock1.c finds exactly the regions that share an       *)
(* address.                                                                *)
LEMMA OverlapsExact ==
  \A r, q \in T!Region :
    T!Fits(r) /\ T!Fits(q) => (T!Overlaps(r, q) <=> ~T!Below(q, r) /\ ~T!Below(r, q))
<1> TAKE r, q \in T!Region
<1> HAVE T!Fits(r) /\ T!Fits(q)
<1>1. T!End(r) = r.start + r.size /\ T!End(q) = q.start + q.size
  BY EndExact
<1>2. r.start \in Nat /\ r.size \in Nat /\ q.start \in Nat /\ q.size \in Nat
  BY RegionFields, RegionAssumption
<1> QED
  BY <1>1, <1>2 DEF T!Overlaps, T!Below

(* The two tables hold the same regions, and each of them was checked. *)
LEMMA SameMembers ==
  ASSUME T!IndInv
  PROVE  /\ \A n \in 1..Len(table) : \E m \in 1..Len(regions) : table[n] = regions[m]
         /\ \A m \in 1..Len(regions) : \E n \in 1..Len(table) : table[n] = regions[m]
<1>1. \A n \in 1..Len(table) : table[n] \in T!Holding(table)
  BY DEF T!Holding
<1>2. \A m \in 1..Len(regions) : regions[m] \in T!Holding(regions)
  BY DEF T!Holding
<1>3. T!Holding(regions) = T!Holding(table)
  BY DEF T!IndInv
<1>4. \A n \in 1..Len(table) : table[n] \in T!Holding(regions)
  BY <1>1, <1>3
<1>5. \A m \in 1..Len(regions) : regions[m] \in T!Holding(table)
  BY <1>2, <1>3
<1> QED
  BY <1>4, <1>5, Zenon DEF T!Holding

LEMMA TableFits ==
  ASSUME T!IndInv
  PROVE  /\ \A n \in 1..Len(table) : table[n] \in T!Region /\ T!Fits(table[n])
         /\ \A n \in 1..Len(regions) : regions[n] \in T!Region /\ T!Fits(regions[n])
<1>1. \A n \in 1..Len(regions) : regions[n] \in T!Region /\ T!Fits(regions[n])
  BY ElementsIn, Zenon DEF T!IndInv, T!TypeOK
<1> QED
  BY <1>1, SameMembers, Zenon

LEMMA BelowTransitive ==
  \A r, q, s \in T!Region : T!Below(r, q) /\ T!Below(q, s) => T!Below(r, s)
<1> TAKE r, q, s \in T!Region
<1>1. r.start \in Nat /\ r.size \in Nat /\ q.start \in Nat /\ q.size \in Nat /\ s.start \in Nat
  BY RegionFields, RegionAssumption
<1> QED
  BY <1>1 DEF T!Below

(* A region that overlaps neither neighbour lies between them, clear of    *)
(* all the others.                                                         *)
LEMMA ClearOfNeighbours ==
  ASSUME T!IndInv, NEW add \in T!Region, T!Fits(add), NEW p \in 0..Len(table),
         T!Before(p, add), ~T!NeighbourOverlaps(p, add)
  PROVE  /\ \A m \in 1..p : T!Below(table[m], add)
         /\ \A m \in (p + 1)..Len(table) : T!Below(add, table[m])
<1>0. PICK z \in Nat : z = Len(table)
  BY ElementsIn, Zenon DEF T!IndInv, T!TypeOK
<1>1. \A n \in 1..z : table[n] \in T!Region /\ T!Fits(table[n]) /\ T!End(table[n]) = table[n].start + table[n].size
  BY <1>0, TableFits, EndExact, Zenon
<1>2. T!End(add) = add.start + add.size
  BY EndExact
<1>3. add.start \in Nat /\ add.size \in Nat
  BY RegionFields, RegionAssumption
<1>4. \A n \in 1..z : table[n].start \in Nat /\ table[n].size \in Nat
  BY <1>1, RegionFields, RegionAssumption
<1>5. \A m, n \in 1..z : m < n => T!Below(table[m], table[n])
  BY <1>0, SMTT(30) DEF T!IndInv, T!Sorted
<1>6. p > 0 => T!Below(table[p], add)
  BY <1>0, <1>1, <1>3, <1>4 DEF T!NeighbourOverlaps, T!LeftOverlaps, T!Below
<1>7. p < z => T!Below(add, table[p + 1])
  BY <1>0, <1>2, <1>3, <1>4 DEF T!NeighbourOverlaps, T!RightOverlaps, T!Below
<1>8. ASSUME NEW m \in 1..p PROVE T!Below(table[m], add)
  <2>1. m = p \/ (m \in 1..z /\ p \in 1..z /\ m < p)
    BY <1>0
  <2>2. p > 0
    OBVIOUS
  <2> QED
    BY <1>1, <1>5, <1>6, <2>1, <2>2, BelowTransitive, Zenon
<1>9. ASSUME NEW m \in (p + 1)..z PROVE T!Below(add, table[m])
  <2>1. m = p + 1 \/ (m \in 1..z /\ p + 1 \in 1..z /\ p + 1 < m)
    BY <1>0
  <2>2. p < z
    BY <1>0
  <2> QED
    BY <1>1, <1>5, <1>7, <2>1, <2>2, BelowTransitive, Zenon
<1> QED
  BY <1>0, <1>8, <1>9

(* A neighbour that overlaps is one of the regions that do. *)
LEMMA NeighbourIsOne ==
  ASSUME T!IndInv, NEW add \in T!Region, T!Fits(add), NEW p \in 0..Len(table),
         T!Before(p, add), T!NeighbourOverlaps(p, add)
  PROVE  \E n \in 1..Len(table) : ~T!Below(table[n], add) /\ ~T!Below(add, table[n])
<1>0. PICK z \in Nat : z = Len(table)
  BY ElementsIn, Zenon DEF T!IndInv, T!TypeOK
<1>1. \A n \in 1..z : table[n] \in T!Region /\ T!Fits(table[n]) /\ T!End(table[n]) = table[n].start + table[n].size
  BY <1>0, TableFits, EndExact, Zenon
<1>2. T!End(add) = add.start + add.size
  BY EndExact
<1>3. add.start \in Nat /\ add.size \in Nat /\ add.size > 0
  BY RegionFields, RegionAssumption DEF T!Fits
<1>4. \A n \in 1..z : table[n].start \in Nat /\ table[n].size \in Nat /\ table[n].size > 0
  BY <1>1, RegionFields, RegionAssumption DEF T!Fits
<1>5. CASE T!LeftOverlaps(p, add)
  <2>1. p \in 1..z /\ T!End(table[p]) > add.start /\ table[p].start < add.start
    BY <1>0, <1>5 DEF T!LeftOverlaps, T!Before
  <2>2. ~T!Below(table[p], add) /\ ~T!Below(add, table[p])
    BY <1>1, <1>3, <1>4, <2>1 DEF T!Below
  <2> QED
    BY <1>0, <2>1, <2>2
<1>6. CASE T!RightOverlaps(p, add)
  <2>1. p + 1 \in 1..z /\ table[p + 1].start < T!End(add) /\ table[p + 1].start >= add.start
    BY <1>0, <1>6 DEF T!RightOverlaps, T!Before
  <2>2. ~T!Below(table[p + 1], add) /\ ~T!Below(add, table[p + 1])
    BY <1>2, <1>3, <1>4, <2>1 DEF T!Below
  <2> QED
    BY <1>0, <2>1, <2>2
<1> QED
  BY <1>5, <1>6 DEF T!NeighbourOverlaps

(* Both region_adds return the same for every region there is. *)
LEMMA VerdictsAgree ==
  ASSUME T!IndInv, NEW add \in T!Region, NEW p \in 0..Len(table), T!Before(p, add)
  PROVE  T!LinearCode(add) = T!SortedCode(p, add)
<1>1. Len(regions) = Len(table)
  BY DEF T!IndInv
<1>2. CASE T!BadSize(add) \/ T!Wraps(add)
  BY <1>2, Zenon DEF T!LinearCode, T!SortedCode
<1>3. CASE ~T!BadSize(add) /\ ~T!Wraps(add)
  <2>1. T!Fits(add)
    BY <1>3, CheckedFits, SMTT(30)
  <2>2. ASSUME NEW m \in 1..Len(regions), T!Overlaps(regions[m], add), ~T!NeighbourOverlaps(p, add)
        PROVE  FALSE
    <3>1. regions[m] \in T!Region /\ T!Fits(regions[m])
      BY TableFits
    <3>2. ~T!Below(regions[m], add) /\ ~T!Below(add, regions[m])
      BY <2>1, <2>2, <3>1, OverlapsExact
    <3>3. PICK n \in 1..Len(table) : table[n] = regions[m]
      BY SameMembers
    <3>4. Len(table) \in Nat
      BY ElementsIn, Zenon DEF T!IndInv, T!TypeOK
    <3>5. n \in 1..p \/ n \in (p + 1)..Len(table)
      BY <3>4
    <3> QED
      BY <2>1, <2>2, <3>2, <3>3, <3>5, ClearOfNeighbours
  <2>3. ASSUME T!NeighbourOverlaps(p, add)
        PROVE  \E m \in 1..Len(regions) : T!Overlaps(regions[m], add)
    <3>1. PICK n \in 1..Len(table) : ~T!Below(table[n], add) /\ ~T!Below(add, table[n])
      BY <2>1, <2>3, NeighbourIsOne, SMTT(30)
    <3>2. PICK m \in 1..Len(regions) : table[n] = regions[m]
      BY SameMembers, SMTT(30)
    <3>3. T!Overlaps(regions[m], add)
      BY <2>1, <3>1, <3>2, TableFits, OverlapsExact
    <3> QED
      BY <3>3
  <2>4. DOMAIN regions = 1..Len(regions)
    BY DEF T!IndInv, T!TypeOK
  <2>5. (\E m \in DOMAIN regions : T!Overlaps(regions[m], add)) <=> T!NeighbourOverlaps(p, add)
    BY <2>2, <2>3, <2>4, Zenon
  <2> QED
    BY <1>1, <1>3, <2>5, Zenon DEF T!LinearCode, T!SortedCode
<1> QED
  BY <1>2, <1>3

LEMMA RegionInit == T!Init => T!IndInv
BY DEF T!Init, T!IndInv, T!TypeOK, T!Holding, T!Sorted, T!NoSearch

(* A region that is accepted is put in its place. *)
LEMMA InsertionSorted ==
  ASSUME T!IndInv, NEW add \in T!Region, T!Fits(add), NEW p \in 0..Len(table),
         T!Before(p, add), ~T!NeighbourOverlaps(p, add), table' = T!Inserted(p, add)
  PROVE  /\ table' \in Seq(T!Region) /\ Len(table') = Len(table) + 1
         /\ T!Sorted' /\ T!Holding(table)' = T!Holding(table) \cup {add}
<1>0. PICK z \in Nat : z = Len(table)
  BY ElementsIn, Zenon DEF T!IndInv, T!TypeOK
<1>1. \A n \in 1..z : table[n] \in T!Region
  BY <1>0, TableFits, Zenon
<1>2. table' = [n \in 1..(z + 1) |->
                  IF n <= p THEN table[n] ELSE IF n = p + 1 THEN add ELSE table[n - 1]]
  BY <1>0 DEF T!Inserted
<1>3. \A n \in 1..(z + 1) : table'[n] = IF n <= p THEN table[n] ELSE IF n = p + 1 THEN add ELSE table[n - 1]
  BY <1>2
<1>4. \A n \in 1..(z + 1) : table'[n] \in T!Region
  <2> TAKE n \in 1..(z + 1)
  <2>1. CASE n <= p
    BY <1>0, <1>1, <1>3, <2>1
  <2>2. CASE n = p + 1
    BY <1>0, <1>3, <2>2
  <2>3. CASE n > p + 1
    <3>1. n - 1 \in 1..z /\ ~(n <= p) /\ n # p + 1
      BY <1>0, <2>3
    <3> QED
      BY <1>1, <1>3, <3>1, Zenon
  <2> QED
    BY <1>0, <2>1, <2>2, <2>3
<1>5. table' \in Seq(T!Region) /\ Len(table') = z + 1
  BY <1>2, <1>4
<1>6. /\ \A m \in 1..p : T!Below(table[m], add)
      /\ \A m \in (p + 1)..z : T!Below(add, table[m])
  BY <1>0, ClearOfNeighbours
<1>7. \A m, n \in 1..z : m < n => T!Below(table[m], table[n])
  BY <1>0 DEF T!IndInv, T!Sorted
<1>8. ASSUME NEW m \in 1..(z + 1), NEW n \in 1..(z + 1), m < n PROVE T!Below(table'[m], table'[n])
  <2>1. CASE n <= p
    <3>1. m \in 1..z /\ n \in 1..z /\ m <= p
      BY <1>0, <1>8, <2>1
    <3> QED
      BY <1>3, <1>7, <1>8, <2>1, <3>1, Zenon
  <2>2. CASE n = p + 1
    <3>1. m \in 1..p /\ m <= p /\ ~(n <= p)
      BY <1>0, <1>8, <2>2
    <3> QED
      BY <1>3, <1>6, <2>2, <3>1, Zenon
  <2>3. CASE n > p + 1
    <3>1. n - 1 \in 1..z /\ n - 1 \in (p + 1)..z /\ ~(n <= p) /\ n # p + 1
      BY <1>0, <2>3
    <3>2. table'[n] = table[n - 1]
      BY <1>3, <3>1, Zenon
    <3>3. CASE m <= p
      <4>1. m \in 1..z /\ m < n - 1
        BY <1>0, <2>3, <3>3
      <4> QED
        BY <1>3, <1>7, <3>1, <3>2, <3>3, <4>1, Zenon
    <3>4. CASE m = p + 1
      <4>1. ~(m <= p)
        BY <3>4
      <4> QED
        BY <1>3, <1>6, <3>1, <3>2, <3>4, <4>1, Zenon
    <3>5. CASE m > p + 1
      <4>1. m - 1 \in 1..z /\ m - 1 < n - 1 /\ ~(m <= p) /\ m # p + 1
        BY <1>0, <1>8, <3>5
      <4> QED
        BY <1>3, <1>7, <3>1, <3>2, <4>1, Zenon
    <3> QED
      BY <1>0, <3>3, <3>4, <3>5
  <2> QED
    BY <1>0, <2>1, <2>2, <2>3
<1>9. \A r : r \in T!Holding(table)' <=> r \in T!Holding(table) \cup {add}
  <2> TAKE r
  <2>1. ASSUME NEW n \in 1..(z + 1), r = table'[n] PROVE r \in T!Holding(table) \cup {add}
    <3>1. (n <= p /\ n \in 1..z) \/ n = p + 1 \/ (n - 1 \in 1..z /\ ~(n <= p) /\ n # p + 1)
      BY <1>0
    <3>2. (n \in 1..z /\ r = table[n]) \/ r = add \/ (n - 1 \in 1..z /\ r = table[n - 1])
      BY <1>3, <2>1, <3>1
    <3> QED
      BY <1>0, <3>2, Zenon DEF T!Holding
  <2>2. ASSUME NEW n \in 1..z, r = table[n] PROVE \E m \in 1..(z + 1) : r = table'[m]
    <3>1. CASE n <= p
      BY <1>0, <1>3, <2>2, <3>1
    <3>2. CASE n > p
      <4>1. PICK j \in 1..(z + 1) : ~(j <= p) /\ j # p + 1 /\ j - 1 = n
        BY <1>0, <3>2
      <4>2. table'[j] = table[j - 1]
        BY <1>3, <4>1, Zenon
      <4> QED
        BY <2>2, <4>1, <4>2
    <3> QED
      BY <1>0, <3>1, <3>2
  <2>3. p + 1 \in 1..(z + 1) /\ ~(p + 1 <= p)
    BY <1>0
  <2>4. table'[p + 1] = add
    BY <1>3, <2>3, Zenon
  <2>5. r \in T!Holding(table)' <=> \E n \in 1..(z + 1) : r = table'[n]
    BY <1>5, Zenon DEF T!Holding
  <2>6. r \in T!Holding(table) <=> \E n \in 1..z : r = table[n]
    BY <1>0, Zenon DEF T!Holding
  <2> QED
    BY <2>1, <2>2, <2>3, <2>4, <2>5, <2>6, Zenon
<1>10. T!Holding(table)' = T!Holding(table) \cup {add}
  BY <1>9, Zenon
<1> QED
  BY <1>0, <1>5, <1>8, <1>10 DEF T!Sorted

(* A region that mock1.c accepts is apart from all it has. *)
LEMMA AppendApart ==
  ASSUME T!IndInv, NEW add \in T!Region, T!LinearCode(add) = "ok", regions' = Append(regions, add)
  PROVE  /\ regions' \in Seq(T!Region) /\ Len(regions') = Len(regions) + 1 /\ T!Fits(add)
         /\ T!Holding(regions)' = T!Holding(regions) \cup {add}
         /\ \A n \in 1..Len(regions') : T!Fits(regions'[n])
         /\ \A m, n \in 1..Len(regions') :
              m # n => T!Below(regions'[m], regions'[n]) \/ T!Below(regions'[n], regions'[m])
<1>0. PICK z \in Nat : z = Len(regions)
  BY ElementsIn, Zenon DEF T!IndInv, T!TypeOK
<1>a. regions \in Seq(T!Region)
  BY DEF T!IndInv, T!TypeOK
<1>1. /\ regions' \in Seq(T!Region) /\ Len(regions') = z + 1 /\ regions'[z + 1] = add
      /\ \A n \in 1..z : regions'[n] = regions[n]
  BY <1>0, <1>a
<1>b. DOMAIN regions = 1..z
  BY <1>0, <1>a
<1>2. ~T!BadSize(add) /\ ~T!Wraps(add) /\ \A n \in 1..z : ~T!Overlaps(regions[n], add)
  BY <1>b DEF T!LinearCode
<1>3. T!Fits(add)
  BY <1>2, CheckedFits
<1>4. \A n \in 1..z : regions[n] \in T!Region /\ T!Fits(regions[n])
  BY <1>0, TableFits, Zenon
<1>5. \A n \in 1..z : T!Below(regions[n], add) \/ T!Below(add, regions[n])
  BY <1>2, <1>3, <1>4, OverlapsExact, Zenon
<1>6. \A m, n \in 1..z : m # n => T!Below(regions[m], regions[n]) \/ T!Below(regions[n], regions[m])
  BY <1>0 DEF T!IndInv
<1>7. \A n : n \in 1..(z + 1) <=> n \in 1..z \/ n = z + 1
  OBVIOUS
<1>8. \A r : r \in T!Holding(regions)' <=> r \in T!Holding(regions) \cup {add}
  <2> TAKE r
  <2>1. r \in T!Holding(regions)' <=> \E n \in 1..(z + 1) : r = regions'[n]
    BY <1>1, Zenon DEF T!Holding
  <2>2. r \in T!Holding(regions) <=> \E n \in 1..z : r = regions[n]
    BY <1>0, Zenon DEF T!Holding
  <2> QED
    BY <1>1, <1>7, <2>1, <2>2, Zenon
<1>9. T!Holding(regions)' = T!Holding(regions) \cup {add}
  BY <1>8, Zenon
<1>10. \A n \in 1..(z + 1) : T!Fits(regions'[n])
  BY <1>1, <1>3, <1>4, <1>7, Zenon
<1>11. \A m, n \in 1..(z + 1) :
         m # n => T!Below(regions'[m], regions'[n]) \/ T!Below(regions'[n], regions'[m])
  BY <1>1, <1>5, <1>6, <1>7, ZenonT(30)
<1> QED
  BY <1>0, <1>1, <1>3, <1>9, <1>10, <1>11

LEMMA RegionAddStep ==
  ASSUME T!IndInv, NEW add \in T!Region, NEW p \in 0..Len(table), T!RegionAdd(p, add)
  PROVE  T!IndInv'
<1>1. /\ T!Before(p, add) /\ gpa = T!NoSearch /\ UNCHANGED <<gpa, lo, hi>>
      /\ regions' = IF T!LinearCode(add) = "ok" THEN Append(regions, add) ELSE regions
      /\ table' = IF T!SortedCode(p, add) = "ok" THEN T!Inserted(p, add) ELSE table
  BY DEF T!RegionAdd
<1>2. T!LinearCode(add) = T!SortedCode(p, add)
  BY <1>1, VerdictsAgree
<1>3. CASE T!LinearCode(add) = "ok"
  <2>1. regions' = Append(regions, add) /\ table' = T!Inserted(p, add)
    BY <1>1, <1>2, <1>3
  <2>2. ~T!NeighbourOverlaps(p, add)
    BY <1>2, <1>3 DEF T!SortedCode
  <2>3. /\ regions' \in Seq(T!Region) /\ Len(regions') = Len(regions) + 1 /\ T!Fits(add)
        /\ T!Holding(regions)' = T!Holding(regions) \cup {add}
        /\ (\A n \in 1..Len(regions) : T!Fits(regions[n]))'
        /\ (\A m, n \in 1..Len(regions) :
              m # n => T!Below(regions[m], regions[n]) \/ T!Below(regions[n], regions[m]))'
    BY <1>3, <2>1, AppendApart DEF T!Fits, T!Below
  <2>4. /\ table' \in Seq(T!Region) /\ Len(table') = Len(table) + 1
        /\ T!Sorted' /\ T!Holding(table)' = T!Holding(table) \cup {add}
    BY <1>1, <2>1, <2>2, <2>3, InsertionSorted
  <2>5. T!TypeOK'
    BY <1>1, <2>3, <2>4, SMTT(30) DEF T!IndInv, T!TypeOK
  <2> QED
    BY <1>1, <2>3, <2>4, <2>5, ZenonT(30) DEF T!IndInv, T!NoSearch
<1>4. CASE T!LinearCode(add) # "ok"
  <2>1. UNCHANGED <<regions, table, gpa, lo, hi>>
    BY <1>1, <1>2, <1>4
  <2> QED
    BY <2>1 DEF T!IndInv, T!TypeOK, T!Holding, T!Fits, T!Below, T!Sorted, T!Bisecting, T!NoSearch
<1> QED
  BY <1>3, <1>4

(* One turn of the bisection keeps what it has found out. *)
LEMMA BisectStep ==
  ASSUME T!IndInv, T!Bisect
  PROVE  T!Bisecting' /\ lo' \in Nat /\ hi' \in Nat
<1>0. PICK z \in Nat : z = Len(table)
  BY ElementsIn, Zenon DEF T!IndInv, T!TypeOK
<1>1. /\ lo < hi /\ hi <= z /\ UNCHANGED <<regions, table, gpa>> /\ lo \in Nat /\ hi \in Nat
      /\ \A n \in 1..lo : table[n].start <= gpa
      /\ \A n \in (hi + 1)..z : gpa < table[n].start
  BY <1>0 DEF T!Bisect, T!IndInv, T!TypeOK, T!Bisecting
<1>2. PICK mid \in Nat : mid = lo + ((hi - lo) \div 2) /\ lo <= mid /\ mid < hi
  BY <1>1
<1>3. /\ table[mid + 1].start <= gpa => lo' = mid + 1 /\ hi' = hi
      /\ ~(table[mid + 1].start <= gpa) => lo' = lo /\ hi' = mid
  BY <1>2 DEF T!Bisect
<1>4. \A n \in 1..z : table[n].start \in Nat
  BY <1>0, TableFits, RegionFields, RegionAssumption
<1>5. gpa \in Int
  BY DEF T!IndInv, T!TypeOK, T!Addrs, T!NoSearch
<1>6. \A m, n \in 1..z : m < n => table[m].start <= table[n].start
  <2> TAKE m, n \in 1..z
  <2>1. m < n => T!Below(table[m], table[n])
    BY <1>0, Zenon DEF T!IndInv, T!Sorted
  <2>2. table[m].start \in Nat /\ table[m].size \in Nat /\ table[n].start \in Nat
    <3>2. \A x \in 0..UMax : x \in Nat
      BY RegionAssumption
    <3>1. table[m] \in T!Region /\ table[n] \in T!Region
      BY <1>0, ElementsIn, Zenon DEF T!IndInv, T!TypeOK
    <3> QED
      BY <3>1, <3>2, RegionFields, Zenon
  <2> QED
    BY <2>1, <2>2 DEF T!Below
<1>7. CASE table[mid + 1].start <= gpa
  <2>1. ASSUME NEW n \in 1..(mid + 1) PROVE table[n].start <= gpa
    <3>1. n \in 1..z /\ mid + 1 \in 1..z /\ (n = mid + 1 \/ n < mid + 1)
      BY <1>1, <1>2
    <3>2. n < mid + 1 => table[n].start <= table[mid + 1].start
      BY <1>6, <3>1, Zenon
    <3> QED
      BY <1>4, <1>5, <1>7, <3>1, <3>2
  <2>2. lo' = mid + 1 /\ hi' = hi
    BY <1>3, <1>7
  <2> QED
    BY <1>0, <1>1, <1>2, <2>1, <2>2 DEF T!Bisecting
<1>8. CASE ~(table[mid + 1].start <= gpa)
  <2>1. ASSUME NEW n \in (mid + 1)..z PROVE gpa < table[n].start
    <3>1. n \in 1..z /\ mid + 1 \in 1..z /\ (n = mid + 1 \/ mid + 1 < n)
      BY <1>1, <1>2
    <3>2. mid + 1 < n => table[mid + 1].start <= table[n].start
      BY <1>6, <3>1, Zenon
    <3> QED
      BY <1>4, <1>5, <1>8, <3>1, <3>2
  <2>2. lo' = lo /\ hi' = mid
    BY <1>3, <1>8
  <2> QED
    BY <1>0, <1>1, <1>2, <2>1, <2>2 DEF T!Bisecting
<1> QED
  BY <1>7, <1>8

LEMMA RegionStep == T!IndInv /\ [T!Next]_regionVars => T!IndInv'
<1> SUFFICES ASSUME T!IndInv, [T!Next]_regionVars PROVE T!IndInv'
  OBVIOUS
<1>0. Len(table) \in Nat
  BY ElementsIn, Zenon DEF T!IndInv, T!TypeOK
<1>1. ASSUME NEW add \in T!Region, NEW p \in 0..Len(table), T!RegionAdd(p, add) PROVE T!IndInv'
  BY <1>1, RegionAddStep, SMTT(30)
<1> DEFINE Tables == /\ regions \in Seq(T!Region) /\ table \in Seq(T!Region)
                     /\ T!Holding(regions) = T!Holding(table) /\ Len(regions) = Len(table)
                     /\ \A n \in 1..Len(regions) : T!Fits(regions[n])
                     /\ \A m, n \in 1..Len(regions) :
                          m # n => T!Below(regions[m], regions[n]) \/ T!Below(regions[n], regions[m])
                     /\ T!Sorted
<1>2. ASSUME UNCHANGED <<regions, table>> PROVE Tables'
  BY <1>2 DEF T!IndInv, T!TypeOK, T!Holding, T!Fits, T!Below, T!Sorted
<1>3. ASSUME NEW addr \in T!Addrs, T!Lookup(addr) PROVE T!IndInv'
  <2>1. UNCHANGED <<regions, table>> /\ gpa' = addr /\ lo' = 0 /\ hi' = Len(table)
    BY <1>3 DEF T!Lookup
  <2> HIDE DEF Tables
  <2>2. Tables'
    BY <1>2, <2>1
  <2>3. PICK z \in Nat : z = Len(table)
    BY <1>0, Zenon
  <2>4. T!Bisecting'
    BY <2>1, <2>3 DEF T!Bisecting
  <2> USE DEF Tables
  <2> QED
    BY <1>0, <2>1, <2>2, <2>4 DEF T!IndInv, T!TypeOK
<1>4. CASE T!Bisect
  <2>1. UNCHANGED <<regions, table, gpa>>
    BY <1>4 DEF T!Bisect
  <2>2. Tables' /\ T!Bisecting' /\ lo' \in Nat /\ hi' \in Nat
    BY <1>2, <1>4, <2>1, BisectStep
  <2> QED
    BY <2>1, <2>2 DEF T!IndInv, T!TypeOK, T!Addrs, T!NoSearch
<1>5. CASE T!Return
  <2>1. UNCHANGED <<regions, table>> /\ gpa' = T!NoSearch /\ lo' = 0 /\ hi' = 0
    BY <1>5 DEF T!Return
  <2>2. Tables'
    BY <1>2, <2>1
  <2> QED
    BY <2>1, <2>2 DEF T!IndInv, T!TypeOK, T!NoSearch
<1>6. CASE UNCHANGED regionVars
  <2>1. UNCHANGED <<regions, table, gpa, lo, hi>>
    BY <1>6 DEF regionVars
  <2>2. Tables'
    BY <1>2, <2>1
  <2>3. T!Bisecting' <=> T!Bisecting
    BY <2>1 DEF T!Bisecting
  <2> QED
    BY <2>1, <2>2, <2>3 DEF T!IndInv, T!TypeOK, T!Addrs, T!NoSearch
<1> QED
  BY <1>1, <1>3, <1>4, <1>5, <1>6 DEF T!Next

(* An address a region holds, computed with unsigned numbers and not. *)
LEMMA HoldsExact ==
  \A r \in T!Region, addr \in T!Addrs :
    /\ T!Holds(r, addr) <=> r.start <= addr /\ addr < r.start + r.size
    /\ r.start <= addr => T!Sub(addr, r.start) = addr - r.start
    /\ T!Fits(r) /\ T!Holds(r, addr) => T!Hva(r, addr) = r.hva + addr - r.start
<1> TAKE r \in T!Region, addr \in T!Addrs
<1>1. /\ r.start \in 0..UMax /\ r.size \in 0..UMax /\ r.hva \in 0..UMax /\ addr \in 0..UMax
      /\ UMax \in Nat
  BY RegionFields, RegionAssumption DEF T!Addrs
<1>2. r.start <= addr => T!Sub(addr, r.start) = addr - r.start
  BY <1>1, SubExact
<1>3. T!Holds(r, addr) <=> r.start <= addr /\ addr < r.start + r.size
  BY <1>1, <1>2 DEF T!Holds
<1>4. ASSUME T!Fits(r), T!Holds(r, addr) PROVE T!Hva(r, addr) = r.hva + addr - r.start
  <2>1. PICK d \in Nat : d = addr - r.start /\ r.hva + d <= UMax
    BY <1>1, <1>3, <1>4 DEF T!Fits
  <2>2. T!Add(r.hva, d) = r.hva + d
    BY <1>1, <2>1, AddExact
  <2>3. T!Hva(r, addr) = T!Add(r.hva, d)
    BY <1>2, <1>3, <1>4, <2>1 DEF T!Hva
  <2> QED
    BY <1>1, <2>1, <2>2, <2>3
<1> QED
  BY <1>2, <1>3, <1>4

(* Two regions that hold an address are one. *)
LEMMA OneHolder ==
  \A r, q \in T!Region, addr \in T!Addrs :
    T!Holds(r, addr) /\ T!Holds(q, addr) => ~T!Below(r, q)
<1> TAKE r, q \in T!Region, addr \in T!Addrs
<1>1. r.start \in Nat /\ r.size \in Nat /\ q.start \in Nat /\ addr \in Nat
  BY RegionFields, RegionAssumption DEF T!Addrs
<1>2. /\ T!Holds(r, addr) => addr < r.start + r.size
      /\ T!Holds(q, addr) => q.start <= addr
  BY HoldsExact
<1> QED
  BY <1>1, <1>2 DEF T!Below

(* translate of mock1.c *)
LEMMA LinearExact ==
  ASSUME T!IndInv, NEW addr \in T!Addrs
  PROVE  T!LinearAnswer(addr) = T!Answer(addr)
<1>1. \A n \in 1..Len(regions) : regions[n] \in T!Region /\ T!Fits(regions[n])
  BY TableFits, SMTT(30)
<1>2. \A n \in 1..Len(regions) :
        T!Holds(regions[n], addr) => T!Hva(regions[n], addr) = regions[n].hva + addr - regions[n].start
  BY <1>1, HoldsExact, SMTT(30)
<1>3. \A n \in 1..Len(regions) :
        T!Holds(regions[n], addr)
          <=> regions[n].start <= addr /\ addr < regions[n].start + regions[n].size
  BY <1>1, HoldsExact
<1>4. ASSUME NEW a \in T!LinearAnswer(addr) PROVE a \in T!Answer(addr)
  <2>1. PICK n \in 1..Len(regions) : T!FirstHolds(n, addr) /\ a = T!Hva(regions[n], addr)
    BY <1>4, Zenon DEF T!LinearAnswer
  <2>2. /\ T!Holds(regions[n], addr) /\ regions[n] \in T!Holding(regions)
        /\ a = regions[n].hva + addr - regions[n].start
    BY <1>2, <2>1, Zenon DEF T!FirstHolds, T!Holding
  <2> QED
    BY <1>3, <2>2, Zenon DEF T!Answer
<1>5. ASSUME NEW a \in T!Answer(addr) PROVE a \in T!LinearAnswer(addr)
  <2>1. PICK r \in T!Holding(regions) : /\ r.start <= addr /\ addr < r.start + r.size
                                        /\ a = r.hva + addr - r.start
    BY <1>5, Zenon DEF T!Answer
  <2>2. PICK n \in 1..Len(regions) : r = regions[n]
    BY <2>1, Zenon DEF T!Holding
  <2>3. T!Holds(regions[n], addr) /\ a = T!Hva(regions[n], addr)
    BY <1>2, <1>3, <2>1, <2>2, Zenon
  <2>4. ASSUME NEW m \in 1..(n - 1) PROVE ~T!Holds(regions[m], addr)
    <3>0. Len(regions) \in Nat
      BY ElementsIn, Zenon DEF T!IndInv, T!TypeOK
    <3>1. m \in 1..Len(regions) /\ m # n
      BY <3>0
    <3>2. T!Below(regions[m], regions[n]) \/ T!Below(regions[n], regions[m])
      BY <3>1, Zenon DEF T!IndInv
    <3> QED
      BY <1>1, <2>3, <3>1, <3>2, OneHolder, Zenon
  <2>5. T!FirstHolds(n, addr)
    BY <2>3, <2>4, Zenon DEF T!FirstHolds
  <2> QED
    BY <2>3, <2>5, Zenon DEF T!LinearAnswer
<1> QED
  BY <1>4, <1>5

(* lookup of mock1_rcu.c, when the bisection is over *)
LEMMA SortedExact ==
  ASSUME T!IndInv, gpa # T!NoSearch, lo >= hi
  PROVE  T!SortedAnswer = T!Answer(gpa)
<1>0. PICK z \in Nat : z = Len(table)
  BY ElementsIn, Zenon DEF T!IndInv, T!TypeOK
<1>1. /\ gpa \in T!Addrs /\ lo \in Nat /\ lo <= z
      /\ \A n \in 1..lo : table[n].start <= gpa
      /\ \A n \in (lo + 1)..z : gpa < table[n].start
  <2>1. T!Bisecting /\ gpa \in T!Addrs /\ lo \in Nat /\ hi \in Nat
    BY DEF T!IndInv, T!TypeOK
  <2>2. lo = hi
    BY <2>1 DEF T!Bisecting
  <2> QED
    BY <1>0, <2>1, <2>2 DEF T!Bisecting
<1>2. \A n \in 1..z : table[n] \in T!Region /\ T!Fits(table[n])
  BY <1>0, TableFits
<1>3. T!Holding(regions) = {table[n] : n \in 1..z}
  BY <1>0, Zenon DEF T!IndInv, T!Holding
<1>4. gpa \in Nat /\ \A n \in 1..z : table[n].start \in Nat /\ table[n].size \in Nat
  BY <1>1, <1>2, RegionFields, RegionAssumption DEF T!Addrs
<1>5. ASSUME NEW n \in 1..z, n # lo PROVE ~T!Holds(table[n], gpa)
  <2>1. CASE n > lo
    <3>1. n \in (lo + 1)..z
      BY <1>1, <2>1
    <3>2. gpa < table[n].start
      BY <1>1, <3>1, Zenon
    <3> QED
      BY <1>4, <3>2 DEF T!Holds
  <2>2. CASE n < lo
    <3>1. lo \in 1..z /\ lo \in 1..lo /\ n < lo
      BY <1>1, <2>2
    <3>2. T!Below(table[n], table[lo]) /\ table[lo].start <= gpa
      BY <1>0, <1>1, <3>1, Zenon DEF T!IndInv, T!Sorted
    <3>3. ~(gpa < table[n].start + table[n].size)
      BY <1>4, <3>1, <3>2 DEF T!Below
    <3> QED
      BY <1>1, <1>2, <3>3, HoldsExact, Zenon
  <2> QED
    BY <1>1, <1>5, <2>1, <2>2
<1>6. ASSUME NEW a \in T!Answer(gpa)
      PROVE  lo \in 1..z /\ T!Holds(table[lo], gpa) /\ a = T!Hva(table[lo], gpa)
  <2>1. PICK r \in T!Holding(regions) : /\ r.start <= gpa /\ gpa < r.start + r.size
                                        /\ a = r.hva + gpa - r.start
    BY <1>6, Zenon DEF T!Answer
  <2>2. PICK n \in 1..z : r = table[n]
    BY <1>3, <2>1, ZenonT(30)
  <2>3. T!Holds(table[n], gpa) /\ T!Hva(table[n], gpa) = table[n].hva + gpa - table[n].start
    BY <1>1, <1>2, <2>1, <2>2, HoldsExact
  <2>4. n = lo
    BY <1>5, <2>3
  <2> QED
    BY <2>1, <2>2, <2>3, <2>4, Zenon
<1>7. ASSUME lo \in 1..z, T!Holds(table[lo], gpa) PROVE T!Hva(table[lo], gpa) \in T!Answer(gpa)
  <2>1. /\ table[lo].start <= gpa /\ gpa < table[lo].start + table[lo].size
        /\ T!Hva(table[lo], gpa) = table[lo].hva + gpa - table[lo].start
    BY <1>1, <1>2, <1>7, HoldsExact
  <2>2. table[lo] \in T!Holding(regions)
    BY <1>3, <1>7, Zenon
  <2> QED
    BY <2>1, <2>2, ZenonT(30) DEF T!Answer
<1>8. CASE lo = 0
  <2>1. T!SortedAnswer = {}
    BY <1>8 DEF T!SortedAnswer
  <2>2. ~(lo \in 1..z)
    BY <1>8
  <2> QED
    BY <1>6, <2>1, <2>2
<1>9. CASE lo # 0
  <2>1. lo \in 1..z /\ lo \in 1..lo
    BY <1>1, <1>9, SMTT(30)
  <2>2. table[lo].start <= gpa /\ T!Sub(gpa, table[lo].start) = gpa - table[lo].start
    BY <1>1, <1>2, <2>1, HoldsExact
  <2>3. T!Holds(table[lo], gpa) <=> ~(T!Sub(gpa, table[lo].start) >= table[lo].size)
    BY <1>4, <2>1, <2>2 DEF T!Holds
  <2>4. CASE T!Holds(table[lo], gpa)
    <3>1. T!SortedAnswer = {T!Hva(table[lo], gpa)}
      BY <1>9, <2>3, <2>4 DEF T!SortedAnswer
    <3> QED
      BY <1>6, <1>7, <2>1, <2>4, <3>1, SMTT(30)
  <2>5. CASE ~T!Holds(table[lo], gpa)
    <3>1. T!SortedAnswer = {}
      BY <1>9, <2>3, <2>5 DEF T!SortedAnswer
    <3> QED
      BY <1>6, <2>5, <3>1
  <2> QED
    BY <2>4, <2>5
<1> QED
  BY <1>8, <1>9

LEMMA RegionAlways == T!Spec => []T!IndInv
BY RegionInit, RegionStep, PTL DEF T!Spec, T!vars, regionVars

(* Searching the place of a new region by bisection and comparing it with  *)
(* two neighbours (mock1_rcu.c region_add) accepts and refuses what        *)
(* comparing it with every region does (mock1.c), and the array stays      *)
(* sorted and free of overlaps: for every size of the table, every width   *)
(* of the addresses and every sequence of calls.                           *)
THEOREM RegionVerdicts == T!Spec => [](T!SameVerdicts /\ SameVerdicts)
<1>1. T!IndInv => T!SameVerdicts
  BY VerdictsAgree DEF T!IndInv, T!SameVerdicts, T!Sorted, T!Below
<1>2. T!SameVerdicts => SameVerdicts
  BY DEF SameVerdicts
<1> QED
  BY <1>1, <1>2, RegionAlways, PTL

(* translate (mock1.c) and lookup (mock1_rcu.c) give every address the     *)
(* host address of the region that holds it, and refuse exactly the        *)
(* addresses in no region: no difference or sum they take has wrapped.     *)
THEOREM RegionTranslations == T!Spec => [](T!TranslationsExact /\ TranslationsExact)
<1>1. T!IndInv => T!TranslationsExact
  BY LinearExact, SortedExact DEF T!TranslationsExact
<1>2. T!TranslationsExact => TranslationsExact
  BY DEF TranslationsExact
<1> QED
  BY <1>1, <1>2, RegionAlways, PTL
=============================================================================
