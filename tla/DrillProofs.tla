---------------------------- MODULE DrillProofs ----------------------------
(***************************************************************************)
(* The invariants of the drills hold for any number of threads, turns,     *)
(* items and exchanges.                                                    *)
(***************************************************************************)
EXTENDS MCDrills, RingLemmas, FiniteSetTheorems

-----------------------------------------------------------------------------
(* cas.c *)

(* The threads and their turns are finitely many. *)
LEMMA CasFinite ==
  /\ IsFiniteSet(Threads) /\ Cardinality(Threads) = NumThread
  /\ IsFiniteSet(0 .. Iter - 1) /\ Cardinality(0 .. Iter - 1) = Iter
  /\ IsFiniteSet(Completed)
<1>1. IsFiniteSet(Threads) /\ Cardinality(Threads) = NumThread
  BY FS_Interval, NumThreadAssumption DEF Threads
<1>2. IsFiniteSet(0 .. Iter - 1) /\ Cardinality(0 .. Iter - 1) = Iter
  BY FS_Interval, IterAssumption
<1>3. IsFiniteSet(Threads \X (0 .. Iter - 1))
  BY <1>1, <1>2, FS_Product
<1>4. Completed \subseteq Threads \X (0 .. Iter - 1)
  BY DEF Completed
<1> QED
  BY <1>1, <1>2, <1>3, <1>4, FS_Subset

(* A thread that completes a turn completes one more. *)
LEMMA CompletesOne ==
  ASSUME TypeOK, NEW t \in Threads, i[t] < Iter, i' = [i EXCEPT ![t] = @ + 1]
  PROVE  Cardinality(Completed') = Cardinality(Completed) + 1
<1>1. <<t, i[t]>> \in Threads \X (0 .. Iter - 1) /\ <<t, i[t]>> \notin Completed
  BY IterAssumption DEF TypeOK, Completed
<1>2. ASSUME NEW s \in Threads \X (0 .. Iter - 1)
      PROVE  s[2] < i'[s[1]] <=> s[2] < i[s[1]] \/ s = <<t, i[t]>>
  BY IterAssumption DEF TypeOK
<1>3. Completed' = Completed \cup {<<t, i[t]>>}
  BY <1>1, <1>2 DEF Completed
<1> QED
  BY <1>1, <1>3, CasFinite, FS_AddElement

(* Every value offered to my_max is a natural number below the product.    *)
LEMMA OfferBound ==
  ASSUME NEW t \in Threads, NEW n \in Nat, n < Iter
  PROVE  Offer(t, n) \in Nat /\ Offer(t, n) <= Iter * NumThread - 1
<1>1. n * NumThread \in Nat /\ (Iter - 1 - n) * NumThread \in Nat
  BY NumThreadAssumption, IterAssumption
<1>2. (Iter - 1 - n) * NumThread = Iter * NumThread - NumThread - n * NumThread
  BY NumThreadAssumption, IterAssumption
<1>3. t \in Nat /\ t <= NumThread - 1
  BY NumThreadAssumption DEF Threads
<1>4. Iter * NumThread \in Int
  BY NumThreadAssumption, IterAssumption
<1> QED
  BY <1>1, <1>2, <1>3, <1>4, NumThreadAssumption DEF Offer

(* A completed turn keeps the loop variable where the program counter says. *)
LEMMA AdvanceTurns ==
  ASSUME IndInv, NEW t \in Threads, pc[t] \in {"load", "cas"}, Advance(t)
  PROVE  /\ i[t] < Iter
         /\ pc' \in [Threads -> {"unborn", "load", "cas", "done"}] /\ i' \in [Threads -> Nat]
         /\ Turns'
         /\ \A u \in Threads : pc'[u] = "cas" => pc[u] = "cas" /\ u # t
BY IterAssumption DEF IndInv, TypeOK, Turns, Advance, Loop

(* A step that replaces the counter by a bigger value leaves every thread  *)
(* behind it.                                                              *)
LEMMA ReplaceBehind ==
  ASSUME IndInv, NEW t \in Threads, NEW new \in Nat, counter <= new, Replace(t, new),
         \A u \in Threads : pc'[u] = "cas" => pc[u] = "cas" /\ u # t,
         snap' = snap
  PROVE  older' \in [Threads -> SUBSET Nat] /\ NotAhead'
<1>1. older' \in [Threads -> SUBSET Nat]
  BY DEF IndInv, TypeOK, Replace
<1>2. ASSUME NEW u \in Threads, NEW v \in older'[u] PROVE v <= counter'
  <2>1. v \in Nat /\ v <= counter
    BY <1>2 DEF IndInv, TypeOK, NotAhead, Replace
  <2> QED
    BY <2>1 DEF IndInv, TypeOK, Replace
<1>3. ASSUME NEW u \in Threads, pc'[u] = "cas" PROVE snap'[u] <= counter'
  BY <1>3 DEF IndInv, TypeOK, NotAhead, Replace
<1> QED
  BY <1>1, <1>2, <1>3 DEF NotAhead

(* Every step of the workers and of main keeps the invariant of cas.c. *)
LEMMA CasStep == IndInv /\ [Next]_vars => IndInv'
<1> SUFFICES ASSUME IndInv, [Next]_vars PROVE IndInv'
  OBVIOUS
<1>1. ASSUME NEW t \in Threads, FetchAdd(t) \/ AddSwap(t) PROVE IndInv'
  <2>1. /\ pc[t] \in {"load", "cas"} /\ Advance(t) /\ Replace(t, counter + 1)
        /\ snap' = snap /\ phase' = phase /\ phase \in {"generic", "add"}
    BY <1>1 DEF FetchAdd, AddSwap
  <2>2. counter \in Nat /\ counter + 1 \in Nat /\ counter <= counter + 1 /\ counter' = counter + 1
    BY <2>1 DEF IndInv, TypeOK, Replace
  <2>3. TypeOK' /\ Turns' /\ NotAhead'
    BY <2>1, <2>2, AdvanceTurns, ReplaceBehind DEF IndInv, TypeOK
  <2>4. Counted'
    BY <2>1, <2>2, AdvanceTurns, CompletesOne DEF Counted, IndInv, Advance
  <2> QED
    BY <2>1, <2>3, <2>4 DEF IndInv, MaxOfOffers
<1>2. ASSUME NEW t \in Threads, MaxSwap(t) PROVE IndInv'
  <2> DEFINE new == Offer(t, i[t])
  <2>1. /\ pc[t] \in {"load", "cas"} /\ Advance(t) /\ Replace(t, new)
        /\ snap' = snap /\ phase' = phase /\ phase = "max" /\ new > counter
    BY <1>2 DEF MaxSwap
  <2>2. counter \in Nat /\ new \in Nat /\ counter <= new /\ counter' = new /\ i[t] \in Nat
    BY <2>1, AdvanceTurns, OfferBound DEF IndInv, TypeOK, Replace
  <2>3. TypeOK' /\ Turns' /\ NotAhead'
    BY <2>1, <2>2, AdvanceTurns, ReplaceBehind DEF IndInv, TypeOK
  <2>4. Counted'
    BY <2>1 DEF Counted
  <2>5. ASSUME NEW u \in Threads, NEW n \in 0..(i'[u] - 1) PROVE Offer(u, n) <= counter'
    <3>1. CASE u = t /\ n = i[t]
      BY <2>2, <3>1
    <3>2. CASE ~(u = t /\ n = i[t])
      <4>1. n \in 0..(i[u] - 1)
        BY <2>1, <2>2, <3>2 DEF IndInv, TypeOK, Advance
      <4>2. Offer(u, n) <= counter
        BY <2>1, <4>1 DEF IndInv, MaxOfOffers
      <4>3. n \in Nat /\ n < Iter
        BY <4>1, IterAssumption DEF IndInv, TypeOK, Turns
      <4>4. Offer(u, n) \in Nat
        BY <4>3, OfferBound
      <4> QED
        BY <2>2, <4>2, <4>4
    <3> QED
      BY <3>1, <3>2
  <2>6. i[t] \in 0..(i'[t] - 1)
    BY <2>1, <2>2 DEF IndInv, TypeOK, Advance
  <2> QED
    BY <2>1, <2>2, <2>3, <2>4, <2>5, <2>6 DEF IndInv, MaxOfOffers
<1>3. ASSUME NEW t \in Threads, MaxSkip(t) PROVE IndInv'
  <2>1. /\ pc[t] = "cas" /\ Advance(t) /\ UNCHANGED <<counter, phase, snap, older>>
        /\ phase = "max" /\ Offer(t, i[t]) <= snap[t]
    BY <1>3 DEF MaxSkip
  <2>2. TypeOK' /\ Turns' /\ NotAhead'
    BY <2>1, AdvanceTurns DEF IndInv, TypeOK, NotAhead
  <2>3. Counted'
    BY <2>1 DEF Counted
  <2>4. ASSUME NEW u \in Threads, NEW n \in 0..(i'[u] - 1) PROVE Offer(u, n) <= counter'
    <3>1. CASE u = t /\ n = i[t]
      <4>1. snap[t] <= counter /\ snap[t] \in Nat /\ counter \in Nat /\ i[t] \in Nat
        BY <2>1 DEF IndInv, NotAhead, TypeOK
      <4>2. Offer(t, i[t]) \in Nat
        BY <2>1, <4>1, AdvanceTurns, OfferBound
      <4> QED
        BY <2>1, <3>1, <4>1, <4>2
    <3>2. CASE ~(u = t /\ n = i[t])
      <4>1. n \in 0..(i[u] - 1)
        BY <2>1, <3>2 DEF IndInv, TypeOK, Advance
      <4> QED
        BY <2>1, <4>1 DEF IndInv, MaxOfOffers
    <3> QED
      BY <3>1, <3>2
  <2>5. \A u \in Threads : \A n \in 0..(i[u] - 1) : n \in 0..(i'[u] - 1)
    BY <2>1 DEF IndInv, TypeOK, Advance
  <2>6. MaxOfOffers'
    BY <2>1, <2>4, <2>5 DEF IndInv, MaxOfOffers
  <2> QED
    BY <2>2, <2>3, <2>6 DEF IndInv
<1>4. ASSUME NEW t \in Threads, CasFails(t) PROVE IndInv'
  <2>1. TypeOK'
    BY <1>4 DEF CasFails, IndInv, TypeOK
  <2>2. NotAhead'
    BY <1>4 DEF CasFails, IndInv, TypeOK, NotAhead
  <2> QED
    BY <1>4, <2>1, <2>2 DEF CasFails, IndInv, Turns, Counted, Completed, MaxOfOffers
<1>5. ASSUME NEW t \in Threads, NEW v \in older[t] \cup {counter}, FirstLoad(t, v) PROVE IndInv'
  <2>1. v \in Nat /\ v <= counter
    BY DEF IndInv, TypeOK, NotAhead
  <2>2. older'[t] \subseteq older[t] /\ \A u \in Threads : u # t => older'[u] = older[u]
    BY <1>5 DEF FirstLoad, IndInv, TypeOK
  <2>3. TypeOK'
    BY <1>5, <2>1 DEF FirstLoad, IndInv, TypeOK
  <2>4. NotAhead'
    BY <1>5, <2>1, <2>2 DEF FirstLoad, IndInv, TypeOK, NotAhead
  <2>5. Turns'
    BY <1>5 DEF FirstLoad, IndInv, TypeOK, Turns
  <2> QED
    BY <1>5, <2>3, <2>4, <2>5 DEF FirstLoad, IndInv, Counted, Completed, MaxOfOffers
<1>6. ASSUME NEW t \in Threads, Create(t) PROVE IndInv'
  <2>1. TypeOK' /\ Turns'
    BY <1>6, IterAssumption DEF Create, IndInv, TypeOK, Turns, Loop
  <2>2. NotAhead'
    BY <1>6 DEF Create, IndInv, TypeOK, NotAhead, Loop
  <2> QED
    BY <1>6, <2>1, <2>2 DEF Create, IndInv, Counted, Completed, MaxOfOffers
<1>7. CASE CreateFails
  BY <1>7 DEF CreateFails, IndInv, TypeOK, Turns, NotAhead, Counted, MaxOfOffers
<1>8. CASE NextPhase
  <2>1. TypeOK'
    BY <1>8 DEF NextPhase, Joined, IndInv, TypeOK
  <2>2. Turns' /\ NotAhead'
    BY <1>8, IterAssumption DEF NextPhase, IndInv, TypeOK, Turns, NotAhead
  <2>3. phase' = "add" => counter' = 0 /\ Completed' = {}
    BY <1>8, IterAssumption DEF NextPhase, Joined, Running, Completed
  <2>4. phase' # "generic" /\ (phase' = "max" => counter' = 0)
    BY <1>8 DEF NextPhase
  <2>5. Counted'
    BY <2>3, <2>4, FS_EmptySet DEF Counted
  <2>6. MaxOfOffers'
    BY <1>8, <2>4, SMTT(30) DEF MaxOfOffers, NextPhase
  <2> QED
    BY <2>1, <2>2, <2>5, <2>6 DEF IndInv
<1>9. CASE UNCHANGED vars
  BY <1>9 DEF vars, IndInv, TypeOK, Turns, NotAhead, Counted, Completed, MaxOfOffers
<1> QED
  BY <1>1, <1>2, <1>3, <1>4, <1>5, <1>6, <1>7, <1>8, <1>9, SMTT(30) DEF Next, Worker, Succeeds

(* The state main starts cas.c in satisfies the invariant. *)
LEMMA CasInit == Init => IndInv
<1> SUFFICES ASSUME Init PROVE IndInv
  OBVIOUS
<1>1. Completed = {}
  BY IterAssumption DEF Init, Begin, Completed
<1> QED
  BY <1>1, FS_EmptySet, IterAssumption
  DEF Init, Begin, IndInv, TypeOK, Turns, NotAhead, Counted, MaxOfOffers

(* The loops of my_add and my_max around a weak compare-and-swap keep what *)
(* main's assertions rest on, however stale their first loads.             *)
THEOREM CasSafety == Spec => []IndInv
BY CasInit, CasStep, PTL DEF Spec

(* The counter is the largest completed offer to my_max, at every moment.  *)
THEOREM MaxSafety == Spec => []MaxOfOffers
<1>1. IndInv => MaxOfOffers
  BY DEF IndInv
<1> QED
  BY <1>1, CasSafety, PTL

(* main's three assertions never fail: no increment is lost or made twice, *)
(* and the maximum is the largest value offered.                           *)
THEOREM TotalsSafety == Spec => []TotalsAsserted
<1>1. ASSUME IndInv, Joined, phase # "max" PROVE counter = Iter * NumThread
  <2>1. Completed = Threads \X (0 .. Iter - 1)
    BY <1>1, IterAssumption DEF Joined, IndInv, Turns, Completed
  <2>2. Cardinality(Completed) = NumThread * Iter
    BY <2>1, CasFinite, FS_Product
  <2> QED
    BY <1>1, <2>2, NumThreadAssumption, IterAssumption DEF IndInv, Counted, Joined, Running
<1>2. ASSUME IndInv, Joined, phase = "max" PROVE counter = Iter * NumThread - 1
  <2>1. \A t \in Threads : i[t] = Iter
    BY <1>2 DEF Joined, IndInv, Turns
  <2>2. NumThread - 1 \in Threads /\ Iter - 1 \in 0..(Iter - 1)
    BY NumThreadAssumption, IterAssumption DEF Threads
  <2>3. Offer(NumThread - 1, Iter - 1) <= counter
    BY <1>2, <2>1, <2>2 DEF IndInv, MaxOfOffers
  <2>4. Offer(NumThread - 1, Iter - 1) = Iter * NumThread - 1
    BY NumThreadAssumption, IterAssumption DEF Offer
  <2>5. Iter * NumThread \in Nat \ {0}
    BY NumThreadAssumption, IterAssumption
  <2>6. counter <= Iter * NumThread - 1
    <3>1. CASE counter = 0
      BY <2>5, <3>1
    <3>2. ASSUME NEW t \in Threads, NEW n \in 0..(i[t] - 1), Offer(t, n) = counter
          PROVE  counter <= Iter * NumThread - 1
      <4>1. n \in Nat /\ n < Iter
        BY <2>1, IterAssumption
      <4> QED
        BY <3>2, <4>1, OfferBound
    <3> QED
      BY <1>2, <3>1, <3>2 DEF IndInv, MaxOfOffers
  <2> QED
    BY <1>2, <2>3, <2>4, <2>5, <2>6 DEF IndInv, TypeOK
<1>3. IndInv => TotalsAsserted
  BY <1>1, <1>2 DEF TotalsAsserted
<1> QED
  BY <1>3, CasSafety, PTL

-----------------------------------------------------------------------------
(* handoff.c *)

(* The reader checks the struct only after all of it has been written and  *)
(* handed over, in read_try and in read_spin: no assertion of check_log    *)
(* fails and no plain load races with a store.                             *)
THEOREM HandoffSafety == H!Spec => []CheckLog
<1>1. H!Init => H!IndInv
  BY DEF H!Init, H!IndInv, H!CheckLog
<1>2. H!IndInv /\ [H!Next]_H!vars => H!IndInv'
  <2> SUFFICES ASSUME H!IndInv, [H!Next]_H!vars PROVE H!IndInv'
    OBVIOUS
  <2> USE DEF H!IndInv, H!CheckLog
  <2>1. ASSUME NEW f \in H!Fields, H!WriteField(f) PROVE H!IndInv'
    BY <2>1 DEF H!WriteField
  <2>2. CASE H!WriteFlag
    BY <2>2 DEF H!WriteFlag
  <2>3. CASE H!ReadFlagSet
    BY <2>3 DEF H!ReadFlagSet
  <2>4. CASE H!ReadFlagClear
    BY <2>4 DEF H!ReadFlagClear
  <2>5. ASSUME NEW f \in H!Fields, H!CheckField(f) PROVE H!IndInv'
    BY <2>5 DEF H!CheckField
  <2>6. CASE H!Main
    BY <2>6 DEF H!Main, H!MainCreateWriter, H!MainCreateReader, H!MainCreateFails, H!MainJoin
  <2>7. CASE UNCHANGED H!vars
    BY <2>7 DEF H!vars
  <2> QED
    BY <2>1, <2>2, <2>3, <2>4, <2>5, <2>6, <2>7 DEF H!Next, H!Writer, H!Check
<1>3. H!IndInv => CheckLog
  BY DEF H!IndInv, CheckLog
<1> QED
  BY <1>1, <1>2, <1>3, PTL DEF H!Spec

-----------------------------------------------------------------------------
(* ping-pong/ *)

(* The state in which the parent calls fork satisfies the invariant. *)
LEMMA PingPongInit == P!Init => P!IndInv
<1> SUFFICES ASSUME P!Init PROVE P!IndInv
  OBVIOUS
<1> USE DEF P!Init, P!Processes, P!Pipes
<1>1. P!InPlay = 0
  BY DEF P!InPlay
<1>2. P!Places
  BY <1>1 DEF P!Places
<1>3. P!Ends
  BY DEF P!Ends, P!End
<1>4. P!InStep
  BY <1>1 DEF P!InStep
<1> QED
  BY <1>2, <1>3, <1>4 DEF P!IndInv

(* The lists of ends that the processes close are lists of two ends. *)
LEMMA CloseLists ==
  /\ P!ParentCloses \in Seq(P!End) /\ P!ChildCloses \in Seq(P!End)
  /\ P!LastCloses \in Seq(P!End) /\ <<<<"p2c", "r">>, <<"c2p", "w">>>> \in Seq(P!End)
<1>1. \A a, b \in P!End : <<a, b>> \in Seq(P!End)
  OBVIOUS
<1>2. \A q \in P!Pipes, m \in {"r", "w"} : <<q, m>> \in P!End
  BY DEF P!End
<1>3. /\ <<"p2c", "r">> \in P!End /\ <<"p2c", "w">> \in P!End
      /\ <<"c2p", "r">> \in P!End /\ <<"c2p", "w">> \in P!End
  BY <1>2 DEF P!Pipes
<1> QED
  BY <1>1, <1>3, Zenon DEF P!ParentCloses, P!ChildCloses, P!LastCloses

(* After fork both processes hold every end and nothing is in the pipes. *)
LEMMA ForkStep == P!IndInv /\ P!Fork => P!IndInv'
<1> SUFFICES ASSUME P!IndInv, P!Fork PROVE P!IndInv'
  OBVIOUS
<1> USE DEF P!Fork, P!Unborn, P!IndInv, P!Processes, P!Pipes
<1>1. P!InPlay' = 0
  BY DEF P!InPlay, P!Places
<1>2. P!Places'
  BY <1>1 DEF P!Places, P!InStep
<1>4. P!Ends'
  <2>1. todo' \in [P!Processes -> Seq(P!End)]
    BY CloseLists
  <2>2. \A k \in 1..Len(P!ParentCloses) : P!ParentCloses[k] # <<"p2c", "w">>
    BY DEF P!ParentCloses
  <2>3. \E k \in 1..Len(P!ParentCloses) : P!ParentCloses[k] = <<"p2c", "r">>
    <3>1. CASE version = "main"
      BY <3>1 DEF P!ParentCloses
    <3>2. CASE version # "main"
      BY <3>2 DEF P!ParentCloses
    <3> QED
      BY <3>1, <3>2
  <2>4. \A k \in 1..Len(P!ChildCloses) : P!ChildCloses[k] # <<"c2p", "w">>
    BY DEF P!ChildCloses
  <2>5. todo'["parent"] = P!ParentCloses /\ todo'["child"] = P!ChildCloses
    OBVIOUS
  <2> QED
    BY <2>1, <2>2, <2>3, <2>4, <2>5 DEF P!Ends
<1>5. P!InStep'
  BY <1>1 DEF P!InStep, P!Places
<1> QED
  BY <1>2, <1>4, <1>5

(* A process that ends lets go of its ends and takes at most the byte it   *)
(* is about to write out of play.                                          *)
LEMMA ExitStep ==
  ASSUME P!IndInv, NEW p \in P!Processes, P!Exit(p),
         UNCHANGED <<version, exchanges, bytes, bounces>>,
         p = "child" => at["child"] # "unborn",
         warned => warned',
         warned' => at'["child"] = "gone",
         reported' => at'["parent"] = "gone" /\ at'["child"] = "gone"
                      /\ (bounces >= exchanges \/ warned')
  PROVE  P!IndInv'
<1> USE DEF P!Exit, P!IndInv, P!Processes, P!Pipes
<1>0. /\ at \in [P!Processes -> {"unborn", "write", "read", "wait", "exit", "gone"}]
      /\ bytes \in [P!Pipes -> Nat] /\ todo \in [P!Processes -> Seq(P!End)]
  BY DEF P!Places, P!Ends
<1>1. P!InPlay' <= P!InPlay /\ P!InPlay' \in Nat /\ P!InPlay \in Nat
  BY <1>0 DEF P!InPlay
<1>2. P!Places'
  BY <1>0, <1>1 DEF P!Places
<1>3. P!Ends'
  <2>1. todo' \in [P!Processes -> Seq(P!End)] /\ todo'[p] = <<>>
    BY <1>0
  <2>2. \A e : e \in open' <=> e \in open /\ e[1] # p
    OBVIOUS
  <2>3. \A u \in P!Processes : u # p => todo'[u] = todo[u] /\ at'[u] = at[u]
    BY <1>0
  <2>4. at'[p] = "gone"
    BY <1>0
  <2>5. \A u \in P!Processes : at'[u] = "gone" => \A e \in open' : e[1] # u
    BY <2>2, <2>3 DEF P!Ends
  <2>6. /\ <<"parent", "p2c", "w">>[1] = "parent" /\ <<"parent", "p2c", "r">>[1] = "parent"
        /\ <<"child", "c2p", "w">>[1] = "child"
    OBVIOUS
  <2>7. CASE p = "parent"
    BY <2>1, <2>2, <2>3, <2>4, <2>5, <2>6, <2>7, SMTT(30) DEF P!Ends
  <2>8. CASE p = "child"
    BY <2>1, <2>2, <2>3, <2>4, <2>5, <2>6, <2>8, SMTT(30) DEF P!Ends
  <2> QED
    BY <2>7, <2>8
<1>4. P!InStep'
  <2>1. P!InPlay' <= 1
    BY <1>1 DEF P!InStep
  <2>2. at'[p] = "gone"
    BY <1>0
  <2>3. at'["child"] = "exit" => at'["parent"] \in {"wait", "gone"}
    BY <1>0 DEF P!InStep
  <2> QED
    BY <2>1, <2>2, <2>3 DEF P!InStep
<1> QED
  BY <1>2, <1>3, <1>4

(* Closing an end leaves a process in its loop the one it writes to. *)
LEMMA CloseStep ==
  ASSUME P!IndInv, NEW p \in P!Processes, P!Close(p)
  PROVE  P!IndInv'
<1> USE DEF P!Close, P!IndInv
<1>1. P!InPlay' = P!InPlay
  BY DEF P!InPlay
<1>2. P!Places' /\ P!InStep'
  BY <1>1 DEF P!Places, P!InStep
<1> DEFINE h == Head(todo[p])
<1>3. /\ todo[p] \in Seq(P!End) /\ todo \in [P!Processes -> Seq(P!End)]
      /\ h \in P!End /\ h = todo[p][1] /\ Len(todo[p]) >= 1
      /\ Tail(todo[p]) \in Seq(P!End) /\ Len(Tail(todo[p])) = Len(todo[p]) - 1
      /\ \A k \in 1..Len(Tail(todo[p])) : Tail(todo[p])[k] = todo[p][k + 1]
  BY DEF P!Ends
<1>4. h = <<h[1], h[2]>>
  BY <1>3 DEF P!End
<1>5. /\ todo' \in [P!Processes -> Seq(P!End)] /\ todo'[p] = Tail(todo[p])
      /\ \A u \in P!Processes : u # p => todo'[u] = todo[u]
  BY <1>3
<1>6. open' = open \ {<<p, h[1], h[2]>>}
  OBVIOUS
<1> HIDE DEF h
<1>7. ASSUME NEW u \in P!Processes, NEW q, NEW m,
             \A k \in 1..Len(todo[u]) : todo[u][k] # <<q, m>>
      PROVE  /\ \A k \in 1..Len(todo'[u]) : todo'[u][k] # <<q, m>>
             /\ <<u, q, m>> \in open => <<u, q, m>> \in open'
  <2>1. CASE u = p
    <3>1. \A k \in 1..Len(todo'[u]) : k + 1 \in 1..Len(todo[u]) /\ todo'[u][k] = todo[u][k + 1]
      BY <1>3, <1>5, <2>1
    <3>2. h # <<q, m>>
      BY <1>3, <1>7, <2>1
    <3>3. <<p, h[1], h[2]>> # <<u, q, m>>
      BY <1>4, <3>2
    <3> QED
      BY <1>6, <1>7, <3>1, <3>3
  <2>2. CASE u # p
    <3>1. <<p, h[1], h[2]>> # <<u, q, m>>
      BY <2>2
    <3> QED
      BY <1>5, <1>6, <1>7, <2>2, <3>1
  <2> QED
    BY <2>1, <2>2
<1>8. ASSUME <<"parent", "p2c", "r">> \in open',
             \E k \in 1..Len(todo["parent"]) : todo["parent"][k] = <<"p2c", "r">>
      PROVE  \E k \in 1..Len(todo'["parent"]) : todo'["parent"][k] = <<"p2c", "r">>
  <2>1. PICK k \in 1..Len(todo["parent"]) : todo["parent"][k] = <<"p2c", "r">>
    BY <1>8
  <2>2. CASE p = "parent"
    <3>1. k # 1
      BY <1>3, <1>4, <1>6, <1>8, <2>1, <2>2
    <3>2. k - 1 \in 1..Len(todo'["parent"]) /\ todo'["parent"][k - 1] = todo["parent"][k]
      BY <1>3, <1>5, <2>1, <2>2, <3>1
    <3> QED
      BY <2>1, <3>2
  <2>3. CASE p # "parent"
    BY <1>5, <2>1, <2>3 DEF P!Processes
  <2> QED
    BY <2>2, <2>3
<1>9. "parent" \in P!Processes /\ "child" \in P!Processes /\ at' = at /\ open' \subseteq open
  BY <1>6 DEF P!Processes
<1>10. P!Ends'
  <2>1. \A u \in P!Processes : at'[u] = "gone" => \A e \in open' : e[1] # u
    BY <1>9 DEF P!Ends
  <2>2. ASSUME at["parent"] \in {"write", "read"}
        PROVE  /\ <<"parent", "p2c", "w">> \in open'
               /\ \A k \in 1..Len(todo'["parent"]) : todo'["parent"][k] # <<"p2c", "w">>
    <3>1. /\ <<"parent", "p2c", "w">> \in open
          /\ \A k \in 1..Len(todo["parent"]) : todo["parent"][k] # <<"p2c", "w">>
      BY <2>2 DEF P!Ends
    <3> QED
      BY <3>1, <1>7, <1>9
  <2>3. ASSUME at["parent"] \in {"write", "read"}, <<"parent", "p2c", "r">> \in open'
        PROVE  \E k \in 1..Len(todo'["parent"]) : todo'["parent"][k] = <<"p2c", "r">>
    <3>1. \E k \in 1..Len(todo["parent"]) : todo["parent"][k] = <<"p2c", "r">>
      BY <1>9, <2>3 DEF P!Ends
    <3> QED
      BY <3>1, <1>8, <2>3
  <2>4. ASSUME at["child"] \in {"write", "read"}
        PROVE  /\ <<"child", "c2p", "w">> \in open'
               /\ \A k \in 1..Len(todo'["child"]) : todo'["child"][k] # <<"c2p", "w">>
    <3>1. /\ <<"child", "c2p", "w">> \in open
          /\ \A k \in 1..Len(todo["child"]) : todo["child"][k] # <<"c2p", "w">>
      BY <2>4 DEF P!Ends
    <3> QED
      BY <3>1, <1>7, <1>9
  <2> QED
    BY <1>5, <1>9, <2>1, <2>2, <2>3, <2>4 DEF P!Ends
<1> QED
  BY <1>2, <1>10

(* The other ends: who can still be read from, who can still be written to. *)
LEMMA OtherEnds ==
  ASSUME P!IndInv
  PROVE  /\ P!Calls("parent", "write") /\ P!Held("p2c", "r") => at["child"] # "gone"
         /\ at["parent"] \in {"write", "read"} => ~P!AtEof("p2c")
         /\ at["child"] \in {"write", "read"} => ~P!AtEof("c2p")
<1> USE DEF P!IndInv, P!Ends, P!Processes
<1>1. ASSUME P!Calls("parent", "write"), P!Held("p2c", "r"), at["child"] = "gone" PROVE FALSE
  <2>1. <<"parent", "p2c", "r">> \notin open
    BY <1>1 DEF P!Calls
  <2>2. <<"child", "p2c", "r">>[1] = "child"
    OBVIOUS
  <2>3. <<"child", "p2c", "r">> \notin open
    BY <1>1, <2>2
  <2> QED
    BY <1>1, <2>1, <2>3, SMTT(30) DEF P!Held
<1>2. ASSUME at["parent"] \in {"write", "read"} PROVE ~P!AtEof("p2c")
  BY <1>2 DEF P!AtEof, P!Held
<1>3. ASSUME at["child"] \in {"write", "read"} PROVE ~P!AtEof("c2p")
  BY <1>3 DEF P!AtEof, P!Held
<1> QED
  BY <1>1, <1>2, <1>3

(* A byte that goes through a pipe: who had it, and who has it now. *)
LEMMA BounceStep ==
  ASSUME P!IndInv, P!Echo \/ P!Serve \/ P!Return
  PROVE  P!IndInv'
<1> USE DEF P!IndInv, P!Processes, P!Pipes, P!Calls
<1>0. /\ at \in [P!Processes -> {"unborn", "write", "read", "wait", "exit", "gone"}]
      /\ bytes \in [P!Pipes -> Nat]
  BY DEF P!Places
<1>1. CASE P!ReadByte("child", "p2c", "write") /\ P!Echo
  <2>1. at' = [at EXCEPT !["child"] = "write"] /\ bytes' = [bytes EXCEPT !["p2c"] = @ - 1]
        /\ bytes["p2c"] > 0 /\ UNCHANGED <<version, exchanges, todo, open, bounces, warned, reported>>
        /\ at["child"] = "read"
    BY <1>1 DEF P!ReadByte, P!Echo
  <2>2. P!InPlay' = P!InPlay
    BY <1>0, <2>1 DEF P!InPlay
  <2>3. P!Places'
    BY <1>0, <2>1, <2>2, SMTT(30) DEF P!Places
  <2>4. P!Ends'
    BY <1>0, <2>1 DEF P!Ends
  <2>5. P!InStep'
    BY <1>0, <2>1, <2>2 DEF P!InStep, P!Places
  <2> QED
    BY <2>3, <2>4, <2>5, SMTT(30)
<1>2. CASE P!WriteByte("child", "c2p", "read") /\ P!Echo
  <2>1. at' = [at EXCEPT !["child"] = "read"] /\ bytes' = [bytes EXCEPT !["c2p"] = @ + 1]
        /\ UNCHANGED <<version, exchanges, todo, open, bounces, warned, reported>>
        /\ at["child"] = "write"
    BY <1>2 DEF P!WriteByte, P!Echo
  <2>2. P!InPlay' = P!InPlay
    BY <1>0, <2>1 DEF P!InPlay
  <2>3. P!Places'
    BY <1>0, <2>1, <2>2, SMTT(30) DEF P!Places
  <2>4. P!Ends'
    BY <1>0, <2>1 DEF P!Ends
  <2>5. P!InStep'
    BY <1>0, <2>1, <2>2 DEF P!InStep, P!Places
  <2> QED
    BY <2>3, <2>4, <2>5, SMTT(30)
<1>3. CASE P!Serve
  <2>1. at' = [at EXCEPT !["parent"] = "read"] /\ bytes' = [bytes EXCEPT !["p2c"] = @ + 1]
        /\ UNCHANGED <<version, exchanges, todo, open, bounces, warned, reported>>
        /\ at["parent"] = "write" /\ at["child"] # "gone"
    BY <1>3, OtherEnds DEF P!WriteByte, P!Serve
  <2>2. P!InPlay = 0 /\ P!InPlay' = P!InPlay + 1
    BY <1>0, <2>1 DEF P!InPlay, P!InStep
  <2>3. P!Places'
    BY <1>0, <2>1, <2>2, SMTT(30) DEF P!Places
  <2>4. P!Ends'
    BY <1>0, <2>1 DEF P!Ends
  <2>5. P!InStep'
    BY <1>0, <2>1, <2>2 DEF P!InStep, P!Places
  <2> QED
    BY <2>3, <2>4, <2>5, SMTT(30)
<1>4. CASE P!Return
  <2>1. at' = [at EXCEPT !["parent"] = "write"] /\ bytes' = [bytes EXCEPT !["c2p"] = @ - 1]
        /\ UNCHANGED <<version, exchanges, todo, open, warned, reported>>
        /\ at["parent"] = "read" /\ bytes["c2p"] > 0
    BY <1>4 DEF P!ReadByte, P!Return
  <2>2. P!InPlay \in Nat /\ P!InPlay' \in Nat /\ P!InPlay = P!InPlay' + 1
    BY <1>0, <2>1 DEF P!InPlay
  <2>3. ~reported
    BY <2>1, Zenon DEF P!Places
  <2>4. P!InPlay <= 1
    BY DEF P!InStep
  <2>5. \A m, n \in Nat : m = n + 1 /\ m <= 1 => m = 1 /\ n = 0
    OBVIOUS
  <2>6. P!InPlay = 1 /\ P!InPlay' = 0
    BY <2>2, <2>4, <2>5, ZenonT(30)
  <2>7. P!Places'
    BY <1>0, <2>1, <2>2, <2>3, <2>6, SMTT(30) DEF P!Places
  <2>8. P!Ends'
    BY <1>0, <2>1 DEF P!Ends
  <2>9. P!InStep'
    BY <1>0, <2>1, <2>2, <2>3, <2>6, SMTT(30) DEF P!InStep, P!Places
  <2> QED
    BY <2>7, <2>8, <2>9
<1> QED
  BY <1>1, <1>2, <1>3, <1>4 DEF P!Echo

(* A loop is left: the child's after the parent's, the parent's when every *)
(* exchange has taken place or the child has gone.                         *)
LEMMA LeaveStep ==
  ASSUME P!IndInv, P!ChildEof \/ P!LoopEnds \/ (P!ParentEof /\ version = "main")
  PROVE  P!IndInv'
<1> USE DEF P!IndInv, P!Processes, P!Pipes, P!Calls
<1>0. /\ at \in [P!Processes -> {"unborn", "write", "read", "wait", "exit", "gone"}]
      /\ bytes \in [P!Pipes -> Nat] /\ todo \in [P!Processes -> Seq(P!End)]
  BY DEF P!Places, P!Ends
<1>1. CASE P!ChildEof
  <2>1. /\ at' = [at EXCEPT !["child"] = "exit"] /\ at["child"] = "read"
        /\ todo' = [todo EXCEPT !["child"] = <<<<"p2c", "r">>, <<"c2p", "w">>>>]
        /\ UNCHANGED <<version, exchanges, open, bytes, bounces, warned, reported>>
        /\ at["parent"] \in {"wait", "gone"}
    BY <1>0, <1>1, OtherEnds DEF P!ChildEof, P!Places
  <2>2. P!InPlay' = P!InPlay
    BY <1>0, <2>1 DEF P!InPlay
  <2>3. todo' \in [P!Processes -> Seq(P!End)]
    BY <1>0, <2>1, CloseLists
  <2>4. P!Places'
    BY <1>0, <2>1, <2>2, SMTT(30) DEF P!Places
  <2>5. P!Ends'
    BY <1>0, <2>1, <2>3, SMTT(30) DEF P!Ends
  <2>6. P!InStep'
    BY <1>0, <2>1, <2>2 DEF P!InStep, P!Places
  <2> QED
    BY <2>4, <2>5, <2>6, SMTT(30)
<1>2. CASE P!LoopEnds \/ (P!ParentEof /\ version = "main")
  <2>1. /\ at' = [at EXCEPT !["parent"] = "wait"] /\ at["parent"] \in {"write", "read"}
        /\ todo' = [todo EXCEPT !["parent"] = P!LastCloses]
        /\ UNCHANGED <<version, exchanges, open, bytes, bounces, reported>>
        /\ bounces >= exchanges \/ warned'
    BY <1>2, SMTT(30) DEF P!LoopEnds, P!ParentEof, P!Finish
  <2>2. /\ warned' => at["child"] = "gone"
        /\ at["parent"] = "read" => at["child"] = "gone"
    BY <1>0, <1>2, OtherEnds, SMTT(30) DEF P!LoopEnds, P!ParentEof, P!Places, P!InStep
  <2>3. P!InPlay' = P!InPlay
    BY <1>0, <2>1 DEF P!InPlay
  <2>4. todo' \in [P!Processes -> Seq(P!End)]
    BY <1>0, <2>1, CloseLists, SMTT(30)
  <2>5. P!Places'
    BY <1>0, <2>1, <2>2, <2>3, SMTT(30) DEF P!Places
  <2>6. P!Ends'
    BY <1>0, <2>1, <2>2, <2>4, SMTT(30) DEF P!Ends
  <2>7. P!InStep'
    BY <1>0, <2>1, <2>2, <2>3, SMTT(30) DEF P!InStep, P!Places
  <2> QED
    BY <2>5, <2>6, <2>7, SMTT(30)
<1> QED
  BY <1>1, <1>2

(* A process ends: it fails to be born, dies of a call, or is done. *)
LEMMA GoneStep ==
  ASSUME P!IndInv, \/ P!NoFork \/ P!BrokenPipe("child", "c2p") \/ P!BrokenPipe("parent", "p2c")
                   \/ P!ChildExit \/ P!WaitPid \/ (P!ParentEof /\ version # "main")
                   \/ \E p \in P!Processes : P!CallFails(p)
  PROVE  P!IndInv'
<1> USE DEF P!IndInv, P!Calls
<1>0. /\ at \in [P!Processes -> {"unborn", "write", "read", "wait", "exit", "gone"}]
      /\ "parent" \in P!Processes /\ "child" \in P!Processes
      /\ (reported => at["parent"] = "gone") /\ (warned => at["child"] = "gone")
      /\ (reported => at["child"] = "gone" /\ (bounces >= exchanges \/ warned))
  BY DEF P!Places, P!InStep, P!Processes
<1>1. CASE P!NoFork
  BY <1>0, <1>1, ExitStep DEF P!NoFork, P!Unborn, P!Exit
<1>2. CASE P!BrokenPipe("child", "c2p")
  BY <1>0, <1>2, ExitStep DEF P!BrokenPipe, P!Exit
<1>3. CASE P!BrokenPipe("parent", "p2c")
  BY <1>0, <1>3, ExitStep DEF P!BrokenPipe, P!Exit
<1>4. CASE P!ChildExit
  BY <1>0, <1>4, ExitStep DEF P!ChildExit, P!Exit
<1>5. CASE P!WaitPid
  BY <1>0, <1>5, ExitStep, ZenonT(30) DEF P!WaitPid, P!Exit, P!Places
<1>6. CASE P!ParentEof /\ version # "main"
  <2>1. at["parent"] = "read" /\ at["child"] = "gone"
    BY <1>0, <1>6, OtherEnds, SMTT(30) DEF P!ParentEof, P!Places, P!InStep
  <2> QED
    BY <1>0, <1>6, <2>1, ExitStep DEF P!ParentEof, P!Exit
<1>7. ASSUME NEW p \in P!Processes, P!CallFails(p) PROVE P!IndInv'
  BY <1>0, <1>7, ExitStep DEF P!CallFails, P!Exit
<1> QED
  BY <1>1, <1>2, <1>3, <1>4, <1>5, <1>6, <1>7, SMTT(30)

(* One byte is in play and only while the parent waits for it, each EOF    *)
(* means what it should, and the report is true: for any number of         *)
(* exchanges, and whichever call of either process fails.                  *)
THEOREM PingPongSafety == P!Spec => []InStep
<1>1. P!IndInv /\ [P!Next]_P!vars => P!IndInv'
  <2> SUFFICES ASSUME P!IndInv, [P!Next]_P!vars PROVE P!IndInv'
    BY SMTT(30)
  <2>1. CASE UNCHANGED P!vars
    BY <2>1 DEF P!vars, P!IndInv, P!InStep, P!Places, P!Ends, P!InPlay
  <2>2. "parent" \in P!Processes /\ "child" \in P!Processes
    BY DEF P!Processes
  <2> QED
    BY <2>1, <2>2, ForkStep, CloseStep, BounceStep, LeaveStep, GoneStep
    DEF P!Next, P!Child, P!Parent
<1>2. P!IndInv => InStep
  BY DEF P!IndInv, InStep
<1> QED
  BY <1>1, <1>2, PingPongInit, PTL DEF P!Spec

-----------------------------------------------------------------------------
(* rb_lock.c *)

(* How many values the ring holds, by its indices. *)
LEMMA LockRingCount ==
  ASSUME R!RingInv
  PROVE  \E n \in Nat : /\ Distance(n, head, tail, Wrap) /\ n <= Capacity
                        /\ R!Contents = Window(buf, tail, n, Capacity) /\ Len(R!Contents) = n
<1>1. Capacity \in Nat \ {0} /\ Wrap \in Nat \ {0} /\ head \in Int /\ tail \in Int
  BY RingAssumption DEF R!RingInv
<1>2. PICK n \in Nat : n = ((head - tail) % Wrap)
  BY <1>1
<1>3. n <= Capacity
  BY <1>2 DEF R!RingInv, R!Wrapped
<1>4. R!Contents = Window(buf, tail, n, Capacity)
  BY <1>2 DEF R!Contents, R!Wrapped, R!Slot, Window
<1>5. Len(Window(buf, tail, n, Capacity)) = n
  BY DEF Window
<1> QED
  BY <1>2, <1>3, <1>4, <1>5 DEF Distance

(* A write appends a value to the ring, ... *)
LEMMA EnqueueAppends ==
  ASSUME R!RingInv, ~R!Full, NEW value \in Int, R!Enqueue(value)
  PROVE  /\ Len(R!Contents) < Capacity /\ R!Contents' = Append(R!Contents, value)
         /\ R!RingInv'
<1>1. Wraps(Wrap, Capacity)
  BY RingAssumption DEF Wraps
<1>2. /\ Capacity \in Nat \ {0} /\ Wrap \in Nat \ {0} /\ head \in Int /\ tail \in Int
      /\ buf \in [0..(Capacity - 1) -> Int]
  BY RingAssumption DEF R!RingInv, R!Slots
<1>3. PICK n \in Nat : /\ Distance(n, head, tail, Wrap) /\ n <= Capacity
                       /\ R!Contents = Window(buf, tail, n, Capacity) /\ Len(R!Contents) = n
  BY LockRingCount
<1>4. n < Capacity /\ n \in Int
  BY <1>2, <1>3 DEF Distance, R!Full, R!Wrapped
<1>5. HeadMoves(Capacity, Wrap, head, tail, n)
  BY <1>1, <1>2, <1>3, <1>4, HeadAdvances, ZenonT(60)
<1>6. /\ buf' = [buf EXCEPT ![head % Capacity] = value]
      /\ head' = ((head + 1) % Wrap) /\ tail' = tail
  BY DEF R!Enqueue, R!Slot, R!Wrapped
<1>7. ((head' - tail') % Wrap) = n + 1 /\ (head % Capacity) = ((tail + n) % Capacity)
  BY <1>5, <1>6, Zenon DEF HeadMoves, Distance
<1>8. R!Contents' = Window(buf', tail, n + 1, Capacity)
  BY <1>6, <1>7 DEF R!Contents, R!Wrapped, R!Slot, Window
<1>9. PutAppends(buf, tail, n, Capacity, value)
  BY <1>2, <1>4, RingPut, ZenonT(60)
<1>10. R!Contents' = Append(R!Contents, value)
  BY <1>3, <1>6, <1>7, <1>8, <1>9 DEF PutAppends
<1>11. buf' \in [R!Slots -> Int]
  BY <1>2, <1>6 DEF R!Slots
<1>12. head' \in 0..(Wrap - 1) /\ tail' \in 0..(Wrap - 1)
  BY <1>2, <1>6 DEF R!RingInv
<1>13. R!Wrapped(head' - tail') <= Capacity
  BY <1>2, <1>4, <1>7, SMTT(30) DEF R!Wrapped
<1> QED
  BY <1>3, <1>4, <1>10, <1>11, <1>12, <1>13, SMTT(30) DEF R!RingInv

(* ... and a read takes the oldest one. *)
LEMMA DequeueTakes ==
  ASSUME R!RingInv, ~R!Empty, R!Dequeue
  PROVE  /\ R!Contents # <<>> /\ R!Contents' = Tail(R!Contents)
         /\ got' = Append(got, Head(R!Contents))
         /\ R!RingInv'
<1>1. Wraps(Wrap, Capacity)
  BY RingAssumption DEF Wraps
<1>2. /\ Capacity \in Nat \ {0} /\ Wrap \in Nat \ {0}
      /\ head \in 0..(Wrap - 1) /\ tail \in 0..(Wrap - 1)
      /\ buf \in [0..(Capacity - 1) -> Int]
  BY RingAssumption DEF R!RingInv, R!Slots
<1>3. PICK n \in Nat : /\ Distance(n, head, tail, Wrap) /\ n <= Capacity
                       /\ R!Contents = Window(buf, tail, n, Capacity) /\ Len(R!Contents) = n
  BY LockRingCount
<1>4. head # tail /\ n \in Int
  BY DEF R!Empty
<1>5. TailMoves(Capacity, Wrap, head, tail, n)
  BY <1>1, <1>2, <1>3, <1>4, TailAdvances, ZenonT(60)
<1>6. n > 0 /\ SameSlot((tail + 1) % Wrap, tail + 1, Capacity)
  BY <1>5 DEF TailMoves
<1>7. /\ got' = Append(got, buf[tail % Capacity])
      /\ buf' = buf /\ head' = head /\ tail' = ((tail + 1) % Wrap)
  BY DEF R!Dequeue, R!Slot, R!Wrapped
<1>8. ((head' - tail') % Wrap) = n - 1
  BY <1>5, <1>7, Zenon DEF TailMoves, Distance
<1>9. R!Contents' = Window(buf, tail', n - 1, Capacity)
  BY <1>7, <1>8 DEF R!Contents, R!Wrapped, R!Slot, Window
<1>10. GetTakes(buf, tail, n, Capacity, tail')
  <2>1. tail \in Int /\ tail' \in Int
    BY <1>2, <1>7
  <2> QED
    BY <1>2, <1>6, <1>7, <2>1, RingGet, ZenonT(60)
<1>11. R!Contents # <<>> /\ R!Contents' = Tail(R!Contents)
  BY <1>3, <1>9, <1>10 DEF GetTakes
<1>12. got' = Append(got, Head(R!Contents))
  BY <1>3, <1>7, <1>10 DEF GetTakes
<1>13. buf' \in [R!Slots -> Int] /\ head' \in 0..(Wrap - 1) /\ tail' \in 0..(Wrap - 1)
  BY <1>2, <1>7, SMTT(30) DEF R!Slots
<1>14. R!Wrapped(head' - tail') <= Capacity
  BY <1>2, <1>3, <1>8, SMTT(30) DEF R!Wrapped
<1> QED
  BY <1>11, <1>12, <1>13, <1>14, SMTT(30) DEF R!RingInv

(* Steps that leave the ring alone keep it as it is. *)
LEMMA RingUntouched ==
  ASSUME R!RingInv, UNCHANGED R!ringVars
  PROVE  R!RingInv' /\ UNCHANGED <<R!Contents, got>>
  BY DEF R!RingInv, R!ringVars, R!Contents, R!Wrapped, R!Slot

(* What the steps that write, and those that read, come to. *)
LEMMA PutStep ==
  ASSUME R!RingInv, ~R!Full, NEW value \in 0..(IF NTries > NItems THEN NTries - 1 ELSE NItems - 1),
         R!Enqueue(value)
  PROVE  R!RingInv' /\ R!Fifo!Next
<1>1. value \in Int /\ got' = got
  BY RingAssumption DEF R!Enqueue
<1>2. Len(R!Contents) < Capacity /\ R!Contents' = Append(R!Contents, value) /\ R!RingInv'
  BY <1>1, EnqueueAppends
<1>3. R!Fifo!Put(value)
  BY <1>1, <1>2 DEF R!Fifo!Put
<1> QED
  BY <1>2, <1>3 DEF R!Fifo!Next

LEMMA GetStep ==
  ASSUME R!RingInv, ~R!Empty, R!Dequeue
  PROVE  R!RingInv' /\ R!Fifo!Next
  BY DequeueTakes DEF R!Fifo!Next, R!Fifo!Get

LEMMA LockRingStep ==
  ASSUME R!IndInv, [R!Next]_R!vars
  PROVE  R!IndInv' /\ [R!Fifo!Next]_<<R!Contents, got>>
<1> USE DEF R!IndInv
<1>1. R!RingInv /\ R!LoopInv
  OBVIOUS
<1>2. CASE R!Write
  <2>1. CASE R!Full /\ R!CondWait("prod")
    <3>1. R!LoopInv'
      BY <1>1, <1>2, <2>1 DEF R!Write, R!CondWait, R!LoopInv, R!Threads, R!Labels
    <3> QED
      BY <1>1, <2>1, <3>1, RingUntouched, SMTT(30) DEF R!CondWait
  <2>2. CASE ~R!Full /\ R!Enqueue(ringI["prod"]) /\ R!CondSignal("prod", "cons")
    <3>1. ringI["prod"] \in 0..(IF NTries > NItems THEN NTries - 1 ELSE NItems - 1)
      BY <1>1, <1>2, RingAssumption, SMTT(30) DEF R!Write, R!LoopInv, R!Threads
    <3>2. R!LoopInv'
      BY <1>1, <1>2, <2>2 DEF R!Write, R!CondSignal, R!LoopInv, R!Threads, R!Labels
    <3> QED
      BY <1>1, <2>2, <3>1, <3>2, PutStep, SMTT(30)
  <2> QED
    BY <1>2, <2>1, <2>2 DEF R!Write
<1>3. CASE R!Read
  <2>1. CASE R!Empty /\ R!CondWait("cons")
    <3>1. R!LoopInv'
      BY <1>1, <1>3, <2>1 DEF R!Read, R!CondWait, R!LoopInv, R!Threads, R!Labels
    <3> QED
      BY <1>1, <2>1, <3>1, RingUntouched, SMTT(30) DEF R!CondWait
  <2>2. CASE ~R!Empty /\ R!Dequeue /\ R!CondSignal("cons", "prod")
    <3>1. R!LoopInv'
      BY <1>1, <1>3, <2>2 DEF R!Read, R!CondSignal, R!LoopInv, R!Threads, R!Labels
    <3> QED
      BY <1>1, <2>2, <3>1, GetStep, SMTT(30)
  <2> QED
    BY <1>3, <2>1, <2>2 DEF R!Read
<1>4. CASE R!TryWrite
  <2>1. tried \in 0..(IF NTries > NItems THEN NTries - 1 ELSE NItems - 1)
    BY <1>1, <1>4, RingAssumption, SMTT(30) DEF R!TryWrite, R!LoopInv
  <2>2. R!LoopInv'
    BY <1>1, <1>4 DEF R!TryWrite, R!LoopInv
  <2> QED
    BY <1>1, <1>4, <2>1, <2>2, PutStep, SMTT(30) DEF R!TryWrite
<1>5. CASE R!TryRead
  <2>1. R!LoopInv'
    BY <1>1, <1>5 DEF R!TryRead, R!LoopInv
  <2> QED
    BY <1>1, <1>5, <2>1, GetStep, SMTT(30) DEF R!TryRead
<1>6. ASSUME NEW t \in R!Threads, R!Lock(t) \/ R!Unlock(t) \/ R!SpuriousWakeup(t)
      PROVE  R!LoopInv' /\ UNCHANGED R!ringVars
  <2>1. CASE R!Lock(t) \/ R!SpuriousWakeup(t)
    BY <1>1, <2>1, SMTT(30) DEF R!Lock, R!SpuriousWakeup, R!LoopInv, R!Threads, R!Labels
  <2>2. CASE R!Unlock(t)
    BY <1>1, <2>2, SMTT(30) DEF R!Unlock, R!Loop, R!LoopInv, R!Threads, R!Labels
  <2> QED
    BY <1>6, <2>1, <2>2, SMTT(30)
<1>7. ASSUME R!Main \/ R!CreateFails \/ UNCHANGED R!vars
      PROVE  R!LoopInv' /\ UNCHANGED R!ringVars
  <2> USE DEF R!LoopInv, R!Threads, R!Labels
  <2>1. CASE R!CreateConsumer \/ R!CreateProducer
    BY <1>1, <2>1, SMTT(30) DEF R!CreateConsumer, R!CreateProducer
  <2>2. CASE R!CreateFails \/ R!Join
    BY <1>1, <2>2, SMTT(30) DEF R!CreateFails, R!Join
  <2>3. CASE UNCHANGED R!vars
    BY <1>1, <2>3 DEF R!vars, R!ringVars
  <2> QED
    BY <1>7, <2>1, <2>2, <2>3, SMTT(30) DEF R!Main
<1>8. ASSUME R!LoopInv', UNCHANGED R!ringVars
      PROVE  R!IndInv' /\ UNCHANGED <<R!Contents, got>>
  BY <1>1, <1>8, RingUntouched
<1> QED
  BY <1>2, <1>3, <1>4, <1>5, <1>6, <1>7, <1>8, SMTT(30) DEF R!Next, R!Producer, R!Consumer, R!Threads

(* Both ends of the mutexed ring and the single-threaded test together see *)
(* a bounded first-in first-out queue, for every capacity that divides the *)
(* number of index values and however often the indices wrap: each step of *)
(* the program puts one value, gets the oldest one, or changes nothing.    *)
THEOREM LockRingIsFifo == R!Spec => ImplementsBoundedFifo
<1>1. R!Init => R!IndInv /\ R!Fifo!Init
  <2> SUFFICES ASSUME R!Init PROVE R!IndInv /\ R!Fifo!Init
    OBVIOUS
  <2>1. ((head - tail) % Wrap) = 0
    <3>1. head - tail = 0 /\ Wrap \in Nat \ {0} /\ 0 \in Int
      BY RingAssumption DEF R!Init
    <3>2. 0 = Wrap * 0 + 0 /\ 0 <= 0 /\ 0 < Wrap
      BY <3>1
    <3> QED
      BY <3>1, <3>2, ModUnique, ZenonT(60)
  <2>2. R!RingInv
    BY <2>1, RingAssumption DEF R!Init, R!RingInv, R!Wrapped
  <2>3. R!LoopInv
    BY RingAssumption DEF R!Init, R!LoopInv, R!Threads, R!Labels
  <2>4. R!Contents = <<>> /\ got = <<>>
    BY <2>1 DEF R!Init, R!Contents, R!Wrapped
  <2> QED
    BY <2>2, <2>3, <2>4 DEF R!IndInv, R!Fifo!Init
<1> QED
  BY <1>1, LockRingStep, PTL DEF R!Spec, ImplementsBoundedFifo, R!ImplementsBoundedFifo, R!Fifo!Spec

-----------------------------------------------------------------------------
(* Whichever drill is started, what the theorems above say of each holds   *)
(* of all: the ones that are not started stay as they are.                 *)
THEOREM DrillsSafety ==
  DrillSpec => [](MaxOfOffers /\ TotalsAsserted /\ CheckLog /\ InStep) /\ ImplementsBoundedFifo
<1>1. DrillInit => Init /\ H!Init /\ R!Init /\ P!Init
  BY SMTT(30) DEF DrillInit
<1>2. [DrillNext]_drillVars
        => [Next]_vars /\ [H!Next]_H!vars /\ [R!Next]_R!vars /\ [P!Next]_P!vars
  BY DEF DrillNext, drillVars, handoffVars, lockRingVars, pingPongVars, vars, H!vars, R!vars, P!vars
<1>3. DrillSpec => Spec /\ H!Spec /\ R!Spec /\ P!Spec
  BY <1>1, <1>2, PTL DEF DrillSpec, Spec, H!Spec, R!Spec, P!Spec
<1> QED
  BY <1>3, MaxSafety, TotalsSafety, HandoffSafety, PingPongSafety, LockRingIsFifo, PTL
=============================================================================
