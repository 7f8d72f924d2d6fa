--------------------------------- MODULE Cas ---------------------------------
(***************************************************************************)
(* concurrency/04-cas/cas.c: fetch_add and fetch_max written as loops over *)
(* a weak compare-and-swap, and the main that runs the library's fetch_add,*)
(* my_add and my_max one after the other.                                  *)
(*                                                                         *)
(* atomic_compare_exchange_weak may fail although the value is the         *)
(* expected one; when it fails it stores the value it has read into        *)
(* p_snapshot.  The first, acquire load may return any value the counter   *)
(* has had that the thread has not yet gone past; a compare-and-swap       *)
(* reads the latest.  The retry counts are only printed.                   *)
(***************************************************************************)
EXTENDS Integers, FiniteSets

CONSTANTS NumThread,  \* num_thread
          Iter        \* iter

(* main refuses everything else. *)
ASSUME NumThreadAssumption == NumThread \in Nat \ {0}
ASSUME IterAssumption == Iter \in Nat \ {0}

VARIABLES counter,  \* the atomic_long
          phase,    \* what run_threads runs: "generic", "add", "max"; then "end"
          pc,       \* pc[t]: where thread t is
          i,        \* i[t]: its loop variable
          snap,     \* snap[t]: its p_snapshot
          older     \* older[t]: earlier values a first load of t may still return

vars == <<counter, phase, pc, i, snap, older>>

Threads == 0..(NumThread - 1)

Loop(n) == IF n < Iter THEN "load" ELSE "done"

Begin ==
  /\ pc = [t \in Threads |-> "unborn"]
  /\ i = [t \in Threads |-> 0]
  /\ snap = [t \in Threads |-> 0]
  /\ older = [t \in Threads |-> {}]

Init == counter = 0 /\ phase = "generic" /\ Begin

Running == phase \in {"generic", "add", "max"}

(* The value thread t offers to my_max in turn n. *)
Offer(t, n) == n * NumThread + t

(* Every operation on the counter leaves the value it replaces to be read  *)
(* by later first loads of the others.                                     *)
Replace(t, new) ==
  /\ counter' = new
  /\ older' = [u \in Threads |-> IF u = t THEN {} ELSE older[u] \cup {counter}]

Advance(t) ==
  /\ i' = [i EXCEPT ![t] = @ + 1]
  /\ pc' = [pc EXCEPT ![t] = Loop(i[t] + 1)]

-----------------------------------------------------------------------------
(* worker_generinc: atomic_fetch_add *)
FetchAdd(t) ==
  /\ phase = "generic" /\ pc[t] = "load"
  /\ Replace(t, counter + 1)
  /\ Advance(t)
  /\ UNCHANGED <<phase, snap>>

(* my_add, my_max: the first load, which may be stale; what is older than  *)
(* v, and so smaller, t cannot read any more.                              *)
FirstLoad(t, v) ==
  /\ phase \in {"add", "max"} /\ pc[t] = "load"
  /\ v \in older[t] \cup {counter}
  /\ snap' = [snap EXCEPT ![t] = v]
  /\ pc' = [pc EXCEPT ![t] = "cas"]
  /\ older' = [older EXCEPT ![t] = {u \in @ : u >= v}]
  /\ UNCHANGED <<counter, phase, i>>

(* my_add: the compare-and-swap succeeds. *)
AddStoreAnyway(t) ==
  /\ phase = "add" /\ pc[t] = "cas"
  /\ Replace(t, snap[t] + 1)
  /\ Advance(t)
  /\ UNCHANGED <<phase, snap>>

AddSwap(t) ==
  /\ phase = "add" /\ pc[t] = "cas"
  /\ counter = snap[t]
  /\ Replace(t, snap[t] + 1)
  /\ Advance(t)
  /\ UNCHANGED <<phase, snap>>

(* my_max: v is still bigger and the compare-and-swap succeeds, ... *)
MaxStoreAnyway(t) ==
  /\ phase = "max" /\ pc[t] = "cas"
  /\ Offer(t, i[t]) > snap[t]
  /\ Replace(t, Offer(t, i[t]))
  /\ Advance(t)
  /\ UNCHANGED <<phase, snap>>

MaxSwap(t) ==
  /\ phase = "max" /\ pc[t] = "cas"
  /\ Offer(t, i[t]) > snap[t] /\ counter = snap[t]
  /\ Replace(t, Offer(t, i[t]))
  /\ Advance(t)
  /\ UNCHANGED <<phase, snap>>

(* ... or it is not, and nothing is stored. *)
MaxSkip(t) ==
  /\ phase = "max" /\ pc[t] = "cas"
  /\ Offer(t, i[t]) <= snap[t]
  /\ Advance(t)
  /\ UNCHANGED <<counter, phase, snap, older>>

(* Either loop: the compare-and-swap fails, with or without a reason. *)
CasFailsKeeping(t) ==
  /\ phase \in {"add", "max"} /\ pc[t] = "cas"
  /\ phase = "max" => Offer(t, i[t]) > snap[t]
  /\ UNCHANGED vars

CasFails(t) ==
  /\ phase \in {"add", "max"} /\ pc[t] = "cas"
  /\ phase = "max" => Offer(t, i[t]) > snap[t]
  /\ snap' = [snap EXCEPT ![t] = counter]
  /\ older' = [older EXCEPT ![t] = {}]
  /\ UNCHANGED <<counter, phase, pc, i>>

-----------------------------------------------------------------------------
(* run_threads: create the threads; *)
Create(t) ==
  /\ Running /\ pc[t] = "unborn"
  /\ \A u \in Threads : u < t => pc[u] # "unborn"
  /\ pc' = [pc EXCEPT ![t] = Loop(0)]
  /\ UNCHANGED <<counter, phase, i, snap, older>>

(* when one cannot be created, it returns -1 and main returns. *)
CreateFails ==
  /\ Running /\ \E t \in Threads : pc[t] = "unborn"
  /\ phase' = "failed"
  /\ UNCHANGED <<counter, pc, i, snap, older>>

Joined == Running /\ \A t \in Threads : pc[t] = "done"

(* join them; main asserts the result, sets the counter to 0 and runs the  *)
(* next worker.                                                            *)
NextPhase ==
  /\ Joined
  /\ phase' = IF phase = "generic" THEN "add" ELSE IF phase = "add" THEN "max" ELSE "end"
  /\ counter' = IF phase = "max" THEN counter ELSE 0
  /\ pc' = [t \in Threads |-> "unborn"] /\ i' = [t \in Threads |-> 0]
  /\ snap' = [t \in Threads |-> 0] /\ older' = [t \in Threads |-> {}]

-----------------------------------------------------------------------------
Succeeds(t) == FetchAdd(t) \/ AddSwap(t) \/ MaxSwap(t) \/ MaxSkip(t)

Worker(t) ==
  \/ Succeeds(t)
  \/ CasFails(t)
  \/ \E v \in older[t] \cup {counter} : FirstLoad(t, v)

Next == (\E t \in Threads : Worker(t) \/ Create(t)) \/ CreateFails \/ NextPhase

Spec == Init /\ [][Next]_vars

(* Threads are scheduled, and a weak compare-and-swap that can succeed     *)
(* again and again does not fail every time.                               *)
Fairness ==
  /\ \A t \in Threads : WF_vars(Worker(t)) /\ SF_vars(Succeeds(t)) /\ WF_vars(Create(t))
  /\ WF_vars(NextPhase)

FairSpec == Spec /\ Fairness

-----------------------------------------------------------------------------
TypeOK ==
  /\ counter \in Nat
  /\ phase \in {"generic", "add", "max", "end", "failed"}
  /\ pc \in [Threads -> {"unborn", "load", "cas", "done"}]
  /\ i \in [Threads -> Nat] /\ snap \in [Threads -> Nat]
  /\ older \in [Threads -> SUBSET Nat]

(* main's assertions (cas.c:143, 154, 165). *)
TotalsAsserted ==
  Joined => counter = IF phase = "max" THEN Iter * NumThread - 1 ELSE Iter * NumThread

(* my_max has stored the largest value offered so far: no completed offer  *)
(* is above the counter, and the counter is an offer.                      *)
MaxOfOffers ==
  phase = "max" =>
    /\ \A t \in Threads : \A n \in 0..(i[t] - 1) : Offer(t, n) <= counter
    /\ \/ counter = 0
       \/ \E t \in Threads : \E n \in 0..(i[t] - 1) : Offer(t, n) = counter

(* The inductive invariant behind the two.  A thread is in its loop or     *)
(* past it as its variable says;                                           *)
Turns ==
  \A t \in Threads :
    /\ i[t] <= Iter
    /\ pc[t] = "unborn" => i[t] = 0
    /\ pc[t] = "done" => i[t] = Iter
    /\ pc[t] \in {"load", "cas"} => i[t] < Iter

(* no value a thread works with is ahead of the counter, which only grows; *)
NotAhead ==
  \A t \in Threads :
    /\ pc[t] = "cas" => snap[t] <= counter
    /\ \A v \in older[t] : v <= counter

(* and each completed turn has added one.                                  *)
Completed == {s \in Threads \X (0 .. Iter - 1) : s[2] < i[s[1]]}
Counted == phase \in {"generic", "add"} => counter = Cardinality(Completed)

IndInv == TypeOK /\ Turns /\ NotAhead /\ Counted /\ MaxOfOffers

(* Both loops end. *)
Ended == phase \in {"end", "failed"}
=============================================================================
