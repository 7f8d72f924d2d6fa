----------------------------- MODULE VisibleRace -----------------------------
(***************************************************************************)
(* concurrency/00-visible_race/visible_race.c: four threads increment one  *)
(* volatile counter without a lock.  volatile keeps the compiler from      *)
(* turning the loop into one addition; every turn is a load and a store.   *)
(***************************************************************************)
EXTENDS Integers

CONSTANT Reps  \* iter, the argument of main

VARIABLES total,   \* c
          at,      \* at[t]: where thread t is
          made,    \* made[t]: its loop variable
          reg,     \* reg[t]: the value it has loaded
          mainAt   \* "create", "join", "end", or "undefined"

vars == <<total, at, made, reg, mainAt>>

Threads == 0..3
Loop(n) == IF n < Reps THEN "load" ELSE "done"

Init ==
  /\ total = 0 /\ mainAt = "create"
  /\ at = [t \in Threads |-> "unborn"]
  /\ made = [t \in Threads |-> 0] /\ reg = [t \in Threads |-> 0]

(* main: pthread_create, whose result nobody looks at; *)
Create(t) ==
  /\ mainAt = "create" /\ at[t] = "unborn" /\ \A u \in Threads : u < t => at[u] # "unborn"
  /\ at' = [at EXCEPT ![t] = Loop(0)]
  /\ mainAt' = IF t = 3 THEN "join" ELSE "create"
  /\ UNCHANGED <<total, made, reg>>

(* when it fails, main joins a thread that its array does not name.        *)
CreateFails ==
  /\ mainAt = "create"
  /\ mainAt' = "undefined"
  /\ UNCHANGED <<total, at, made, reg>>

(* worker: the two halves of the increment *)
Load(t) ==
  /\ at[t] = "load"
  /\ reg' = [reg EXCEPT ![t] = total]
  /\ at' = [at EXCEPT ![t] = "store"]
  /\ UNCHANGED <<total, made, mainAt>>

StoreLoaded(t) ==
  /\ at[t] = "store"
  /\ total' = reg[t]
  /\ made' = [made EXCEPT ![t] = @ + 1]
  /\ at' = [at EXCEPT ![t] = Loop(made[t] + 1)]
  /\ UNCHANGED <<reg, mainAt>>

Store(t) ==
  /\ at[t] = "store"
  /\ total' = reg[t] + 1
  /\ made' = [made EXCEPT ![t] = @ + 1]
  /\ at' = [at EXCEPT ![t] = Loop(made[t] + 1)]
  /\ UNCHANGED <<reg, mainAt>>

(* main: pthread_join, and the total is printed. *)
Join ==
  /\ mainAt = "join" /\ \A t \in Threads : at[t] = "done"
  /\ mainAt' = "end"
  /\ UNCHANGED <<total, at, made, reg>>

Next == (\E t \in Threads : Create(t) \/ Load(t) \/ Store(t)) \/ CreateFails \/ Join

Spec == Init /\ [][Next]_vars

-----------------------------------------------------------------------------
Made == made[0] + made[1] + made[2] + made[3]
Stored == \E t \in Threads : made[t] > 0

(* How wrong the printed total can be: the race loses increments and never *)
(* makes one up, but it cannot lose all.  Nothing that is ever stored is 0 *)
(* and two increments survive however many there are: a thread's last load *)
(* follows its own first store.                                            *)
RaceOutcome ==
  /\ total <= Made /\ (Stored => total >= 1)
  /\ mainAt = "end" => \A n \in 0..2 : Reps >= n => total >= n

-----------------------------------------------------------------------------
TypeOK ==
  /\ total \in Nat /\ made \in [Threads -> Nat] /\ reg \in [Threads -> Nat]
  /\ at \in [Threads -> {"unborn", "load", "store", "done"}]
  /\ mainAt \in {"create", "join", "end", "undefined"}

(* What thread t knows: the value it has loaded was stored before, by      *)
(* itself at least if this is not its first turn.                          *)
ThreadInv(t) ==
  /\ reg[t] <= Made
  /\ at[t] = "store" /\ made[t] > 0 => reg[t] >= 1
  /\ at[t] = "done" => made[t] >= Reps

(* The inductive invariant: a total below 2 is not the last one, for only  *)
(* the first turn of a thread stores a 1.                                  *)
IndInv ==
  /\ TypeOK /\ total <= Made /\ (Stored => total >= 1)
  /\ \A t \in Threads : ThreadInv(t)
  /\ Reps >= 2 /\ total < 2 => \E t \in Threads : at[t] # "done"
  /\ mainAt = "end" => \A t \in Threads : at[t] = "done"
=============================================================================
