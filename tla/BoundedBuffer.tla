--------------------------- MODULE BoundedBuffer ---------------------------
(***************************************************************************)
(* Interview/bounded_buffer.c: a bounded queue guarded by a mutex and two  *)
(* condition variables, and the main that drives it with producers and     *)
(* consumers.                                                              *)
(*                                                                         *)
(* The pthread mutex and condition variables are external: a mutex has at  *)
(* most one owner; pthread_cond_wait gives the mutex up and joins the      *)
(* waiters in one step; pthread_cond_signal moves one waiter, if there is  *)
(* one, to the threads that must lock the mutex again; a waiter may also   *)
(* leave by itself (a spurious wakeup).                                    *)
(***************************************************************************)
EXTENDS Integers, Sequences, FiniteSets

CONSTANTS Producers,  \* the writer threads
          Consumers,  \* the reader threads
          Cap,        \* q->cap
          N           \* worker.n, how many items each thread puts or gets

(* main passes cap 4, as many readers as writers, and one N to all. *)
ASSUME CapAssumption == Cap \in Nat \ {0}
ASSUME NAssumption == N \in Nat \ {0}
ASSUME ThreadsAssumption ==
  /\ IsFiniteSet(Producers) /\ IsFiniteSet(Consumers)
  /\ Producers \cap Consumers = {}
  /\ Cardinality(Producers) = Cardinality(Consumers)

VARIABLES buf, head, tail, count,  \* the fields of struct bq
          owner,     \* the threads that own q->mutex
          pc, i,     \* pc[t], i[t]: where worker t is, and its loop variable
          val,       \* val[c]: what bq_get has returned to consumer c
          seen,      \* how often each value has been recorded
          got,       \* the values taken out of buf, in order
          res,       \* what bq_init has set up and nobody has destroyed
          mainPc     \* where main is

vars == <<buf, head, tail, count, owner, pc, i, val, seen, got, res, mainPc>>
queueVars == <<buf, head, tail, count, got>>

Threads == Producers \cup Consumers

(* A producer's k-th value: arg->id * arg->n + k, distinct for all. *)
Values == Producers \X (0..(N - 1))
NoValue == <<>>

Slots == 0..(Cap - 1)

(* What bq_init sets up, in its order. *)
Steps == <<"buf", "mutex", "cond_not_empty", "cond_not_full">>
AllRes == {"buf", "mutex", "cond_not_empty", "cond_not_full"}

(* The threads in pthread_cond_wait on each condition. *)
WaitNotFull == {p \in Producers : pc[p] = "waiting"}
WaitNotEmpty == {c \in Consumers : pc[c] = "waiting"}

Loop(k) == IF k < N THEN "lock" ELSE "done"

Init ==
  /\ buf = [s \in Slots |-> NoValue]
  /\ head = 0 /\ tail = 0 /\ count = 0
  /\ owner = {}
  /\ pc = [t \in Threads |-> "unborn"]
  /\ i = [t \in Threads |-> 0]
  /\ val = [c \in Consumers |-> NoValue]
  /\ seen = [v \in Values |-> 0]
  /\ got = <<>>
  /\ res = {}
  /\ mainPc = "init"

(* While main creates and joins the threads, the queue is whole. *)
Running == mainPc \in {"create", "join"}

-----------------------------------------------------------------------------
(* pthread_mutex_lock, at the start of an operation and at the end of      *)
(* pthread_cond_wait.                                                      *)
Lock(t) ==
  /\ Running /\ pc[t] \in {"lock", "relock"}
  /\ owner = {}
  /\ owner' = {t}
  /\ pc' = [pc EXCEPT ![t] = "test"]
  /\ UNCHANGED <<queueVars, i, val, seen, res, mainPc>>

(* pthread_cond_wait: unlock and wait. *)
CondWait(t) ==
  /\ owner' = owner \ {t}
  /\ pc' = [pc EXCEPT ![t] = "waiting"]
  /\ UNCHANGED <<queueVars, val>>

(* pthread_cond_signal by t, which goes on to label. *)
CondSignal(t, waiters, label) ==
  \/ waiters = {} /\ pc' = [pc EXCEPT ![t] = label]
  \/ \E w \in waiters : pc' = [pc EXCEPT ![t] = label, ![w] = "relock"]

SpuriousWakeup(t) ==
  /\ Running /\ pc[t] = "waiting"
  /\ pc' = [pc EXCEPT ![t] = "relock"]
  /\ UNCHANGED <<queueVars, owner, i, val, seen, res, mainPc>>

-----------------------------------------------------------------------------
(* bq_put, with the mutex held: the while and, when there is room, the     *)
(* rest up to the unlock.                                                  *)
PutSignalsNotFull(p) ==
  /\ Running /\ pc[p] = "test" /\ p \in Producers
  /\ \/ count = Cap /\ CondWait(p)
     \/ /\ count # Cap
        /\ buf' = [buf EXCEPT ![head] = <<p, i[p]>>]
        /\ head' = (head + 1) % Cap
        /\ count' = count + 1
        /\ CondSignal(p, WaitNotFull, "unlock")
        /\ UNCHANGED <<tail, owner, val, got>>
  /\ UNCHANGED <<i, seen, res, mainPc>>

Put(p) ==
  /\ Running /\ pc[p] = "test" /\ p \in Producers
  /\ \/ count = Cap /\ CondWait(p)
     \/ /\ count # Cap
        /\ buf' = [buf EXCEPT ![head] = <<p, i[p]>>]
        /\ head' = (head + 1) % Cap
        /\ count' = count + 1
        /\ CondSignal(p, WaitNotEmpty, "unlock")
        /\ UNCHANGED <<tail, owner, val, got>>
  /\ UNCHANGED <<i, seen, res, mainPc>>

(* bq_get, with the mutex held. *)
GetWithoutTest(c) ==
  /\ Running /\ pc[c] = "test" /\ c \in Consumers
  /\ val' = [val EXCEPT ![c] = buf[tail]]
  /\ tail' = (tail + 1) % Cap
  /\ count' = count - 1
  /\ got' = Append(got, buf[tail])
  /\ CondSignal(c, WaitNotFull, "unlock")
  /\ UNCHANGED <<buf, head, owner, i, seen, res, mainPc>>

Get(c) ==
  /\ Running /\ pc[c] = "test" /\ c \in Consumers
  /\ \/ count = 0 /\ CondWait(c)
     \/ /\ count # 0
        /\ val' = [val EXCEPT ![c] = buf[tail]]
        /\ tail' = (tail + 1) % Cap
        /\ count' = count - 1
        /\ got' = Append(got, buf[tail])
        /\ CondSignal(c, WaitNotFull, "unlock")
        /\ UNCHANGED <<buf, head, owner>>
  /\ UNCHANGED <<i, seen, res, mainPc>>

(* pthread_mutex_unlock; a producer starts its next turn, a consumer has   *)
(* its value to record.                                                    *)
Unlock(t) ==
  /\ Running /\ pc[t] = "unlock"
  /\ owner' = owner \ {t}
  /\ IF t \in Producers
     THEN i' = [i EXCEPT ![t] = @ + 1] /\ pc' = [pc EXCEPT ![t] = Loop(i[t] + 1)]
     ELSE i' = i /\ pc' = [pc EXCEPT ![t] = "record"]
  /\ UNCHANGED <<queueVars, val, seen, res, mainPc>>

(* consumer: arg->seen[bq_get(arg->q)] += 1, outside the lock *)
Record(c) ==
  /\ Running /\ pc[c] = "record"
  /\ c \in Consumers
  /\ seen' = [seen EXCEPT ![val[c]] = @ + 1]
  /\ i' = [i EXCEPT ![c] = @ + 1]
  /\ pc' = [pc EXCEPT ![c] = Loop(i[c] + 1)]
  /\ UNCHANGED <<queueVars, owner, val, res, mainPc>>

(* A thread goes on using the destroyed queue or the freed seen: from here *)
(* on anything may happen, and nothing more is said of the process.        *)
UseAfterDestroy(t) ==
  /\ mainPc = "exiting"
  /\ pc[t] \notin {"unborn", "done"}
  /\ mainPc' = "undefined"
  /\ UNCHANGED <<queueVars, owner, pc, i, val, seen, res>>

-----------------------------------------------------------------------------
(* bq_init: one step after the other. *)
MainInitStep ==
  /\ mainPc = "init"
  /\ res' = res \cup {Steps[Cardinality(res) + 1]}
  /\ mainPc' = IF res' = AllRes THEN "create" ELSE "init"
  /\ UNCHANGED <<queueVars, owner, pc, i, val, seen>>

(* bq_init: what the labels reached by the goto of a failed step undo. *)
UndoneFromBuf(step) == {"buf"}
Undone(step) ==
  IF step = "cond_not_full" THEN {"cond_not_empty", "mutex", "buf"}
  ELSE IF step = "cond_not_empty" THEN {"mutex", "buf"}
  ELSE IF step = "mutex" THEN {"buf"} ELSE {}

MainInitFails ==
  /\ mainPc = "init"
  /\ res' = res \ Undone(Steps[Cardinality(res) + 1])
  /\ mainPc' = "exited"
  /\ UNCHANGED <<queueVars, owner, pc, i, val, seen>>

(* The two creation loops: all writers, then all readers. *)
MainCreate(t) ==
  /\ mainPc = "create"
  /\ pc[t] = "unborn"
  /\ t \in Consumers => \A p \in Producers : pc[p] # "unborn"
  /\ pc' = [pc EXCEPT ![t] = Loop(0)]
  /\ mainPc' = IF \A u \in Threads : pc'[u] # "unborn" THEN "join" ELSE "create"
  /\ UNCHANGED <<queueVars, owner, i, val, seen, res>>

(* A pthread_create fails: bq_destroy, free(seen), and then exit(1). *)
MainCreateFails ==
  /\ mainPc = "create"
  /\ res' = {}
  /\ mainPc' = "exiting"
  /\ UNCHANGED <<queueVars, owner, pc, i, val, seen>>

MainExit ==
  /\ mainPc = "exiting"
  /\ mainPc' = "exited"
  /\ UNCHANGED <<queueVars, owner, pc, i, val, seen, res>>

(* Both join loops, the assertions on seen, bq_destroy. *)
MainJoin ==
  /\ mainPc = "join"
  /\ \A t \in Threads : pc[t] = "done"
  /\ res' = {}
  /\ mainPc' = "finished"
  /\ UNCHANGED <<queueVars, owner, pc, i, val, seen>>

-----------------------------------------------------------------------------
Worker(t) == Lock(t) \/ Put(t) \/ Get(t) \/ Unlock(t) \/ Record(t) \/ UseAfterDestroy(t)
MainSucceeds == MainInitStep \/ MainExit \/ MainJoin \/ \E t \in Threads : MainCreate(t)

Next ==
  \/ \E t \in Threads : Worker(t) \/ SpuriousWakeup(t)
  \/ MainSucceeds
  \/ MainInitFails
  \/ MainCreateFails

Spec == Init /\ [][Next]_vars

(* Every thread that can run does, and main does not stall.  The mutex     *)
(* need not be fair: a thread that keeps losing it wins when the others    *)
(* have run out of items.  What does have to end is spurious wakeups: a    *)
(* waiter that wakes, locks and waits again for ever could keep the mutex  *)
(* from everybody else.                                                    *)
Fairness ==
  /\ \A t \in Threads : WF_vars(Worker(t))
  /\ WF_vars(MainSucceeds)
  /\ <>[][\A t \in Threads : ~SpuriousWakeup(t)]_vars

FairSpec == Spec /\ Fairness

TypeOK ==
  /\ count \in 0..Cap
  /\ pc \in [Threads -> {"unborn", "lock", "relock", "test", "waiting", "unlock", "record", "done"}]

-----------------------------------------------------------------------------
(* pthread_cond_signal wakes only one thread, and some other thread may    *)
(* run first, yet no signal is lost: while a consumer waits, there are at  *)
(* least as many consumers awake for the test as items; while a producer   *)
(* waits, at least as many producers as free slots.                        *)
Awake(T) == {t \in T : pc[t] \in {"test", "relock"}}
NoLostSignal ==
  /\ WaitNotEmpty # {} => count <= Cardinality(Awake(Consumers))
  /\ WaitNotFull # {} => Cap - count <= Cardinality(Awake(Producers))

(* bq_init's comment (bounded_buffer.c:27): on failure it undoes the steps *)
(* that succeeded.  Whichever way main ends nothing is left set up, and    *)
(* when it has joined all threads every value was got once, as it asserts  *)
(* (l.155).                                                                *)
EndsClean ==
  /\ mainPc \in {"exited", "finished"} => res = {}
  /\ mainPc = "finished" => \A v \in Values : seen[v] = 1

(* bq_destroy's comment (bounded_buffer.c:18): it is called "only once no  *)
(* thread is still using the queue".                                       *)
DestroyedOnlyUnused ==
  mainPc \in {"exiting", "finished"} =>
    \A t \in Threads : pc[t] \in {"unborn", "done"}

(* Nobody waits for ever, although producers and consumers wait for each   *)
(* other and each signal wakes one.                                        *)
Termination == <>(mainPc \in {"exited", "finished", "undefined"})

-----------------------------------------------------------------------------
Contents == [j \in 1..count |-> buf[(tail + j - 1) % Cap]]

Fifo == INSTANCE BoundedFifo WITH Capacity <- Cap, queue <- Contents

(* Values leave in the order in which they came, none lost or repeated. *)
ImplementsBoundedFifo == Fifo!Spec

-----------------------------------------------------------------------------
(* Why the assertions on seen hold, step by step.                          *)
(* The indices and the count of struct bq agree, and slots hold values.    *)
RingInv ==
  /\ head \in Slots /\ tail \in Slots /\ head = (tail + count) % Cap
  /\ buf \in [Slots -> Values \cup {NoValue}]

(* A thread that is not done has turns left. *)
LoopInv ==
  /\ i \in [Threads -> 0..N]
  /\ \A t \in Threads : IF pc[t] = "done" THEN i[t] = N ELSE i[t] < N

(* The values put so far, and the consumers that have got theirs and not   *)
(* recorded it.                                                            *)
Added == {v \in Values : v[2] < i[v[1]] \/ (v[2] = i[v[1]] /\ pc[v[1]] = "unlock")}
Holding == {c \in Consumers : pc[c] \in {"unlock", "record"}}

(* A value is in one place: in the queue, with a consumer, or recorded.    *)
OnePlace ==
  /\ \A j \in 1..count : Contents[j] \in Added /\ seen[Contents[j]] = 0
  /\ \A j, k \in 1..count : Contents[j] = Contents[k] => j = k
  /\ \A c \in Holding : val[c] \in Added /\ seen[val[c]] = 0
  /\ \A c \in Holding : \A j \in 1..count : Contents[j] # val[c]
  /\ \A c, d \in Holding : val[c] = val[d] => c = d
  /\ \A v \in Values : seen[v] = 0 \/ (seen[v] = 1 /\ v \in Added)
  /\ seen \in [Values -> Nat] /\ DOMAIN val = Consumers

(* The consumers have gone round their loops as often as values have been  *)
(* recorded.                                                               *)
Recorded == {v \in Values : seen[v] = 1}
Turns == {x \in Consumers \X (0..(N - 1)) : x[2] < i[x[1]]}
TurnsRecord == Cardinality(Recorded) = Cardinality(Turns)

(* What is set up while bq_init runs, and what is left when main ends. *)
ResInv ==
  /\ mainPc = "init" => res \in {{}, {"buf"}, {"buf", "mutex"}, {"buf", "mutex", "cond_not_empty"}}
  /\ mainPc \in {"exiting", "exited", "finished"} => res = {}
  /\ mainPc = "finished" => \A t \in Threads : pc[t] = "done"

IndInv == TypeOK /\ RingInv /\ LoopInv /\ OnePlace /\ TurnsRecord /\ ResInv
=============================================================================
