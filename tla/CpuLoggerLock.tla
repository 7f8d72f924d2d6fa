--------------------------- MODULE CpuLoggerLock ---------------------------
(***************************************************************************)
(* CPU_logger/cpu_logger_lock.c: CPUs stage entries locally and append     *)
(* them to a shared log while they own its busy flag.                      *)
(*                                                                         *)
(* The mutex g_mtx guards nothing but g_busy and is never held across a    *)
(* step of the copy, so each of its critical sections is one step.         *)
(* pthread_cond_wait gives the mutex up and sleeps in one step.            *)
(***************************************************************************)
EXTENDS LoggerCpus, Sequences

CONSTANTS LocalCap,     \* LOCAL_CAP
          LogCapacity   \* LOG_CAPACITY

ASSUME LocalCapAssumption == LocalCap \in Nat \ {0}
(* main lowers ncpu until every entry has a place. *)
ASSUME LogCapacityAssumption == LogCapacity \in Nat /\ Cardinality(Cpus) * Entries <= LogCapacity

VARIABLES log,      \* g_log: entry k of CPU c is <<c, k>>
          count,    \* g_count, a plain size_t
          busy,     \* g_busy
          pc,       \* pc[c]: where CPU c is
          i,        \* i[c]: how many entries c has made
          pending,  \* pending[c]: the numbers of the entries staged
          k,        \* k[c]: how many of them flush has copied
          reg       \* reg[c]: the value of g_count that flush has loaded

vars == <<log, count, busy, pc, i, pending, k, reg>>

Places == 0..(LogCapacity - 1)
NoEntry == <<>>

Init ==
  /\ log = [s \in Places |-> NoEntry]
  /\ count = 0
  /\ busy = FALSE
  /\ pc = [c \in Cpus |-> "unborn"]
  /\ i = [c \in Cpus |-> 0]
  /\ pending = [c \in Cpus |-> <<>>]
  /\ k = [c \in Cpus |-> 0]
  /\ reg = [c \in Cpus |-> 0]

(* main creates the workers. *)
Create(c) ==
  /\ pc[c] = "unborn"
  /\ pc' = [pc EXCEPT ![c] = "loop"]
  /\ UNCHANGED <<log, count, busy, i, pending, k, reg>>

-----------------------------------------------------------------------------
(* worker, one turn of the loop: make_entry, then try_begin_write; when    *)
(* the log is busy, sleep only if nothing more can be staged.              *)
Stage(c) ==
  /\ pc[c] = "loop" /\ i[c] < Entries
  /\ pending' = [pending EXCEPT ![c] = Append(@, i[c])]
  /\ i' = [i EXCEPT ![c] = @ + 1]
  /\ pc' = [pc EXCEPT ![c] = IF ~busy THEN "flush"
                             ELSE IF Len(pending[c]) + 1 = LocalCap THEN "wait"
                             ELSE "loop"]
  /\ busy' = TRUE
  /\ UNCHANGED <<log, count, k, reg>>

(* worker, after the loop: drain what is left. *)
Drain(c) ==
  /\ pc[c] = "loop" /\ i[c] = Entries
  /\ pc' = [pc EXCEPT ![c] = IF pending[c] = <<>> THEN "done" ELSE "wait"]
  /\ UNCHANGED <<log, count, busy, i, pending, k, reg>>

(* wait_begin_write: test the flag under the mutex; wait or claim. *)
WaitBeginUntested(c) ==
  /\ pc[c] = "wait"
  /\ pc' = [pc EXCEPT ![c] = "flush"]
  /\ busy' = TRUE
  /\ UNCHANGED <<log, count, i, pending, k, reg>>

WaitBegin(c) ==
  /\ pc[c] = "wait"
  /\ pc' = [pc EXCEPT ![c] = IF busy THEN "asleep" ELSE "flush"]
  /\ busy' = TRUE
  /\ UNCHANGED <<log, count, i, pending, k, reg>>

SpuriousWakeup(c) ==
  /\ pc[c] = "asleep"
  /\ pc' = [pc EXCEPT ![c] = "wait"]
  /\ UNCHANGED <<log, count, busy, i, pending, k, reg>>

-----------------------------------------------------------------------------
(* flush: the test and the load of g_count, ... *)
FlushLoad(c) ==
  /\ pc[c] = "flush"
  /\ k[c] < Len(pending[c]) /\ count < LogCapacity
  /\ reg' = [reg EXCEPT ![c] = count]
  /\ pc' = [pc EXCEPT ![c] = "copy"]
  /\ UNCHANGED <<log, count, busy, i, pending, k>>

(* ... the slow memcpy, and the store of g_count. *)
FlushCopySame(c) ==
  /\ pc[c] = "copy"
  /\ log' = [log EXCEPT ![reg[c]] = <<c, pending[c][1]>>]
  /\ count' = reg[c] + 1
  /\ k' = [k EXCEPT ![c] = @ + 1]
  /\ pc' = [pc EXCEPT ![c] = "flush"]
  /\ UNCHANGED <<busy, i, pending, reg>>

FlushCopy(c) ==
  /\ pc[c] = "copy"
  /\ log' = [log EXCEPT ![reg[c]] = <<c, pending[c][k[c] + 1]>>]
  /\ count' = reg[c] + 1
  /\ k' = [k EXCEPT ![c] = @ + 1]
  /\ pc' = [pc EXCEPT ![c] = "flush"]
  /\ UNCHANGED <<busy, i, pending, reg>>

(* end_write: clear the flag and broadcast; back in worker n = 0. *)
EndWriteSilent(c) ==
  /\ pc[c] = "flush"
  /\ k[c] = Len(pending[c]) \/ count >= LogCapacity
  /\ busy' = FALSE
  /\ pc' = [pc EXCEPT ![c] = "loop"]
  /\ pending' = [pending EXCEPT ![c] = <<>>]
  /\ k' = [k EXCEPT ![c] = 0]
  /\ UNCHANGED <<log, count, i, reg>>

EndWrite(c) ==
  /\ pc[c] = "flush"
  /\ k[c] = Len(pending[c]) \/ count >= LogCapacity
  /\ busy' = FALSE
  /\ pc' = [d \in Cpus |-> IF d = c THEN "loop"
                           ELSE IF pc[d] = "asleep" THEN "wait" ELSE pc[d]]
  /\ pending' = [pending EXCEPT ![c] = <<>>]
  /\ k' = [k EXCEPT ![c] = 0]
  /\ UNCHANGED <<log, count, i, reg>>

-----------------------------------------------------------------------------
Worker(c) ==
  Stage(c) \/ Drain(c) \/ WaitBegin(c) \/ FlushLoad(c) \/ FlushCopy(c) \/ EndWrite(c)

Next == \E c \in Cpus : Create(c) \/ Worker(c) \/ SpuriousWakeup(c)

Spec == Init /\ [][Next]_vars

(* main creates every worker and the scheduler runs every one that is not  *)
(* asleep.                                                                 *)
Fairness == \A c \in Cpus : WF_vars(Create(c)) /\ WF_vars(Worker(c))

FairSpec == Spec /\ Fairness

TypeOK ==
  /\ count \in Nat /\ busy \in BOOLEAN
  /\ pc \in [Cpus -> {"unborn", "loop", "wait", "asleep", "flush", "copy", "done"}]
  /\ i \in [Cpus -> 0..Entries] /\ reg \in [Cpus -> Nat]

-----------------------------------------------------------------------------
Flushing(c) == pc[c] \in {"flush", "copy"}
AllDone == \A c \in Cpus : pc[c] = "done"

(* "g_count: touched only by the busy owner" (cpu_logger_lock.c:37): one   *)
(* CPU at a time copies, although no mutex is held, and the index it has   *)
(* loaded is still g_count when it stores the next one.                    *)
OneOwner ==
  /\ \A c, d \in Cpus : Flushing(c) /\ Flushing(d) => c = d
  /\ \A c \in Cpus : Flushing(c) => busy
  /\ \A c \in Cpus : pc[c] = "copy" => reg[c] = count

(* Nobody sleeps unless some CPU is writing, whose end_write will wake it. *)
NoLostBroadcast == (\E c \in Cpus : pc[c] = "asleep") => \E d \in Cpus : Flushing(d)

(* The inductive invariant behind the two: the flag is set exactly while   *)
(* somebody writes.                                                        *)
BusyMeansFlushing == busy <=> \E c \in Cpus : Flushing(c)
IndInv == TypeOK /\ OneOwner /\ NoLostBroadcast /\ BusyMeansFlushing

(* What the log holds, and the number of the first entry CPU c still has   *)
(* to copy to it.                                                          *)
Logged == {log[s] : s \in 0..(count - 1)}
Uncopied(c) == i[c] - (Len(pending[c]) - k[c])

(* At every moment the log holds the entries each CPU has copied, once     *)
(* each and in the order it made them, the staging buffer of the CPU holds *)
(* all the others in that order, and no CPU returns with an entry still    *)
(* staged: main's checks (l.150, l.173).  pending[n++] (l.109) always has  *)
(* a place to store to.                                                    *)
NothingLost ==
  /\ Logged = {e \in Cpus \X (0..(Entries - 1)) : e[2] < Uncopied(e[1])}
  /\ \A s, t \in 0..(count - 1) : s < t /\ log[s][1] = log[t][1] => log[s][2] < log[t][2]
  /\ \A c \in Cpus :
       /\ \A m \in 1..(Len(pending[c]) - k[c]) : pending[c][k[c] + m] = Uncopied(c) + m - 1
       /\ pc[c] = "done" => i[c] = Entries /\ pending[c] = <<>>
       /\ pc[c] = "loop" => Len(pending[c]) < LocalCap

(* Why nothing is lost: a staging buffer holds the last entries made, in   *)
(* order, and the log has exactly count entries, so that flush finds it    *)
(* full only when everybody has copied everything.                         *)
CpuInv(c) ==
  /\ k[c] <= Len(pending[c]) /\ Len(pending[c]) <= i[c]
  /\ \A m \in 1..Len(pending[c]) : pending[c][m] = i[c] - Len(pending[c]) + m - 1
  /\ ~Flushing(c) => k[c] = 0
  /\ pc[c] = "unborn" => pending[c] = <<>>
  /\ pc[c] = "copy" => k[c] < Len(pending[c]) /\ count < LogCapacity
StagingInv ==
  /\ log \in [Places -> (Cpus \X (0..(Entries - 1))) \cup {NoEntry}]
  /\ pending \in [Cpus -> Seq(Nat)] /\ k \in [Cpus -> Nat]
  /\ count = Cardinality(Logged) /\ count <= LogCapacity
  /\ \A c \in Cpus : CpuInv(c)
LogInv == IndInv /\ StagingInv /\ NothingLost

(* Every worker returns: the CPUs that sleep are woken although they wait  *)
(* for each other.                                                         *)
Termination == <>AllDone
=============================================================================
