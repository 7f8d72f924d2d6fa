----------------------------- MODULE LoggerCpus -----------------------------
(***************************************************************************)
(* What the two programs of CPU_logger/ have in common: both start one     *)
(* worker for each CPU, and each worker logs the same number of entries.   *)
(***************************************************************************)
EXTENDS Integers, FiniteSets

CONSTANTS Cpus,    \* the ncpu workers
          Entries  \* ENTRIES_PER_CPU

ASSUME CpusAssumption == IsFiniteSet(Cpus) /\ Cpus # {}
ASSUME EntriesAssumption == Entries \in Nat \ {0}
=============================================================================
