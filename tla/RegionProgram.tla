--------------------------- MODULE RegionProgram ----------------------------
(***************************************************************************)
(* RegionTable as one of the programs: its constants and variables, and    *)
(* what is asked of it.                                                    *)
(***************************************************************************)
EXTENDS Program, Integers, Sequences

CONSTANTS UMax, Hvas, TableSize

(* Addresses are unsigned. *)
ASSUME RegionAssumption == UMax \in Nat /\ Hvas \subseteq 0..UMax /\ TableSize \in Nat

VARIABLES regions, table, gpa, lo, hi
regionVars == <<regions, table, gpa, lo, hi>>

T == INSTANCE RegionTable WITH MaxRegions <- TableSize

(* The table of mock1_rcu.c stays sorted and gives the verdicts of the     *)
(* unsorted one of mock1.c: RegionTable.                                   *)
SameVerdicts == prog = "mock1" => T!SameVerdicts

(* Both searches translate every address right: RegionTable.               *)
TranslationsExact == prog = "mock1" => T!TranslationsExact
=============================================================================
