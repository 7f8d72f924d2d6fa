---------------------------- MODULE RaceProgram -----------------------------
(***************************************************************************)
(* VisibleRace as one of the programs.                                     *)
(***************************************************************************)
EXTENDS Program, Integers

CONSTANT Reps

(* The program is given an int. *)
ASSUME RepsAssumption == Reps \in Int

VARIABLES total, at, made, loaded, raceMain
raceVars == <<total, at, made, loaded, raceMain>>

V == INSTANCE VisibleRace WITH reg <- loaded, mainAt <- raceMain

(* What the racing increments of visible_race.c can print: VisibleRace.    *)
RaceOutcome == prog = "race" => V!RaceOutcome
=============================================================================
