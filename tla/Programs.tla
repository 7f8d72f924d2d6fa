------------------------------ MODULE Programs ------------------------------
(***************************************************************************)
(* The programs whose modules have variables of their own, side by side;   *)
(* about all but RottingOranges there are theorems.  The one that was      *)
(* started runs; the others stay in their initial state and nothing is     *)
(* required of them.  MCSequential adds the programs that share variables. *)
(***************************************************************************)
EXTENDS ParkingLot, Islands, RottingOranges, RegionProgram, RaceProgram, ParserProgram, CacheProgram

(* create_lot made this lot. *)
ASSUME LotAssumption == LotShape

(* A program that is not started has one initial state. *)
ProgramsInit ==
  /\ prog = "mock4" \/ bytes = <<>>
  /\ prog = "lru" \/ capacity = (CHOOSE c \in Capacities : TRUE)
  /\ prog = "islands" \/ land = {}
  /\ prog = "oranges" \/ start = [c \in Cells |-> 0]
  /\ LotInit /\ IslandInit /\ OrangeInit /\ T!Init /\ V!Init /\ M!Init /\ C!Init

ProgramsNext ==
  \/ prog = "parking" /\ LotNext
     /\ UNCHANGED <<islandVars, orangeVars, regionVars, raceVars, parserVars, cacheVars>>
  \/ prog = "islands" /\ IslandNext
     /\ UNCHANGED <<lotVars, orangeVars, regionVars, raceVars, parserVars, cacheVars>>
  \/ prog = "oranges" /\ OrangeNext
     /\ UNCHANGED <<lotVars, islandVars, regionVars, raceVars, parserVars, cacheVars>>
  \/ prog = "mock1" /\ T!Next
     /\ UNCHANGED <<lotVars, islandVars, orangeVars, raceVars, parserVars, cacheVars>>
  \/ prog = "race" /\ V!Next
     /\ UNCHANGED <<lotVars, islandVars, orangeVars, regionVars, parserVars, cacheVars>>
  \/ prog = "mock4" /\ M!Next
     /\ UNCHANGED <<lotVars, islandVars, orangeVars, regionVars, raceVars, cacheVars>>
  \/ prog = "lru" /\ C!Next
     /\ UNCHANGED <<lotVars, islandVars, orangeVars, regionVars, raceVars, parserVars>>

programVars == <<lotVars, islandVars, orangeVars, regionVars, raceVars, parserVars, cacheVars>>
=============================================================================
