------------------------------- MODULE Islands -------------------------------
(***************************************************************************)
(* leetcode/03-number-of-islands.c: numberOfIslands scans the grid and     *)
(* floods each island it meets through a queue of rows * cols entries.     *)
(***************************************************************************)
EXTENDS Grid

VARIABLES land,     \* the cells that held '1' when the function was called
          grid,     \* the cells that hold '1' now
          queue,    \* the cells from q.tail to q.head
          put,      \* q.head: how many cells were ever put
          scanned,  \* how many cells the two outer loops have passed
          islands   \* num_islands; -1 after exit(1)

islandVars == <<land, grid, queue, put, scanned, islands>>

IslandInit ==
  /\ land \in SUBSET Cells /\ grid = land
  /\ queue = <<>> /\ put = 0 /\ scanned = 0 /\ islands = 0

(* malloc fails. *)
NoMemory ==
  /\ scanned = 0 /\ put = 0 /\ islands = 0
  /\ islands' = -1
  /\ UNCHANGED <<land, grid, queue, put, scanned>>

(* One turn of the inner scan: water is passed, land is queued and sunk. *)
ScanLand ==
  /\ queue = <<>> /\ scanned < Rows * Cols /\ islands >= 0
  /\ scanned' = scanned + 1
  /\ IF CellAt(scanned) \in grid
       THEN /\ queue' = <<CellAt(scanned)>> /\ put' = put + 1
            /\ grid' = grid \ {CellAt(scanned)}
            /\ islands' = islands + 1
       ELSE UNCHANGED <<queue, put, grid, islands>>
  /\ UNCHANGED land

(* One turn of the flood *)
FloodSinkingLate ==
  /\ queue # <<>>
  /\ LET found == Around(Head(queue), grid)
     IN /\ queue' = Tail(queue) \o found
        /\ put' = put + Len(found)
        /\ grid' = grid \ {Head(queue)}
  /\ UNCHANGED <<land, scanned, islands>>

Flood ==
  /\ queue # <<>>
  /\ LET found == Around(Head(queue), grid)
     IN /\ queue' = Tail(queue) \o found
        /\ put' = put + Len(found)
        /\ grid' = grid \ Elems(found)
  /\ UNCHANGED <<land, scanned, islands>>

IslandNext == NoMemory \/ ScanLand \/ Flood

IslandSpec == IslandInit /\ [][IslandNext]_islandVars

-----------------------------------------------------------------------------
(* An island: a smallest set of land that has the neighbours of its cells. *)
Closed == {S \in SUBSET land : S # {} /\ \A d \in S, e \in land : Adjacent(d, e) => e \in S}
AllIslands ==
  LET closed == Closed IN {S \in closed : \A R \in closed : R \subseteq S => R = S}
Sunk == land \ grid

(* "every cell is queued at most once, so rows * cols entries are always   *)
(* enough" (l.38); and between two floods every island has sunk whole or   *)
(* not at all, with as many counted as have sunk: all, after the scan.     *)
IslandsExact ==
  /\ put = Cardinality(Sunk)
  /\ queue = <<>> /\ islands >= 0 =>
       /\ Sunk \in Closed \cup {{}}
       /\ islands = Cardinality({S \in AllIslands : S \subseteq Sunk})
       /\ scanned = Rows * Cols => Sunk = land

-----------------------------------------------------------------------------
IslandTypeOK ==
  /\ land \subseteq Cells /\ grid \subseteq land /\ queue \in Seq(Cells)
  /\ put \in Nat /\ scanned \in 0..(Rows * Cols) /\ islands \in Nat \cup {-1}

Touched == {S \in AllIslands : S \cap Sunk # {}}

(* A cell that has sunk waits in the queue or has no land around it that   *)
(* has not, and no land is left behind the scan.                           *)
IslandInv ==
  /\ IslandTypeOK
  /\ Elems(queue) \subseteq Sunk
  /\ \A c \in Sunk \ Elems(queue) : \A d \in land : Adjacent(c, d) => d \in Sunk
  /\ put = Cardinality(Sunk)
  /\ islands >= 0 => islands = Cardinality(Touched)
  /\ \A n \in 0..(scanned - 1) : CellAt(n) \notin grid
=============================================================================
