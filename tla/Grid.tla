-------------------------------- MODULE Grid --------------------------------
(***************************************************************************)
(* What leetcode/03-number-of-islands.c and 04-rotting-oranges.c share: a  *)
(* grid and the four directions.                                           *)
(***************************************************************************)
EXTENDS Integers, Sequences, FiniteSets

CONSTANTS Rows, Cols

(* The numbers of rows and columns are sizes. *)
ASSUME GridAssumption == Rows \in Nat /\ Cols \in Nat

Cells == (0..(Rows - 1)) \X (0..(Cols - 1))
CellAt(n) == <<n \div Cols, n % Cols>>   \* the n-th cell, row by row

(* dir_x, dir_y *)
Dirs == <<<<-1, 0>>, <<0, 1>>, <<1, 0>>, <<0, -1>>>>

(* The neighbours of c that are in S, in the order the loop over k visits them *)
Beside(c, k) == <<c[1] + Dirs[k][1], c[2] + Dirs[k][2]>>
Taken(c, k, S) == IF Beside(c, k) \in S THEN <<Beside(c, k)>> ELSE <<>>
Around(c, S) == Taken(c, 1, S) \o Taken(c, 2, S) \o Taken(c, 3, S) \o Taken(c, 4, S)

Elems(s) == {s[n] : n \in 1..Len(s)}

-----------------------------------------------------------------------------
Abs(x) == IF x < 0 THEN -x ELSE x
Adjacent(c, d) == Abs(c[1] - d[1]) + Abs(c[2] - d[2]) = 1
=============================================================================
