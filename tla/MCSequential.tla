---------------------------- MODULE MCSequential ----------------------------
(***************************************************************************)
(* The programs of which only safety is asked, for TLC, in one state       *)
(* space.  To those of Programs come the ones that only TLC checks; they   *)
(* share the variables v1, v2, ...                                         *)
(***************************************************************************)
EXTENDS Programs

CONSTANTS MaxBoard, Numbers, MaxMarks,                   \* of TicTacToe
          Addends, Targets, MaxNums,                     \* of TwoSum
          MaxLen, MaxPoint, MaxItems, MemSize, Bits      \* of Lists and Arrays

VARIABLES v1, v2, v3, v4, v5, v6

G == INSTANCE TicTacToe WITH pc <- v1, board <- v2, allocated <- v3, turn <- v4, outcome <- v5
S == INSTANCE TwoSum WITH Numbers <- Addends,
       nums <- v1, target <- v2, hash <- v3, map <- v4, i <- v5, result <- v6
L == INSTANCE Lists WITH task <- v1, in <- v2, out <- v3
A == INSTANCE Arrays WITH task <- v1, in <- v2, out <- v3

-----------------------------------------------------------------------------
(* The variables the program does not have *)
No6 == v6 = 0
No4 == v4 = 0 /\ v5 = 0 /\ No6
No1 == v1 = 0 /\ v2 = 0 /\ v3 = 0 /\ No4

Started ==
  \/ prog \in {"parking", "islands", "oranges", "mock1", "race", "mock4", "lru"} /\ No1
  \/ prog = "tictactoe" /\ G!Init /\ No6
  \/ prog = "twosum" /\ S!Init
  \/ prog = "lists" /\ L!Init /\ No4
  \/ prog = "arrays" /\ A!Init /\ No4

SequentialInit == Started /\ ProgramsInit

SequentialNext ==
  \/ ProgramsNext /\ UNCHANGED <<prog, v1, v2, v3, v4, v5, v6>>
  \/ prog = "tictactoe" /\ G!Next /\ UNCHANGED <<programVars, prog, v6>>
  \/ prog = "twosum" /\ S!Next /\ UNCHANGED <<programVars, prog>>
  \/ prog = "lists" /\ L!Compute /\ UNCHANGED <<programVars, prog, v4, v5, v6>>
  \/ prog = "arrays" /\ A!Compute /\ UNCHANGED <<programVars, prog, v4, v5, v6>>

SequentialSpec ==
  SequentialInit /\ [][SequentialNext]_<<programVars, prog, v1, v2, v3, v4, v5, v6>>

-----------------------------------------------------------------------------
(* is_win finds every row there is on the board: TicTacToe.                *)
VerdictExact == prog = "tictactoe" => G!VerdictExact

(* The other exercises return what they should for every argument up to    *)
(* the bounds: TwoSum, Lists and Arrays.                                   *)
ExercisesExact ==
  /\ prog = "twosum" => S!Exact
  /\ prog = "lists" => L!Exact
  /\ prog = "arrays" => A!Exact
=============================================================================
