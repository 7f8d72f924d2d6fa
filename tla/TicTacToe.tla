----------------------------- MODULE TicTacToe -----------------------------
(***************************************************************************)
(* Interview/builds/01-tictactoe/tictactoe.c: two players on an n by n     *)
(* board; k marks in a row win.  main parses its arguments, runs its own   *)
(* tests, and plays.                                                       *)
(*                                                                         *)
(* The cells are the flat array of the code, row after row.  A word of the *)
(* command line is <<v>> when strtol takes all of it as v, and <<>> else.  *)
(***************************************************************************)
EXTENDS Integers, Sequences, FiniteSets, SequencesExt

CONSTANTS MaxBoard,  \* MAX_BRD
          Numbers,   \* the numbers that occur on a command line
          MaxMarks   \* bound on the marks on a board larger than 3 by 3

VARIABLES pc,        \* where main is: "args", "test", "setup", "play", "end"
          board,     \* struct Board
          allocated, \* board.cells points to memory; its contents are kept
          turn,      \* whose turn it is, 0 or 1
          outcome    \* how main ended

vars == <<pc, board, allocated, turn, outcome>>

Symbols == <<"X", "O">>
Symbol(t) == Symbols[t + 1]

-----------------------------------------------------------------------------
InBoard(b, x, y) == x >= 0 /\ x < b.n /\ y >= 0 /\ y < b.n
Cell(b, x, y) == b.cells[b.n * x + y]

(* set_board, when n and k are in range and malloc succeeds *)
ValidBoard(n, k) == 3 <= n /\ n <= MaxBoard /\ 3 <= k /\ k <= n
SetBoard(n, k) ==
  [n |-> n, k |-> k, counter |-> n * n, cells |-> [c \in 0..(n * n - 1) |-> "-"]]

(* make_move: whether the move is possible, and the board after it *)
Possible(b, x, y) == InBoard(b, x, y) /\ Cell(b, x, y) = "-"
MakeMove(b, x, y, s) ==
  [b EXCEPT !.cells[b.n * x + y] = s, !.counter = @ - 1]

(* count_dir: the marks like the one at (x, y) that follow it one way *)
CountDirWrapping(b, x, y, dr, dc) ==
  LET at(i) == b.n * (x + i * dr) + (y + i * dc)
      walk[i \in 1..(b.n * b.n)] ==
        IF at(i) \in DOMAIN b.cells /\ b.cells[at(i)] = Cell(b, x, y) THEN 1 + walk[i + 1] ELSE 0
  IN walk[1]

CountDir(b, x, y, dr, dc) ==
  LET walk[i \in 1..b.n] ==
        IF /\ InBoard(b, x + i * dr, y + i * dc)
           /\ Cell(b, x + i * dr, y + i * dc) = Cell(b, x, y)
        THEN 1 + walk[i + 1] ELSE 0
  IN walk[1]

Dirs == {<<0, 1>>, <<1, 0>>, <<1, 1>>, <<1, -1>>}

IsWin(b, x, y) ==
  \E d \in Dirs :
    1 + CountDir(b, x, y, d[1], d[2]) + CountDir(b, x, y, -d[1], -d[2]) >= b.k

CheckGamestate(b, x, y) ==
  IF IsWin(b, x, y) THEN "win" ELSE IF b.counter = 0 THEN "draw" ELSE "unfinished"

-----------------------------------------------------------------------------
(* test_tictactoe: the boards it sets up, where it places X and where O,   *)
(* the last of these moves and the result it asserts.  (The order of the   *)
(* other moves does not matter to a board.)                                *)
Test(n, k, xs, os, last, result) ==
  [n |-> n, k |-> k, xs |-> xs, os |-> os, last |-> last, result |-> result]

SmallTests ==
  { Test(3, 3, {<<0, 0>>, <<0, 1>>, <<0, 2>>}, {}, <<0, 2>>, "win"),
    Test(3, 3, {<<0, 0>>, <<1, 0>>, <<2, 0>>}, {}, <<2, 0>>, "win"),
    Test(3, 3, {<<0, 0>>, <<1, 1>>, <<2, 2>>}, {}, <<2, 2>>, "win"),
    Test(3, 3, {<<0, 2>>, <<1, 1>>, <<2, 0>>}, {}, <<2, 0>>, "win"),
    Test(3, 3, {<<0, 2>>, <<1, 1>>, <<1, 2>>, <<2, 1>>, <<0, 0>>},
         {<<0, 1>>, <<1, 0>>, <<2, 0>>, <<2, 2>>}, <<0, 0>>, "draw"),
    Test(3, 3, {<<0, 0>>, <<1, 1>>}, {<<0, 2>>}, <<1, 1>>, "unfinished"),
    Test(3, 3, {<<0, 1>>, <<0, 0>>}, {<<0, 2>>}, <<0, 0>>, "unfinished") }

LargeTests ==
  { Test(4, 4, {<<0, 0>>, <<1, 1>>, <<2, 1>>, <<2, 2>>},
         {<<0, 1>>, <<0, 2>>, <<3, 3>>}, <<2, 2>>, "unfinished"),
    Test(5, 5, {<<0, 0>>, <<1, 1>>, <<2, 2>>, <<3, 3>>, <<4, 4>>},
         {<<0, 1>>, <<0, 2>>, <<0, 3>>, <<0, 4>>}, <<4, 4>>, "win"),
    Test(5, 3, {<<1, 0>>, <<2, 1>>, <<3, 2>>}, {}, <<3, 2>>, "win"),
    Test(5, 3, {<<0, 0>>, <<0, 1>>}, {}, <<0, 1>>, "unfinished"),
    Test(5, 4, {<<2, 0>>, <<2, 1>>, <<2, 3>>, <<2, 4>>}, {}, <<2, 4>>, "unfinished"),
    Test(5, 4, {<<2, 0>>, <<2, 1>>, <<2, 2>>, <<2, 3>>, <<2, 4>>}, {}, <<2, 2>>, "win"),
    Test(5, 3, {<<0, 4>>, <<1, 1>>, <<1, 0>>}, {}, <<1, 0>>, "unfinished") }

Tests == SmallTests \cup LargeTests

(* The board of a test: one make_move per mark. *)
Placed(b, moves, s) ==
  FoldLeft(LAMBDA c, m : MakeMove(c, m[1], m[2], s), b, SetToSeq(moves))

Passes(t) ==
  /\ ValidBoard(t.n, t.k)
  /\ t.xs \cap t.os = {}
  /\ \A m \in t.xs \cup t.os : Possible(SetBoard(t.n, t.k), m[1], m[2])
  /\ CheckGamestate(Placed(Placed(SetBoard(t.n, t.k), t.xs, "X"), t.os, "O"),
                    t.last[1], t.last[2]) = t.result

(* The last two assertions: boards that are never created. *)
Refuses == ~ValidBoard(3, 4) /\ ~ValidBoard(5, 2)

-----------------------------------------------------------------------------
Init ==
  /\ pc = "args" /\ outcome = "none" /\ turn = 0 /\ allocated = FALSE
  /\ board = [n |-> 0, k |-> 0, counter |-> 0, cells |-> <<>>]

(* parse_int: the range is that of the caller. *)
ParseInt(word, lo, hi) == word # <<>> /\ word[1] >= lo /\ word[1] <= hi

Words == {<<>>} \cup {<<v>> : v \in Numbers}

(* parse_input: n defaults to 3, k to n; args is argv without argv[0]. *)
ArgN(args) == IF Len(args) >= 1 THEN args[1] ELSE <<3>>
ArgK(args) == IF Len(args) = 2 THEN args[2] ELSE ArgN(args)
Accepted(args) ==
  /\ Len(args) <= 2
  /\ ParseInt(ArgN(args), 3, MaxBoard)
  /\ ParseInt(ArgK(args), 3, ArgN(args)[1])

ParseInput(args) ==
  /\ pc = "args"
  /\ IF Accepted(args)
       THEN /\ pc' = "test" /\ outcome' = outcome
            /\ board' = [board EXCEPT !.n = ArgN(args)[1], !.k = ArgK(args)[1]]
       ELSE pc' = "end" /\ outcome' = "usage" /\ UNCHANGED board
  /\ UNCHANGED <<allocated, turn>>

(* main calls test_tictactoe, whose assertions abort. *)
TestTictactoe ==
  /\ pc = "test"
  /\ IF Refuses /\ \A t \in Tests : Passes(t)
       THEN pc' = "setup" /\ outcome' = outcome
       ELSE pc' = "end" /\ outcome' = "assertion"
  /\ UNCHANGED <<board, allocated, turn>>

(* malloc fails, in a test (which aborts) or in main (which returns). *)
MallocFails ==
  /\ pc \in {"test", "setup"}
  /\ pc' = "end" /\ outcome' = "nomem"
  /\ UNCHANGED <<board, allocated, turn>>

MainSetBoard ==
  /\ pc = "setup" /\ ValidBoard(board.n, board.k)
  /\ board' = SetBoard(board.n, board.k)
  /\ allocated' = TRUE
  /\ pc' = "play"
  /\ UNCHANGED <<turn, outcome>>

-----------------------------------------------------------------------------
(* fgets gets a line that sscanf does not read two numbers from. *)
Unreadable == pc = "play" /\ UNCHANGED vars

(* Players also name squares outside of the board. *)
Coordinates == -1..board.n

(* make_move refuses: the same player is asked again. *)
Refused ==
  /\ pc = "play"
  /\ {q \in Coordinates \X Coordinates : ~Possible(board, q[1], q[2])} # {}
  /\ UNCHANGED vars

(* make_move, check_gamestate, and what main makes of the result: after a  *)
(* win and after a draw it calls del_board and returns.                    *)
Move(x, y) ==
  /\ pc = "play" /\ Possible(board, x, y)
  /\ board.n > 3 => board.n * board.n - board.counter < MaxMarks
  /\ LET b == MakeMove(board, x, y, Symbol(turn))
         result == CheckGamestate(b, x, y)
     IN /\ board' = b
        /\ IF result = "unfinished"
             THEN turn' = (turn + 1) % 2 /\ UNCHANGED <<pc, allocated, outcome>>
             ELSE pc' = "end" /\ outcome' = result /\ allocated' = FALSE /\ UNCHANGED turn

(* fgets reports the end of the input: del_board, return. *)
Aborted ==
  /\ pc = "play"
  /\ pc' = "end" /\ outcome' = "aborted" /\ allocated' = FALSE
  /\ UNCHANGED <<board, turn>>

Next ==
  \/ \E args \in BoundedSeq(Words, 3) : ParseInput(args)
  \/ TestTictactoe \/ MallocFails \/ MainSetBoard
  \/ \E x, y \in Coordinates : Move(x, y)
  \/ Refused \/ Unreadable \/ Aborted

Spec == Init /\ [][Next]_vars

-----------------------------------------------------------------------------
Squares == (0..(board.n - 1)) \X (0..(board.n - 1))
Marks(s) == {q \in Squares : Cell(board, q[1], q[2]) = s}

(* Somewhere on the board there are k marks s in a row. *)
HasRow(s) ==
  \E q \in Marks(s), d \in Dirs :
    \A i \in 1..(board.k - 1) : <<q[1] + i * d[1], q[2] + i * d[2]>> \in Marks(s)

(* Looking only at the rows through the last move (tictactoe.c:127) finds  *)
(* every row on the board: a game goes on while nobody has a row and a     *)
(* square is free, a win is announced to the one who has a row, a draw     *)
(* when the board is full without one, and the tests main runs first agree *)
(* with all this.  The players alternate although lines are unreadable and *)
(* moves refused (l.481), and the counter that decides a draw is the       *)
(* number of free squares.                                                 *)
VerdictExact ==
  /\ pc = "play" =>
       /\ ~HasRow("X") /\ ~HasRow("O") /\ Marks("-") # {}
       /\ Cardinality(Marks("X")) = Cardinality(Marks("O")) + turn
       /\ board.counter = Cardinality(Marks("-"))
  /\ outcome = "win" => HasRow(Symbol(turn)) /\ ~HasRow(Symbol(1 - turn))
  /\ outcome = "draw" => ~HasRow("X") /\ ~HasRow("O") /\ Marks("-") = {}
  /\ outcome # "assertion"
=============================================================================
