------------------------------ MODULE PingPong ------------------------------
(***************************************************************************)
(* ping-pong/main.c and ping-pong/main2.c: a parent and its child bounce   *)
(* one byte over two pipes.                                                *)
(*                                                                         *)
(* After fork both processes hold both ends of both pipes.  A read blocks  *)
(* while the pipe is empty and anybody still holds its write end; a write  *)
(* to a pipe nobody can read kills the writer (SIGPIPE).  A call that a    *)
(* signal interrupts is made again: a step that changes nothing.           *)
(***************************************************************************)
EXTENDS Integers, Sequences

CONSTANT Counts  \* the numbers of exchanges asked for

VARIABLES version,   \* which of the two programs
          exchanges, \* exchanges, reps
          at,        \* at[p]: where process p is
          todo,      \* todo[p]: the pipe ends p closes next
          open,      \* the pipe ends held: <<process, pipe, "r" or "w">>
          bytes,     \* bytes[q]: how many bytes are in pipe q
          i,         \* the loop variable of the parent
          warned,    \* "unexpected EOF from child" was printed
          reported   \* the rate was printed

vars == <<version, exchanges, at, todo, open, bytes, i, warned, reported>>

Processes == {"parent", "child"}
Pipes == {"p2c", "c2p"}

Init ==
  /\ version \in {"main", "main2"} /\ exchanges \in Counts
  /\ at = [p \in Processes |-> "unborn"] /\ todo = [p \in Processes |-> <<>>]
  /\ open = {} /\ bytes = [q \in Pipes |-> 0]
  /\ i = 0 /\ warned = FALSE /\ reported = FALSE

Unborn == at["parent"] = "unborn"
Refused == version = "main" /\ exchanges <= 0

Exit(p) ==
  /\ at' = [at EXCEPT ![p] = "gone"]
  /\ todo' = [todo EXCEPT ![p] = <<>>]
  /\ open' = {e \in open : e[1] # p}

-----------------------------------------------------------------------------
(* main: the check of the argument, pipe twice and fork, or one of them    *)
(* fails.  Both processes begin by closing the ends they do not use.       *)
ChildCloses == <<<<"p2c", "w">>, <<"c2p", "r">>>>
ParentCloses ==
  IF version = "main" THEN <<<<"p2c", "r">>, <<"c2p", "w">>>> ELSE <<<<"c2p", "w">>, <<"p2c", "r">>>>

ForkChildKeeps ==
  /\ Unborn /\ ~Refused
  /\ at' = [p \in Processes |-> IF p = "parent" THEN "write" ELSE "read"]
  /\ todo' = [p \in Processes |-> IF p = "parent" THEN ParentCloses ELSE <<<<"c2p", "r">>>>]
  /\ open' = Processes \X Pipes \X {"r", "w"}
  /\ UNCHANGED <<version, exchanges, bytes, i, warned, reported>>

Fork ==
  /\ Unborn /\ ~Refused
  /\ at' = [p \in Processes |-> IF p = "parent" THEN "write" ELSE "read"]
  /\ todo' = [p \in Processes |-> IF p = "parent" THEN ParentCloses ELSE ChildCloses]
  /\ open' = Processes \X Pipes \X {"r", "w"}
  /\ UNCHANGED <<version, exchanges, bytes, i, warned, reported>>

NoFork ==
  /\ Unborn
  /\ Exit("parent")
  /\ UNCHANGED <<version, exchanges, bytes, i, warned, reported>>

Close(p) ==
  /\ todo[p] # <<>>
  /\ open' = open \ {<<p, Head(todo[p])[1], Head(todo[p])[2]>>}
  /\ todo' = [todo EXCEPT ![p] = Tail(@)]
  /\ UNCHANGED <<version, exchanges, at, bytes, i, warned, reported>>

-----------------------------------------------------------------------------
Calls(p, call) == at[p] = call /\ todo[p] = <<>>
Held(q, end) == \E p \in Processes : <<p, q, end>> \in open
AtEof(q) == bytes[q] = 0 /\ ~Held(q, "w")

(* write_byte, read_byte: the byte goes through and p goes on at `next'. *)
WriteByte(p, q, next) ==
  /\ Calls(p, "write") /\ Held(q, "r")
  /\ bytes' = [bytes EXCEPT ![q] = @ + 1]
  /\ at' = [at EXCEPT ![p] = next]

ReadByte(p, q, next) ==
  /\ Calls(p, "read") /\ bytes[q] > 0
  /\ bytes' = [bytes EXCEPT ![q] = @ - 1]
  /\ at' = [at EXCEPT ![p] = next]

(* SIGPIPE *)
BrokenPipe(p, q) ==
  /\ Calls(p, "write") /\ ~Held(q, "r")
  /\ p = "parent" => i < exchanges
  /\ Exit(p)
  /\ UNCHANGED <<version, exchanges, bytes, i, warned, reported>>

(* die: the call fails for another reason *)
CallFails(p) ==
  /\ Calls(p, "read") \/ Calls(p, "write")
  /\ p = "parent" => i < exchanges
  /\ Exit(p)
  /\ UNCHANGED <<version, exchanges, bytes, i, warned, reported>>

-----------------------------------------------------------------------------
(* the child's loop *)
Echo ==
  /\ ReadByte("child", "p2c", "write") \/ WriteByte("child", "c2p", "read")
  /\ UNCHANGED <<version, exchanges, todo, open, i, warned, reported>>

ChildEof ==
  /\ Calls("child", "read") /\ AtEof("p2c")
  /\ at' = [at EXCEPT !["child"] = "exit"]
  /\ todo' = [todo EXCEPT !["child"] = <<<<"p2c", "r">>, <<"c2p", "w">>>>]
  /\ UNCHANGED <<version, exchanges, open, bytes, i, warned, reported>>

ChildExit ==
  /\ Calls("child", "exit")
  /\ Exit("child")
  /\ UNCHANGED <<version, exchanges, bytes, i, warned, reported>>

(* the parent's loop *)
Serve ==
  /\ i < exchanges
  /\ WriteByte("parent", "p2c", "read")
  /\ UNCHANGED <<version, exchanges, todo, open, i, warned, reported>>

Return ==
  /\ ReadByte("parent", "c2p", "write")
  /\ i' = i + 1
  /\ UNCHANGED <<version, exchanges, todo, open, warned, reported>>

LastCloses ==
  IF version = "main" THEN <<<<"p2c", "w">>, <<"c2p", "r">>>> ELSE <<<<"c2p", "r">>, <<"p2c", "w">>>>

Finish ==
  /\ at' = [at EXCEPT !["parent"] = "wait"]
  /\ todo' = [todo EXCEPT !["parent"] = LastCloses]

(* no byte comes back: main.c leaves the loop, main2.c dies. *)
ParentEof ==
  /\ Calls("parent", "read") /\ AtEof("c2p")
  /\ warned' = TRUE
  /\ IF version = "main" THEN Finish /\ UNCHANGED open ELSE Exit("parent")
  /\ UNCHANGED <<version, exchanges, bytes, i, reported>>

LoopEnds ==
  /\ Calls("parent", "write") /\ i >= exchanges
  /\ Finish
  /\ UNCHANGED <<version, exchanges, open, bytes, i, warned, reported>>

(* waitpid returns, and the rate is printed. *)
WaitPidForgotten ==
  /\ Calls("parent", "wait")
  /\ reported' = TRUE
  /\ Exit("parent")
  /\ UNCHANGED <<version, exchanges, bytes, i, warned>>

WaitPid ==
  /\ Calls("parent", "wait") /\ at["child"] = "gone"
  /\ reported' = TRUE
  /\ Exit("parent")
  /\ UNCHANGED <<version, exchanges, bytes, i, warned>>

-----------------------------------------------------------------------------
Child == Close("child") \/ Echo \/ BrokenPipe("child", "c2p") \/ ChildEof \/ ChildExit
Parent ==
  \/ Close("parent") \/ Serve \/ BrokenPipe("parent", "p2c") \/ Return
  \/ ParentEof \/ LoopEnds \/ WaitPid

Next == Fork \/ NoFork \/ Child \/ Parent \/ \E p \in Processes : CallFails(p)

Spec == Init /\ [][Next]_vars

(* A process that is not blocked runs; no call has to fail. *)
Fairness == WF_vars(Fork \/ NoFork) /\ WF_vars(Child) /\ WF_vars(Parent)

-----------------------------------------------------------------------------
InPlay == bytes["p2c"] + bytes["c2p"] + (IF at["child"] = "write" THEN 1 ELSE 0)

(* One byte is in play, and only between the parent's write and its read,  *)
(* so no write finds a full pipe.  "closing p2c[1] sends EOF to child"     *)
(* (main.c:100) and nothing else does: the child leaves its loop after the *)
(* parent is through, and the parent misses a byte only if the child died. *)
(* The rate is printed after the child has gone, and for exchanges that    *)
(* all took place unless "unexpected EOF" was printed before it.           *)
InStep ==
  /\ InPlay <= 1
  /\ (\A p \in Processes : at[p] # "gone") => InPlay = (IF at["parent"] = "read" THEN 1 ELSE 0)
  /\ at["child"] = "exit" => at["parent"] \in {"wait", "gone"}
  /\ warned => at["child"] = "gone"
  /\ reported => at["child"] = "gone" /\ (i >= exchanges \/ warned)

(* What InStep rests on.  The processes are born together and each is in   *)
(* its own part of the program; the rate is printed last, and after the    *)
(* loop has ended or was left.                                             *)
Places ==
  /\ at \in [Processes -> {"unborn", "write", "read", "wait", "exit", "gone"}]
  /\ bytes \in [Pipes -> Nat]
  /\ at["parent"] # "exit" /\ at["child"] # "wait"
  /\ at["parent"] = "unborn" => at["child"] = "unborn"
  /\ at["child"] = "unborn" => at["parent"] \in {"unborn", "gone"} /\ InPlay = 0
  /\ at["parent"] = "wait" => i >= exchanges \/ warned
  /\ reported => at["parent"] = "gone"

(* A process in its loop holds the end it writes to and will not close it; *)
(* it has closed, or will before its next call, its copy of the end that   *)
(* the other reads from; a process that has gone holds nothing.            *)
End == Pipes \X {"r", "w"}
Ends ==
  /\ todo \in [Processes -> Seq(End)]
  /\ \A p \in Processes : at[p] = "gone" => \A e \in open : e[1] # p
  /\ at["parent"] \in {"write", "read"} =>
       /\ <<"parent", "p2c", "w">> \in open
       /\ \A k \in 1..Len(todo["parent"]) : todo["parent"][k] # <<"p2c", "w">>
       /\ <<"parent", "p2c", "r">> \in open =>
            \E k \in 1..Len(todo["parent"]) : todo["parent"][k] = <<"p2c", "r">>
  /\ at["child"] \in {"write", "read"} =>
       /\ <<"child", "c2p", "w">> \in open
       /\ \A k \in 1..Len(todo["child"]) : todo["child"][k] # <<"c2p", "w">>

IndInv == InStep /\ Places /\ Ends

(* Both processes end, whichever call fails and whoever dies first.        *)
Ended == at["parent"] = "gone" /\ at["child"] \in {"gone", "unborn"}
=============================================================================
