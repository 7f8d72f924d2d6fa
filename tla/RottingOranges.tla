--------------------------- MODULE RottingOranges ---------------------------
(***************************************************************************)
(* leetcode/04-rotting-oranges.c: orangesRotting spreads the rot minute by *)
(* minute with two queues that change roles and are never emptied of what  *)
(* was read: their heads only grow.                                        *)
(***************************************************************************)
EXTENDS Grid

VARIABLES start,    \* start[c]: 0 empty, 1 fresh, 2 rotten, at the call
          box,      \* the same now
          counted,  \* how many cells the first two loops have passed
          fresh,    \* how many are fresh
          curr,     \* the queue read: its cells, and its head
          next,     \* the queue filled
          minutes,
          answer    \* what the function returned; NoAnswer before

orangeVars == <<start, box, counted, fresh, curr, next, minutes, answer>>

NoAnswer == -2
With(g, v) == {c \in Cells : g[c] = v}
Enqueue(q, cells) == [cells |-> q.cells \o cells, head |-> q.head + Len(cells)]

OrangeInit ==
  /\ start \in [Cells -> 0..2] /\ box = start
  /\ counted = 0 /\ fresh = 0 /\ minutes = 0 /\ answer = NoAnswer
  /\ curr = [cells |-> <<>>, head |-> 0] /\ next = curr

(* One turn of the scan: a fresh orange is counted, a rotten one queued. *)
ScanBox ==
  /\ counted < Rows * Cols
  /\ counted' = counted + 1
  /\ fresh' = IF box[CellAt(counted)] = 1 THEN fresh + 1 ELSE fresh
  /\ next' = IF box[CellAt(counted)] = 2 THEN Enqueue(next, <<CellAt(counted)>>) ELSE next
  /\ UNCHANGED <<start, box, curr, minutes, answer>>

Between == counted = Rows * Cols /\ curr.cells = <<>> /\ answer = NoAnswer

(* Another minute: the queues change roles. *)
Minute ==
  /\ Between /\ next.cells # <<>> /\ fresh # 0
  /\ minutes' = minutes + 1
  /\ curr' = next /\ next' = curr
  /\ UNCHANGED <<start, box, counted, fresh, answer>>

(* One orange rots its fresh neighbours, *)
RotIntoCurr ==
  /\ curr.cells # <<>>
  /\ LET caught == Around(Head(curr.cells), With(box, 1))
     IN /\ curr' = Enqueue([curr EXCEPT !.cells = Tail(@)], caught)
        /\ box' = [c \in Cells |-> IF c \in Elems(caught) THEN 2 ELSE box[c]]
        /\ fresh' = fresh - Len(caught)
  /\ UNCHANGED <<start, counted, next, minutes, answer>>

Rot ==
  /\ curr.cells # <<>>
  /\ LET caught == Around(Head(curr.cells), With(box, 1))
     IN /\ next' = Enqueue(next, caught)
        /\ box' = [c \in Cells |-> IF c \in Elems(caught) THEN 2 ELSE box[c]]
        /\ fresh' = fresh - Len(caught)
  /\ curr' = [curr EXCEPT !.cells = Tail(@)]
  /\ UNCHANGED <<start, counted, minutes, answer>>

(* or nothing is left to do. *)
Return ==
  /\ Between /\ (next.cells = <<>> \/ fresh = 0)
  /\ answer' = IF fresh # 0 THEN -1 ELSE minutes
  /\ UNCHANGED <<start, box, counted, fresh, curr, next, minutes>>

OrangeNext == ScanBox \/ Minute \/ Rot \/ Return

OrangeSpec == OrangeInit /\ [][OrangeNext]_orangeVars

-----------------------------------------------------------------------------
(* The rotten oranges after n minutes when all rot their neighbours at     *)
(* once *)
Oranges == {c \in Cells : start[c] # 0}
Spread(rotten) == rotten \cup {c \in Oranges : \E d \in rotten : Adjacent(d, c)}
RottenAfter[n \in Nat] == IF n = 0 THEN With(start, 2) ELSE Spread(RottenAfter[n - 1])

(* Working through queues is the same as all oranges rotting at once: at   *)
(* the end of each minute the same ones are rotten, and the answer is the  *)
(* first minute that leaves none fresh, or -1 if some never rot.  Neither  *)
(* queue outgrows its array: "max 100 entries is enough" (l.15).           *)
MinutesExact ==
  /\ curr.head + next.head <= Rows * Cols
  /\ Between => With(box, 2) = RottenAfter[minutes] /\ fresh = Cardinality(With(box, 1))
  /\ answer = -1 => RottenAfter[minutes + 1] = RottenAfter[minutes]
  /\ answer # NoAnswer => (answer = -1 <=> RottenAfter[minutes] # Oranges)
  /\ answer >= 0 => RottenAfter[answer] = Oranges
  /\ answer > 0 => RottenAfter[answer - 1] # Oranges
=============================================================================
