------------------------------- MODULE Arrays -------------------------------
(***************************************************************************)
(* The exercises on arrays: leetcode/07-merge-intervals.cpp and            *)
(* 14-merge-intervals.c, 09-memcpy-memmove.c, 10-stl-refresher.cpp,        *)
(* 12-sudoku-validator.c, 13-ship-packages.c, and next_pow2 of the rings.  *)
(***************************************************************************)
EXTENDS Integers, Sequences, SequencesExt, FiniteSetsExt, Bitwise

CONSTANTS MaxPoint,   \* intervals lie in 0..MaxPoint
          MaxItems,   \* bound on the number of intervals, words and packages
          MemSize,    \* the bytes of memory a copy may touch
          Bits        \* the width of uint64_t

VARIABLES task,  \* which exercise
          in,    \* its argument
          out    \* <<>>, and then <<its result>>

vars == <<task, in, out>>

-----------------------------------------------------------------------------
(* mergeIntervals (C++): the last interval is taken off and put back.      *)
MergeStep(res, iv) ==
  IF iv[1] <= Last(res)[2]
    THEN Append(Front(res), <<Last(res)[1], Max({Last(res)[2], iv[2]})>>)
    ELSE Append(res, iv)

(* merge (C): its end is written in place.                                 *)
ExtendStepAlways(res, iv) ==
  IF iv[1] <= Last(res)[2] THEN [res EXCEPT ![Len(res)][2] = iv[2]] ELSE Append(res, iv)

ExtendStep(res, iv) ==
  IF iv[1] <= Last(res)[2]
    THEN IF iv[2] < Last(res)[2] THEN res ELSE [res EXCEPT ![Len(res)][2] = iv[2]]
    ELSE Append(res, iv)

MergeIntervals(sorted) ==
  IF sorted = <<>> THEN <<>> ELSE FoldLeft(MergeStep, <<Head(sorted)>>, Tail(sorted))
Merge(sorted) ==
  IF sorted = <<>> THEN <<>> ELSE FoldLeft(ExtendStep, <<Head(sorted)>>, Tail(sorted))

(* std::sort orders pairs; qsort with cmp only their starts, and leaves    *)
(* equal starts in any order.                                              *)
Reorderings(ivs) ==
  {[n \in DOMAIN ivs |-> ivs[p[n]]] : p \in {q \in [DOMAIN ivs -> DOMAIN ivs] : IsInjective(q)}}
SortedByStart(ivs) ==
  {s \in Reorderings(ivs) : \A m, n \in DOMAIN s : m < n => s[m][1] <= s[n][1]}
SortedPairs(ivs) ==
  CHOOSE s \in SortedByStart(ivs) :
    \A m, n \in DOMAIN s : m < n /\ s[m][1] = s[n][1] => s[m][2] <= s[n][2]

(* The points of the line at every half step that the intervals cover *)
Covered(ivs) == UNION {(2 * iv[1])..(2 * iv[2]) : iv \in ToSet(ivs)}
IsUnion(res, ivs) ==
  /\ Covered(res) = Covered(ivs)
  /\ \A n \in 1..(Len(res) - 1) : res[n][2] < res[n + 1][1]

-----------------------------------------------------------------------------
(* my_memcpy and my_memmove: byte by byte, in the order of the indices *)
Copy(mem, dest, src, order) ==
  FoldLeft(LAMBDA m, k : [m EXCEPT ![dest + k] = m[src + k]], mem, order)
Upwards(size) == [n \in 1..size |-> n - 1]
Downwards(size) == [n \in 1..size |-> size - n]

MyMemcpy(mem, dest, src, size) == Copy(mem, dest, src, Upwards(size))
MyMemmove(mem, dest, src, size) ==
  Copy(mem, dest, src, IF dest > src THEN Downwards(size) ELSE Upwards(size))

Memory == [a \in 0..(MemSize - 1) |-> a]
Overlap(dest, src, size) == dest < src + size /\ src < dest + size

-----------------------------------------------------------------------------
(* count_words; the words are numbers, in their alphabetical order *)
CountWords(words) ==
  [w \in ToSet(words) |-> Cardinality({n \in DOMAIN words : words[n] = w})]
Better(counts, a, b) == IF counts[a] # counts[b] THEN counts[a] > counts[b] ELSE a < b
SortedByCount(counts) == SetToSortSeq(DOMAIN counts, LAMBDA a, b : Better(counts, a, b))

(* top_k: the heap is the set of its entries, and top() the worst of them. *)
(* The words come in any order.                                            *)
Worst(counts, pq) == CHOOSE w \in pq : \A x \in pq : x = w \/ Better(counts, x, w)
TopK(counts, order, k) ==
  LET push(pq, w) == IF Cardinality(pq) + 1 > k
                       THEN (pq \cup {w}) \ {Worst(counts, pq \cup {w})} ELSE pq \cup {w}
      pops[pq \in SUBSET DOMAIN counts] ==
        IF pq = {} THEN <<>> ELSE <<Worst(counts, pq)>> \o pops[pq \ {Worst(counts, pq)}]
  IN Reverse(pops[FoldLeft(push, {}, order)])

(* The place of a word is how many words are better. *)
IsRanking(res, counts, k) ==
  /\ Len(res) = Min({k, Cardinality(DOMAIN counts)})
  /\ \A n \in DOMAIN res : Cardinality({w \in DOMAIN counts : Better(counts, w, res[n])}) = n - 1

-----------------------------------------------------------------------------
(* unit_ok, and the body of each loop of sudoku_valid_v0: the values seen  *)
(* so far, or {-1} after a return false                                    *)
See(n, seen, v) ==
  IF seen = {-1} \/ v = 0 THEN seen ELSE IF v < 0 \/ v > n \/ v \in seen THEN {-1} ELSE seen \cup {v}
UnitOk(vals, n) == FoldLeft(LAMBDA seen, v : See(n, seen, v), {}, vals) # {-1}

ShapeOk(n, box) == ~(n < 0 \/ n > 1000 \/ box <= 0 \/ box > n \/ box * box # n)

SudokuValidV0(board, n, box) ==
  /\ ShapeOk(n, box)
  /\ \A i \in 0..(n - 1) : UnitOk([j \in 1..n |-> board[i * n + j - 1]], n)
  /\ \A i \in 0..(n - 1) : UnitOk([j \in 1..n |-> board[(j - 1) * n + i]], n)
  /\ \A i, j \in 0..(box - 1) :
       UnitOk([m \in 1..n |-> board[((m - 1) \div box + i * box) * n + j * box + ((m - 1) % box)]], n)

(* row_gatherer, col_gatherer, sqr_gatherer, diag_gatherer; u is the unit *)
Row(board, n, b, u) == [i \in 1..n |-> board[u * n + i - 1]]
Col(board, n, b, u) == [i \in 1..n |-> board[(i - 1) * n + u]]
Sqr(board, n, b, u) ==
  [i \in 1..n |-> board[((u \div b) * b + (i - 1) \div b) * n + (u % b) * b + ((i - 1) % b)]]
Diag(board, n, b, u) == [i \in 1..n |-> board[(i - 1) * n + IF u = 0 THEN i - 1 ELSE n - i]]

SudokuValid(board, n, box) ==
  /\ ShapeOk(n, box)
  /\ \A u \in 0..(n - 1) : /\ UnitOk(Row(board, n, box, u), n)
                          /\ UnitOk(Col(board, n, box, u), n)
                          /\ UnitOk(Sqr(board, n, box, u), n)
  /\ \A u \in 0..1 : UnitOk(Diag(board, n, box, u), n)

(* Two cells clash in a unit both lie in; cell c is in row c \div n.       *)
Clash(board, n, c, d, sameUnit) == c # d /\ board[c] # 0 /\ board[c] = board[d] /\ sameUnit
LegalSudoku(board, n, box, diagonals) ==
  LET r(c) == c \div n
      k(c) == c % n
      cells == 0..(n * n - 1)
  IN /\ n \in 1..1000 /\ box > 0 /\ box * box = n
     /\ \A c \in cells : board[c] \in 0..n
     /\ \A c, d \in cells : ~Clash(board, n, c, d,
          \/ r(c) = r(d) \/ k(c) = k(d)
          \/ r(c) \div box = r(d) \div box /\ k(c) \div box = k(d) \div box
          \/ diagonals /\ r(c) = k(c) /\ r(d) = k(d)
          \/ diagonals /\ r(c) + k(c) = n - 1 /\ r(d) + k(d) = n - 1)
-----------------------------------------------------------------------------
(* can_ship: the load of the day and the days used, or no days after a     *)
(* return false                                                            *)
LoadStep(cap, day, w) ==
  IF day.used = 0 \/ w > cap THEN [load |-> 0, used |-> 0]
  ELSE IF day.load + w > cap THEN [load |-> w, used |-> day.used + 1]
  ELSE [day EXCEPT !.load = @ + w]

CanShip(weights, days, cap) ==
  LET last == FoldLeft(LAMBDA day, w : LoadStep(cap, day, w), [load |-> 0, used |-> 1], weights)
  IN last.used # 0 /\ last.used <= days

(* ship_within_days: bisection between the heaviest package and all *)
ShipWithinDays(weights, days) ==
  LET sum == FoldLeft(+, 0, weights)
      search[lo \in 0..sum, hi \in 0..sum] ==
        LET mid == lo + (hi - lo) \div 2
        IN IF lo >= hi THEN lo
           ELSE IF CanShip(weights, days, mid) THEN search[lo, mid] ELSE search[mid + 1, hi]
  IN search[Max(ToSet(weights)), sum]

(* The least, over the ways to cut the packages into at most `days' runs,  *)
(* of the heaviest run; a cut comes after the package it names.            *)
HeaviestRun(weights, cuts) ==
  LET ends == cuts \cup {0, Len(weights)}
      runs == {e \in ends \X ends : e[1] < e[2] /\ \A x \in ends : ~(e[1] < x /\ x < e[2])}
  IN Max({FoldLeft(+, 0, SubSeq(weights, e[1] + 1, e[2])) : e \in runs})
LeastCapacity(weights, days) ==
  Min({HeaviestRun(weights, cuts) : cuts \in {c \in SUBSET (1..(Len(weights) - 1)) : Cardinality(c) < days}})

-----------------------------------------------------------------------------
(* next_pow2: every bit below the highest one is set, by doubling shifts,  *)
(* and 1 is added; and the test init_ring makes of a capacity              *)
Shifts == {2^k : k \in 0..Bits} \cap 1..(Bits - 1)
NextPow2(c) ==
  IF c <= 1 THEN 1
  ELSE (FoldLeft(LAMBDA d, shift : d | (d \div 2^shift), c - 1, SetToSortSeq(Shifts, <)) + 1) % 2^Bits
RingTakes(capacity) == ~(capacity = 0 \/ (capacity & (capacity - 1)) # 0)
-----------------------------------------------------------------------------
Intervals == {iv \in (0..MaxPoint) \X (0..MaxPoint) : iv[1] <= iv[2]}

(* Boards of 4 by 4 with at most two numbers on them: a clash is between   *)
(* two cells.  The other shapes are refused, or have one cell.             *)
Boards ==
  {[c \in 0..15 |-> IF c = p[1] THEN v[1] ELSE IF c = p[2] THEN v[2] ELSE 0] :
     p \in (0..15) \X (0..15), v \in {-1, 0, 1, 4, 5} \X {1, 4}}
Shapes == {<<4, 2>>, <<4, 1>>, <<4, 0>>, <<1, 1>>, <<0, 0>>}

Init ==
  /\ out = <<>>
  /\ \/ task = "intervals" /\ in \in BoundedSeq(Intervals, MaxItems)
     \/ task = "memmove" /\ in \in {c \in [dest : 0..MemSize, src : 0..MemSize, size : 0..MemSize] :
                                     c.dest + c.size <= MemSize /\ c.src + c.size <= MemSize}
     \/ task = "topk" /\ in \in BoundedSeq(1..3, MaxItems + 1) \X (0..3)
     \/ task = "sudoku" /\ in \in Boards \X Shapes
     \/ task = "ship" /\ in \in (BoundedSeq(1..3, MaxItems + 1) \ {<<>>}) \X (1..3)
     \/ task = "pow2" /\ in \in 0..(2^Bits - 1)

Compute ==
  /\ out = <<>>
  /\ \/ task = "intervals" /\ \E s \in SortedByStart(in) :
                                 out' = <<MergeIntervals(SortedPairs(in)), Merge(s)>>
     \/ task = "memmove" /\ out' = <<MyMemmove(Memory, in.dest, in.src, in.size),
                                     MyMemcpy(Memory, in.dest, in.src, in.size)>>
     \/ task = "topk" /\ \E order \in SetToSeqs(ToSet(in[1])) :
                            out' = <<TopK(CountWords(in[1]), order, in[2]), SortedByCount(CountWords(in[1]))>>
     \/ task = "sudoku" /\ out' = <<SudokuValidV0(in[1], in[2][1], in[2][2]),
                                    SudokuValid(in[1], in[2][1], in[2][2])>>
     \/ task = "ship" /\ out' = <<ShipWithinDays(in[1], in[2])>>
     \/ task = "pow2" /\ out' = <<NextPow2(in), RingTakes(NextPow2(in))>>
  /\ UNCHANGED <<task, in>>

-----------------------------------------------------------------------------
Moved(c) == [a \in 0..(MemSize - 1) |->
              IF a >= c.dest /\ a < c.dest + c.size THEN c.src + a - c.dest ELSE a]
PowersFrom(c) == {2^k : k \in 0..(Bits - 1)} \cap c..(2^Bits)

(* What each exercise must return.  Both merges: disjoint intervals with   *)
(* the same points, however qsort orders equal starts.  memmove: the bytes *)
(* that were there before, also when the areas overlap; memcpy, when they  *)
(* do not.  top_k: the k best in order, however the map is walked.  Both   *)
(* validators: no clash, the second also none on a diagonal.  Ship: the    *)
(* least capacity.  next_pow2: the least power of two that is not smaller, *)
(* which init_ring accepts, or 0 "if that doesn't fit" (rb_lock.c:112).    *)
Exact ==
  out # <<>> =>
    \/ task = "intervals" /\ IsUnion(out[1], in) /\ IsUnion(out[2], in)
    \/ /\ task = "memmove" /\ out[1] = Moved(in)
       /\ ~Overlap(in.dest, in.src, in.size) => out[2] = Moved(in)
    \/ /\ task = "topk" /\ IsRanking(out[1], CountWords(in[1]), in[2])
       /\ IsRanking(out[2], CountWords(in[1]), Len(in[1]))
    \/ /\ task = "sudoku"
       /\ out[1] = LegalSudoku(in[1], in[2][1], in[2][2], FALSE)
       /\ out[2] = LegalSudoku(in[1], in[2][1], in[2][2], TRUE)
    \/ task = "ship" /\ out[1] = LeastCapacity(in[1], in[2])
    \/ /\ task = "pow2" /\ out[1] = IF PowersFrom(in) = {} THEN 0 ELSE Min(PowersFrom(in))
       /\ out[2] = (PowersFrom(in) # {})
=============================================================================
