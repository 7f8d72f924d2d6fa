-------------------------------- MODULE Lists --------------------------------
(***************************************************************************)
(* The exercises on linked structures: leetcode/02-valid-parentheses.c,    *)
(* 05-reverse-linked-list.c, 06-merge-two-sorted-lists.c, and the free     *)
(* list of pool_allocator/pa.c.                                            *)
(*                                                                         *)
(* Nodes are numbered from 1 and next[n] is the node after n; Null is 0.   *)
(* Each loop is a recursive operator that takes the loop's variables.      *)
(***************************************************************************)
EXTENDS Integers, Sequences, SequencesExt

CONSTANT MaxLen  \* bound on the length of the inputs

VARIABLES task,  \* which exercise
          in,    \* its argument
          out    \* <<>>, and then <<its result>>

vars == <<task, in, out>>

Null == 0

-----------------------------------------------------------------------------
(* check_paren: the stack after each character; Bad after a return false. *)
Starting == <<"(", "{", "[">>
Ending == <<")", "}", "]">>
Bad == <<"bad">>

PushOrPop(stk, ch) ==
  IF stk = Bad THEN Bad
  ELSE IF ch \in ToSet(Starting) THEN Append(stk, ch)
  ELSE LET pair == Starting[CHOOSE ind \in 1..3 : Ending[ind] = ch]
       IN IF stk = <<>> \/ Last(stk) # pair THEN Bad ELSE Front(stk)

CheckParen(input) == FoldLeft(PushOrPop, <<>>, input) = <<>>

(* A string is balanced when it is empty, or an opening character, a       *)
(* balanced string, the character that closes it and a balanced string.    *)
RECURSIVE Balanced(_)
Balanced(s) ==
  \/ s = <<>>
  \/ \E k \in 2..Len(s), ind \in 1..3 :
       /\ s[1] = Starting[ind] /\ s[k] = Ending[ind]
       /\ Balanced(SubSeq(s, 2, k - 1)) /\ Balanced(SubSeq(s, k + 1, Len(s)))

-----------------------------------------------------------------------------
(* build_array: nodes first .. last in a row *)
Chain(first, last) == [n \in first..last |-> IF n = last THEN Null ELSE n + 1]
HeadOf(first, last) == IF first > last THEN Null ELSE first

(* destroy_list, and the tests: the nodes met from head on *)
RECURSIVE Walk(_, _)
Walk(next, head) == IF head = Null THEN <<>> ELSE <<head>> \o Walk(next, next[head])

(* reverseList; the list that prev heads when curr is NULL *)
RECURSIVE ReverseLoop(_, _, _)
ReverseLoop(next, curr, prev) ==
  IF curr = Null THEN Walk(next, prev)
  ELSE ReverseLoop([next EXCEPT ![curr] = prev], next[curr], curr)

ReverseList(length) == ReverseLoop(Chain(1, length), HeadOf(1, length), Null)

(* mergeTwoLists; the dummy is node -1 *)
Dummy == -1
RECURSIVE MergeLoop(_, _, _, _, _)
MergeLoop(val, next, list1, list2, tail) ==
  IF list1 = Null \/ list2 = Null
    THEN LET done == [next EXCEPT ![tail] = IF list1 # Null THEN list1 ELSE list2]
         IN Walk(done, done[Dummy])
  ELSE IF val[list1] < val[list2]
    THEN MergeLoop(val, [next EXCEPT ![tail] = list1], next[list1], list2, list1)
    ELSE MergeLoop(val, [next EXCEPT ![tail] = list2], list1, next[list2], list2)

MergeTwoLists(a, b) ==
  LET m == Len(a)
      n == Len(b)
      next == [x \in {Dummy} \cup 1..(m + n) |->
                 IF x = Dummy THEN Null
                 ELSE IF x <= m THEN Chain(1, m)[x] ELSE Chain(m + 1, m + n)[x]]
  IN MergeLoop(a \o b, next, HeadOf(1, m), HeadOf(m + 1, m + n), Dummy)

-----------------------------------------------------------------------------
(* init_pool, and `times' calls of allocate after it: the blocks handed    *)
(* out, and the head of the free list                                      *)
RECURSIVE AllocateLoop(_, _, _)
AllocateLoop(next, freeList, times) ==
  IF times = 0 THEN <<freeList>> ELSE <<freeList>> \o AllocateLoop(next, next[freeList], times - 1)

AllocateAll(poolSize) == AllocateLoop(Chain(1, poolSize), 1, poolSize)

-----------------------------------------------------------------------------
Strings(S) == UNION {[1..n -> S] : n \in 0..MaxLen}
Sorted(s) == \A m, n \in DOMAIN s : m <= n => s[m] <= s[n]

Init ==
  /\ out = <<>>
  /\ \/ task = "parentheses" /\ in \in Strings(ToSet(Starting \o Ending))
     \/ task = "reverse" /\ in \in 0..(2 * MaxLen)
     \/ task = "merge" /\ in \in {s \in Strings(1..3) : Sorted(s)} \X {s \in Strings(1..3) : Sorted(s)}
     \/ task = "pool" /\ in \in 1..(2 * MaxLen)

Compute ==
  /\ out = <<>>
  /\ \/ task = "parentheses" /\ out' = <<CheckParen(in)>>
     \/ task = "reverse" /\ out' = <<ReverseList(in)>>
     \/ task = "merge" /\ out' = <<MergeTwoLists(in[1], in[2])>>
     \/ task = "pool" /\ out' = <<AllocateAll(in)>>
  /\ UNCHANGED <<task, in>>

-----------------------------------------------------------------------------
(* A merge of two sorted lists has every node of both once, in order; of   *)
(* equal values those of the second list come first.                       *)
IsMerge(nodes, a, b) ==
  LET vals == a \o b
      before(x, y) == \/ vals[x] < vals[y]
                      \/ vals[x] = vals[y] /\ x > Len(a) /\ y <= Len(a)
                      \/ vals[x] = vals[y] /\ (x > Len(a) <=> y > Len(a)) /\ x < y
  IN /\ ToSet(nodes) = DOMAIN vals
     /\ \A m, n \in DOMAIN nodes : m < n => before(nodes[m], nodes[n])

(* What each exercise must return: true exactly for the balanced strings;  *)
(* the same nodes backwards; a merge; and from a pool every block once,    *)
(* with the free list "NULL when the pool is empty" (pa.c:18).             *)
Exact ==
  out # <<>> =>
    \/ task = "parentheses" /\ out[1] = Balanced(in)
    \/ task = "reverse" /\ out[1] = [n \in 1..in |-> in + 1 - n]
    \/ task = "merge" /\ IsMerge(out[1], in[1], in[2])
    \/ task = "pool" /\ out[1] = [n \in 1..(in + 1) |-> IF n <= in THEN n ELSE Null]
=============================================================================
