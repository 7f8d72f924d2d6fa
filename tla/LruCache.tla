------------------------------ MODULE LruCache ------------------------------
(***************************************************************************)
(* leetcode/11-lru-cache.cpp: a list of (key, value) nodes, the most       *)
(* recently used first, and a map from keys to iterators into the list.    *)
(*                                                                         *)
(* An iterator is the address of a node: it survives a splice, and dangles *)
(* after pop_back.  A new node may get any address that is free, also that *)
(* of a node that was freed.                                               *)
(***************************************************************************)
EXTENDS Integers, Sequences

CONSTANTS Keys, Values,
          Addresses,   \* where nodes may lie
          Capacities,  \* what the constructor may be given
          MaxUses      \* bound on the number of uses recorded

VARIABLES capacity,
          list,   \* l_: the addresses of its nodes, front first
          node,   \* node[a]: the pair stored at address a
          keys,   \* keys[k]: the iterator of k; NoNode when k is not in the map
          uses,   \* history: the keys used, with <<v>> for a put of v, <<>> for a get
          got     \* what get returned last

vars == <<capacity, list, node, keys, uses, got>>

NoNode == 0

Init ==
  /\ capacity \in Capacities
  /\ list = <<>> /\ node = [a \in Addresses |-> <<>>]
  /\ keys = [k \in Keys |-> NoNode]
  /\ uses = <<>> /\ got = <<>>

(* The p-th node moves to the front. *)
Splice(p) ==
  list' = [n \in 1..Len(list) |->
             IF n = 1 THEN list[p] ELSE IF n <= p THEN list[n - 1] ELSE list[n]]
Use(k, what) == Len(uses) < MaxUses /\ uses' = Append(uses, <<k, what>>)

-----------------------------------------------------------------------------
(* get: -1, here <<>>, or the value of k, which becomes the first. *)
GetMiss(k) ==
  /\ keys[k] = NoNode
  /\ got' = <<>>
  /\ UNCHANGED <<capacity, list, node, keys, uses>>

GetHitInPlace(k) ==
  /\ keys[k] # NoNode
  /\ got' = node[keys[k]]
  /\ Use(k, <<>>)
  /\ UNCHANGED <<capacity, list, node, keys>>

GetHit(k) ==
  /\ keys[k] # NoNode
  /\ \E p \in 1..Len(list) : list[p] = keys[k] /\ Splice(p)
  /\ got' = node[list'[1]]
  /\ Use(k, <<>>)
  /\ UNCHANGED <<capacity, node, keys>>

(* put: a key that exists gets the value and becomes the first, *)
PutOld(k, v) ==
  /\ keys[k] # NoNode
  /\ \E p \in 1..Len(list) : list[p] = keys[k] /\ Splice(p)
  /\ node' = [node EXCEPT ![list'[1]] = <<@[1], v>>]
  /\ Use(k, <<v>>)
  /\ UNCHANGED <<capacity, keys, got>>

(* a new one is put in front, and the last one goes when there are too     *)
(* many.                                                                   *)
Free(a) == \A n \in 1..Len(list) : list[n] # a
PutNew(k, v, a) ==
  /\ keys[k] = NoNode /\ Free(a)
  /\ LET pushed == <<a>> \o list
         stored == [node EXCEPT ![a] = <<k, v>>]
         found == [keys EXCEPT ![k] = a]
         back == pushed[Len(pushed)]
     IN IF Len(pushed) > capacity
          THEN /\ list' = SubSeq(pushed, 1, Len(pushed) - 1)
               /\ node' = [stored EXCEPT ![back] = <<>>]
               /\ keys' = [found EXCEPT ![stored[back][1]] = NoNode]
          ELSE list' = pushed /\ node' = stored /\ keys' = found
  /\ Use(k, <<v>>)
  /\ UNCHANGED <<capacity, got>>

Next ==
  \E k \in Keys :
    \/ GetMiss(k) \/ GetHit(k)
    \/ \E v \in Values : PutOld(k, v) \/ \E a \in Addresses : PutNew(k, v, a)

Spec == Init /\ [][Next]_vars

-----------------------------------------------------------------------------
Used(k) == {n \in 1..Len(uses) : uses[n][1] = k}
UsedAfter(j, k) == \E n \in Used(j) : \A m \in Used(k) : m < n
LastPut(k, v) ==
  \E n \in Used(k) : uses[n][2] = <<v>> /\ \A m \in Used(k) : m > n => uses[m][2] = <<>>
LastUse == uses[Len(uses)]

(* A key that was used is not in the cache only when the cache is full;    *)
(* what the last hit returned is the value put last.                       *)
Sized ==
  /\ Len(list) <= capacity
  /\ (\E k \in Keys : Used(k) # {} /\ keys[k] = NoNode) => Len(list) = capacity
GotCurrent ==
  uses # <<>> /\ got # <<>> /\ LastUse[2] = <<>> =>
    got[1] = LastUse[1] /\ LastPut(got[1], got[2])

(* After any calls the cache holds the `capacity' keys used last, no other *)
(* and no fewer, each once and with the value put last; the iterators of   *)
(* the map are exactly the nodes of the list.  get returns that value.     *)
LruExact ==
  /\ \A k \in Keys : keys[k] # NoNode =>
       /\ ~Free(keys[k]) /\ node[keys[k]][1] = k /\ LastPut(k, node[keys[k]][2])
       /\ \A j \in Keys : keys[j] = NoNode => UsedAfter(k, j)
  /\ \A n \in 1..Len(list) : \E k \in Keys : keys[k] = list[n]
  /\ \A m, n \in 1..Len(list) : list[m] = list[n] => m = n
  /\ Sized /\ GotCurrent

-----------------------------------------------------------------------------
Pair == Keys \X Values
TypeOK ==
  /\ capacity \in Nat /\ list \in Seq(Addresses)
  /\ node \in [Addresses -> Pair \cup {<<>>}]
  /\ keys \in [Keys -> Addresses \cup {NoNode}]
  /\ uses \in Seq(Keys \X ({<<>>} \cup {<<v>> : v \in Values}))

(* The list and the map belong together, *)
Key(n) == node[list[n]][1]
Linked ==
  /\ \A n \in 1..Len(list) : node[list[n]] \in Pair /\ keys[Key(n)] = list[n]
  /\ \A k \in Keys : keys[k] # NoNode => \E n \in 1..Len(list) : list[n] = keys[k] /\ Key(n) = k
  /\ \A m, n \in 1..Len(list) : list[m] = list[n] => m = n

(* the list is in the order of the last uses, and a key that is not in it  *)
(* was used before all that are.                                           *)
ByRecency == \A m, n \in 1..Len(list) : m < n => UsedAfter(Key(m), Key(n))
Absent == \A n \in 1..Len(list), j \in Keys : keys[j] = NoNode => UsedAfter(Key(n), j)
Current == \A n \in 1..Len(list) : LastPut(Key(n), node[list[n]][2])

IndInv == TypeOK /\ Linked /\ ByRecency /\ Absent /\ Current /\ Sized /\ GotCurrent
=============================================================================
