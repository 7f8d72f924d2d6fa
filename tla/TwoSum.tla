------------------------------- MODULE TwoSum -------------------------------
(***************************************************************************)
(* leetcode/01-two-sum.c: twoSum over a hash map with open addressing.     *)
(*                                                                         *)
(* What matters of hash_map is which keys start at the same slot and which *)
(* so near the end of the table that a probe goes round: a hash is the     *)
(* first slot or the last.  Sums do not overflow.                          *)
(***************************************************************************)
EXTENDS Integers, Sequences, SequencesExt, FiniteSetsExt

CONSTANTS Numbers, Targets, MaxNums

VARIABLES nums, target,
          hash,    \* hash[key]: the slot hash_map returns for it
          map,     \* map[slot]: <<>>, or <<key, value>>
          i,       \* the loop variable
          result   \* <<>>, then <<"none">> or the two indices

vars == <<nums, target, hash, map, i, result>>

(* init_map(2 * numsSize): the next power of two *)
Cap(n) == Min({c \in {2^k : k \in 0..(2 * n)} : c >= 2 * n})
Slots == DOMAIN map
Sought == Numbers \cup {t - x : t \in Targets, x \in Numbers}
Hashes(cap) == [Sought -> {0, cap - 1}]

Init ==
  /\ nums \in BoundedSeq(Numbers, MaxNums) /\ target \in Targets
  /\ map = [s \in 0..(Cap(Len(nums)) - 1) |-> <<>>]
  /\ hash \in Hashes(Cap(Len(nums)))
  /\ i = 0 /\ result = <<>>

(* probe_map: the first slot from the hash on that is empty or has the key *)
Stops(key, s) == map[s] = <<>> \/ map[s][1] = key
Probe(key) ==
  LET slot(n) == (hash[key] + n) % Cardinality(Slots)
  IN slot(Min({n \in 0..(Cardinality(Slots) - 1) : Stops(key, slot(n))}))

-----------------------------------------------------------------------------
(* malloc fails, in twoSum or in init_map. *)
NoMemory ==
  /\ i = 0 /\ result = <<>>
  /\ result' = <<"none">>
  /\ UNCHANGED <<nums, target, hash, map, i>>

(* One turn of the loop: the partner is there, or this number is stored.   *)
Step ==
  /\ result = <<>> /\ i < Len(nums)
  /\ LET found == map[Probe(target - nums[i + 1])]
     IN IF found # <<>>
          THEN result' = <<found[2], i>> /\ UNCHANGED <<map, i>>
          ELSE /\ map' = [map EXCEPT ![Probe(nums[i + 1])] = <<nums[i + 1], i>>]
               /\ i' = i + 1
               /\ UNCHANGED result
  /\ UNCHANGED <<nums, target, hash>>

NotFound ==
  /\ result = <<>> /\ i = Len(nums)
  /\ result' = <<"none">>
  /\ UNCHANGED <<nums, target, hash, map, i>>

Next == NoMemory \/ Step \/ NotFound

-----------------------------------------------------------------------------
Pairs == {p \in (1..Len(nums)) \X (1..Len(nums)) : p[1] < p[2] /\ nums[p[1]] + nums[p[2]] = target}

(* Whatever collides, a probe ends and finds the last index of a number    *)
(* that was stored; two indices are returned exactly when two numbers add  *)
(* up, and they are two different ones.                                    *)
Exact ==
  /\ \E s \in Slots : map[s] = <<>>
  /\ \A n \in 1..i : map[Probe(nums[n])] = <<nums[n], Max({m \in 1..i : nums[m] = nums[n]}) - 1>>
  /\ Len(result) = 2 => <<result[1] + 1, result[2] + 1>> \in Pairs
  /\ result = <<"none">> /\ i = Len(nums) => Pairs = {}
=============================================================================
