---------------------------- MODULE CacheProgram ----------------------------
(***************************************************************************)
(* LruCache as one of the programs.                                        *)
(***************************************************************************)
EXTENDS Program, Integers, Sequences

CONSTANTS Keys, Values, Addresses, Capacities, MaxUses

(* No node lies at the address that says that there is none; a capacity is *)
(* a size_t.                                                               *)
ASSUME CacheAssumption == 0 \notin Addresses /\ Capacities \subseteq Nat /\ MaxUses \in Nat

VARIABLES capacity, list, node, keys, uses, returned
cacheVars == <<capacity, list, node, keys, uses, returned>>

C == INSTANCE LruCache WITH got <- returned

(* 11-lru-cache.cpp holds the keys used last: LruCache.                    *)
LruExact == prog = "lru" => C!LruExact
=============================================================================
