---------------------------- MODULE RegionTable ----------------------------
(***************************************************************************)
(* The region tables of Interview/mock1.c (an unsorted array, searched     *)
(* from the front) and Interview/mock1_rcu.c (a sorted array, searched by  *)
(* bisection), fed with the same calls of region_add.                      *)
(*                                                                         *)
(* Addresses are unsigned: every sum and difference is taken modulo        *)
(* UMax + 1, as UINT64_MAX + 1 in the code.                                 *)
(***************************************************************************)
EXTENDS Integers, Sequences

CONSTANTS UMax,         \* UINT64_MAX
          Hvas,        \* the host addresses callers pass
          MaxRegions   \* NUM_REGIONS and MAX_REGIONS, both 512

VARIABLES regions,  \* tbl->regions[0 .. registered-1] of mock1.c
          table,    \* current->r[0 .. n-1] of mock1_rcu.c
          gpa,      \* the address lookup searches; NoSearch between two calls
          lo, hi    \* the bounds of its bisection

vars == <<regions, table, gpa, lo, hi>>

NoSearch == -1
Addrs == 0..UMax
Region == [start : Addrs, size : Addrs, hva : Hvas]

Add(a, b) == (a + b) % (UMax + 1)
Sub(a, b) == (a - b) % (UMax + 1)
End(r) == Add(r.start, r.size)

-----------------------------------------------------------------------------
(* region_add, both files: size 0, and start + size wraps. *)
BadSize(rgn) == rgn.size = 0
WrapsStartOnly(rgn) == Sub(UMax, rgn.size) < rgn.start
Wraps(rgn) == Sub(UMax, rgn.size) < rgn.start \/ Sub(UMax, rgn.size) < rgn.hva

(* mock1.c: the new region and an old one are not disjoint. *)
OverlapsInclusive(old, rgn) == ~(End(rgn) < old.start \/ rgn.start > End(old))
Overlaps(old, rgn) == ~(End(rgn) <= old.start \/ rgn.start >= End(old))

(* mock1.c region_add: its result *)
LinearCode(rgn) ==
  IF BadSize(rgn) THEN "size"
  ELSE IF Wraps(rgn) THEN "wraps"
  ELSE IF Len(regions) = MaxRegions THEN "full"
  ELSE IF \E n \in DOMAIN regions : Overlaps(regions[n], rgn) THEN "overlap"
  ELSE "ok"

(* mock1_rcu.c region_add: p regions start before the new one, ...         *)
Before(p, rgn) ==
  /\ \A n \in 1..p : table[n].start < rgn.start
  /\ p < Len(table) => table[p + 1].start >= rgn.start

(* ... and one of its two neighbours overlaps it or not. *)
LeftOverlaps(p, rgn) == p > 0 /\ End(table[p]) > rgn.start
RightOverlaps(p, rgn) == p < Len(table) /\ table[p + 1].start < End(rgn)
NeighbourOverlaps(p, rgn) == LeftOverlaps(p, rgn) \/ RightOverlaps(p, rgn)

SortedCode(p, rgn) ==
  IF BadSize(rgn) THEN "size"
  ELSE IF Wraps(rgn) THEN "wraps"
  ELSE IF Len(table) = MaxRegions THEN "full"
  ELSE IF NeighbourOverlaps(p, rgn) THEN "overlap"
  ELSE "ok"

(* The new table: two memcpys around the new region *)
Inserted(p, rgn) ==
  [n \in 1..(Len(table) + 1) |->
     IF n <= p THEN table[n] ELSE IF n = p + 1 THEN rgn ELSE table[n - 1]]

-----------------------------------------------------------------------------
Init == regions = <<>> /\ table = <<>> /\ gpa = NoSearch /\ lo = 0 /\ hi = 0

(* One call of each region_add.  (Module Rcu has the call whose malloc     *)
(* fails, which leaves the table as it is.)                                *)
RegionAdd(p, rgn) ==
  /\ gpa = NoSearch /\ Before(p, rgn)
  /\ regions' = IF LinearCode(rgn) = "ok" THEN Append(regions, rgn) ELSE regions
  /\ table' = IF SortedCode(p, rgn) = "ok" THEN Inserted(p, rgn) ELSE table
  /\ UNCHANGED <<gpa, lo, hi>>

(* mock1_rcu.c lookup: the bisection starts, takes a turn, and ends.  It   *)
(* has a table that is never modified, so no region_add comes between.     *)
Lookup(addr) ==
  /\ gpa = NoSearch
  /\ gpa' = addr /\ lo' = 0 /\ hi' = Len(table)
  /\ UNCHANGED <<regions, table>>

Bisect ==
  /\ gpa # NoSearch /\ lo < hi
  /\ LET mid == lo + (hi - lo) \div 2
     IN IF table[mid + 1].start <= gpa
          THEN lo' = mid + 1 /\ hi' = hi
          ELSE lo' = lo /\ hi' = mid
  /\ UNCHANGED <<regions, table, gpa>>

Return ==
  /\ gpa # NoSearch /\ lo >= hi
  /\ gpa' = NoSearch /\ lo' = 0 /\ hi' = 0
  /\ UNCHANGED <<regions, table>>

Next ==
  \/ \E rgn \in Region, p \in 0..Len(table) : RegionAdd(p, rgn)
  \/ \E addr \in Addrs : Lookup(addr)
  \/ Bisect \/ Return

Spec == Init /\ [][Next]_vars

-----------------------------------------------------------------------------
(* What the two searches answer for addr: {} is false, {a} is *hva = a.    *)
Hva(r, addr) == Add(r.hva, Sub(addr, r.start))

(* mock1.c translate: of the first region that holds addr *)
Holds(r, addr) == addr >= r.start /\ Sub(addr, r.start) < r.size
FirstHolds(n, addr) ==
  Holds(regions[n], addr) /\ \A m \in 1..(n - 1) : ~Holds(regions[m], addr)
LinearAnswer(addr) == {Hva(regions[n], addr) : n \in {n \in 1..Len(regions) : FirstHolds(n, addr)}}

(* mock1_rcu.c lookup, after the bisection: of the last region before lo   *)
SortedAnswer ==
  IF lo = 0 \/ Sub(gpa, table[lo].start) >= table[lo].size THEN {}
  ELSE {Hva(table[lo], gpa)}

-----------------------------------------------------------------------------
Holding(s) == {s[n] : n \in 1..Len(s)}

(* Comparing the new region with two neighbours only (mock1_rcu.c:125)     *)
(* gives the verdict of comparing it with all, as mock1.c does, whatever   *)
(* region is offered: the two tables hold the same regions, and the array  *)
(* is "sorted by gpa_start, no overlaps" (l.32).                           *)
SameVerdicts ==
  /\ Holding(regions) = Holding(table)
  /\ \A rgn \in Region, p \in 0..Len(table) :
       Before(p, rgn) => LinearCode(rgn) = SortedCode(p, rgn)
  /\ \A m, n \in 1..Len(table) : m < n => table[m].start + table[m].size <= table[n].start

(* Both searches return, for every guest address, what its region says,    *)
(* and false exactly for the addresses in no region; no sum has wrapped.   *)
Answer(addr) ==
  {r.hva + addr - r.start :
     r \in {q \in Holding(regions) : q.start <= addr /\ addr < q.start + q.size}}
TranslationsExact ==
  /\ \A addr \in Addrs : LinearAnswer(addr) = Answer(addr)
  /\ gpa # NoSearch /\ lo >= hi => SortedAnswer = Answer(gpa)

-----------------------------------------------------------------------------
TypeOK ==
  /\ regions \in Seq(Region) /\ table \in Seq(Region)
  /\ gpa \in Addrs \cup {NoSearch} /\ lo \in Nat /\ hi \in Nat

(* What was checked when r was added: neither end of it wraps. *)
Fits(r) == r.size > 0 /\ r.start + r.size <= UMax /\ r.hva + r.size <= UMax
Below(r, q) == r.start + r.size <= q.start
Sorted == \A m, n \in 1..Len(table) : m < n => Below(table[m], table[n])

(* The bisection: how many regions start at or below gpa is between lo and *)
(* hi.                                                                     *)
Bisecting ==
  /\ lo <= hi /\ hi <= Len(table)
  /\ \A n \in 1..lo : table[n].start <= gpa
  /\ \A n \in (hi + 1)..Len(table) : gpa < table[n].start

IndInv ==
  /\ TypeOK
  /\ Holding(regions) = Holding(table) /\ Len(regions) = Len(table)
  /\ \A n \in 1..Len(regions) : Fits(regions[n])
  /\ \A m, n \in 1..Len(regions) :
       m # n => Below(regions[m], regions[n]) \/ Below(regions[n], regions[m])
  /\ Sorted
  /\ gpa # NoSearch => Bisecting
=============================================================================
