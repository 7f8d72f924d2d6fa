----------------------------- MODULE ParkingLot -----------------------------
(***************************************************************************)
(* leetcode/08-parking-lot.c: spots with an occupied flag on several       *)
(* levels, and a count of the free ones of each size that the searches     *)
(* trust.  The lot is one create_lot has made.                             *)
(***************************************************************************)
EXTENDS Integers, FiniteSets

CONSTANTS Levels, NumSmall, NumMedium, NumLarge

(* create_lot refuses a lot without spots. *)
LotShape ==
  /\ Levels \in Nat \ {0}
  /\ NumSmall \in Nat /\ NumMedium \in Nat /\ NumLarge \in Nat
  /\ NumSmall + NumMedium + NumLarge > 0

VARIABLES occupied,   \* occupied[p], p a level and a place on it
          freeCount,  \* free_count
          last        \* the last call and what it answered

lotVars == <<occupied, freeCount, last>>

PerFloor == NumSmall + NumMedium + NumLarge
Spots == (0..(Levels - 1)) \X (0..(PerFloor - 1))

(* enum Size: SMALL is 0, LARGE 2; smallest_fit *)
Sizes == 0..2
SizeOf(p) == IF p[2] < NumSmall THEN 0 ELSE IF p[2] < NumSmall + NumMedium THEN 1 ELSE 2
Vehicles == {"motorcycle", "car", "truck"}
SmallestFit(v) == IF v = "motorcycle" THEN 0 ELSE IF v = "car" THEN 1 ELSE 2

NoTicket == <<>>

(* create_lot *)
LotInit ==
  /\ occupied = [p \in Spots |-> FALSE]
  /\ freeCount = [s \in Sizes |-> Levels * (IF s = 0 THEN NumSmall ELSE IF s = 1 THEN NumMedium
                                            ELSE NumLarge)]
  /\ last = [call |-> "create", vehicle |-> "none", ticket |-> NoTicket]

Free(s) == {p \in Spots : ~occupied[p] /\ SizeOf(p) = s}

(* assigner passes over size s when its count is 0 or the search fails. *)
Room(s) == freeCount[s] # 0 /\ Free(s) # {}
Before(p, q) == p[1] < q[1] \/ (p[1] = q[1] /\ p[2] <= q[2])

-----------------------------------------------------------------------------
(* assigner: the first free spot of the smallest size with room, ... *)
ParkUncounted(v, s, p) ==
  /\ SmallestFit(v) <= s /\ Room(s)
  /\ \A z \in Sizes : SmallestFit(v) <= z /\ z < s => ~Room(z)
  /\ p \in Free(s) /\ \A q \in Free(s) : Before(p, q)
  /\ occupied' = [occupied EXCEPT ![p] = TRUE]
  /\ last' = [call |-> "park", vehicle |-> v, ticket |-> p]
  /\ UNCHANGED freeCount

Park(v, s, p) ==
  /\ SmallestFit(v) <= s /\ Room(s)
  /\ \A z \in Sizes : SmallestFit(v) <= z /\ z < s => ~Room(z)
  /\ p \in Free(s) /\ \A q \in Free(s) : Before(p, q)
  /\ occupied' = [occupied EXCEPT ![p] = TRUE]
  /\ freeCount' = [freeCount EXCEPT ![s] = @ - 1]
  /\ last' = [call |-> "park", vehicle |-> v, ticket |-> p]

(* ... or false. *)
Refuse(v) ==
  /\ \A s \in Sizes : SmallestFit(v) <= s => ~Room(s)
  /\ last' = [call |-> "park", vehicle |-> v, ticket |-> NoTicket]
  /\ UNCHANGED <<occupied, freeCount>>

(* deassigner: any ticket, also one of no spot, a used or an old one *)
Tickets == (0..Levels) \X (0..PerFloor)

Leave(t) ==
  /\ t \in Spots /\ occupied[t]
  /\ occupied' = [occupied EXCEPT ![t] = FALSE]
  /\ freeCount' = [freeCount EXCEPT ![SizeOf(t)] = @ + 1]
  /\ last' = [call |-> "leave", vehicle |-> "none", ticket |-> t]

LeaveInvalid(t) ==
  /\ ~(t \in Spots /\ occupied[t])
  /\ last' = [call |-> "leave", vehicle |-> "none", ticket |-> NoTicket]
  /\ UNCHANGED <<occupied, freeCount>>

LotNext ==
  \/ \E v \in Vehicles : Refuse(v) \/ \E s \in Sizes, p \in Spots : Park(v, s, p)
  \/ \E t \in Tickets : Leave(t) \/ LeaveInvalid(t)

LotSpec == LotInit /\ [][LotNext]_lotVars

LotTypeOK ==
  /\ occupied \in [Spots -> BOOLEAN]
  /\ freeCount \in [Sizes -> Nat]

-----------------------------------------------------------------------------
(* free_count is "kept in step with the occupied flags" (l.36), whatever   *)
(* tickets come back: it is what free_spots returns.                       *)
CountsInStep == \A s \in Sizes : freeCount[s] = Cardinality(Free(s))

(* assigner "parks in the smallest free spot that fits", or returns false  *)
(* "if the lot is full for this vehicle" (l.86-87) and only then, although *)
(* it looks at the counts first.                                           *)
Fitting(v) == {p \in Spots : ~occupied[p] /\ SmallestFit(v) <= SizeOf(p)}
SmallestThatFits ==
  last'.call = "park" =>
    IF last'.ticket = NoTicket THEN Fitting(last'.vehicle) = {}
    ELSE /\ last'.ticket \in Fitting(last'.vehicle)
         /\ \A q \in Fitting(last'.vehicle) : SizeOf(last'.ticket) <= SizeOf(q)
         /\ occupied' = [occupied EXCEPT ![last'.ticket] = TRUE]

(* Every call after create_lot leaves the counts in step, and every        *)
(* vehicle gets the spot it should.                                        *)
LotHonest == [][last'.call # "create" => CountsInStep' /\ SmallestThatFits]_lotVars
=============================================================================
