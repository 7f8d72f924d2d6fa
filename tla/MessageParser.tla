--------------------------- MODULE MessageParser ---------------------------
(***************************************************************************)
(* Interview/mock4.c: parse_msgs cuts a buffer into messages, each a type  *)
(* and a length of two bytes, low byte first, and that many bytes of       *)
(* payload, and calls handle_msg for each, with a pointer to its payload.  *)
(***************************************************************************)
EXTENDS Integers, Sequences

CONSTANTS Base,     \* 2^8: a byte is below it, a uint16_t below its square
          MaxSize   \* bound on the size of a buffer

VARIABLES buf,      \* buf[0 .. size-1]
          i,        \* where the next message starts
          counter,  \* the messages handled, a uint16_t
          handled,  \* the calls of handle_msg: type, offset of the payload, and length
          result    \* what parse_msgs returned; Unset before it has

vars == <<buf, i, counter, handled, result>>

Unset == -2

Init ==
  /\ buf \in UNION {[1..n -> 0..(Base - 1)] : n \in 0..MaxSize}
  /\ i = 0 /\ counter = 0 /\ handled = <<>> /\ result = Unset

(* The two bytes at offset k *)
Word(k) == buf[k + 2] * Base + buf[k + 1]
Type == Word(i)
Length == Word(i + 2)

KnownTypes == {1, 2, 3}

HeaderFitsStrictly == i + 4 < Len(buf)
HeaderFits == i + 4 <= Len(buf)
PayloadFits == i + Length + 4 <= Len(buf)
WellFormed == HeaderFits /\ Type \in KnownTypes /\ PayloadFits

-----------------------------------------------------------------------------
(* One turn of the loop that handles a message, ... *)
HandleMsg ==
  /\ result = Unset /\ i < Len(buf) /\ WellFormed
  /\ handled' = Append(handled, [type |-> Type, payload |-> i + 4, len |-> Length])
  /\ counter' = (counter + 1) % (Base * Base)
  /\ i' = i + Length + 4
  /\ UNCHANGED <<buf, result>>

(* ... one that gives up, and the return after the loop. *)
GiveUp ==
  /\ result = Unset /\ i < Len(buf) /\ ~WellFormed
  /\ result' = -1
  /\ UNCHANGED <<buf, i, counter, handled>>

Return ==
  /\ result = Unset /\ i >= Len(buf)
  /\ result' = counter
  /\ UNCHANGED <<buf, i, counter, handled>>

Next == HandleMsg \/ GiveUp \/ Return

Spec == Init /\ [][Next]_vars

-----------------------------------------------------------------------------
(* How a message of this type and length begins, and whether one does at  *)
(* offset k                                                                *)
Header(type, n) == <<type % Base, type \div Base, n % Base, n \div Base>>
HasHeader(k, type, n) == \A b \in 1..4 : buf[k + b] = Header(type, n)[b]

(* Where the k-th message ends and the next one starts *)
End(k) == IF k = 0 THEN 0 ELSE handled[k].payload + handled[k].len

(* The k-th call of handle_msg got what was written at the end of the one *)
(* before: a header, and the payload behind it.                            *)
ReadBack(k) ==
  /\ handled[k].type \in KnownTypes /\ handled[k].payload = End(k - 1) + 4
  /\ HasHeader(End(k - 1), handled[k].type, handled[k].len)

(* The calls of handle_msg are the inverse of writing the messages out one *)
(* after the other: each payload follows the header that was written for   *)
(* it, the messages lie end to end from 0 to i, and all of it is in the    *)
(* buffer.  The parser stops at the end, or with -1 where no message that  *)
(* fits is left to read.                                                   *)
ParsedExactly ==
  /\ \A k \in 1..Len(handled) : ReadBack(k)
  /\ i = End(Len(handled)) /\ i <= Len(buf)
  /\ result # Unset => (result = -1 <=> i < Len(buf))
  /\ result = -1 => \A type \in KnownTypes : \A n \in 0..(Len(buf) - i - 4) :
                      ~HasHeader(i, type, n)

(* "returns the number of parsed messages, -1 if there is a problem"       *)
(* (mock4.c:25): the count is the number of calls of handle_msg.           *)
ReturnsTheNumber == result \notin {Unset, -1} => result = Len(handled)

-----------------------------------------------------------------------------
TypeOK ==
  /\ buf \in Seq(0..(Base - 1)) /\ i \in Nat /\ counter \in Nat /\ result \in Int
  /\ handled \in Seq([type : Nat, payload : Nat, len : Nat])

IndInv == TypeOK /\ ParsedExactly
=============================================================================
