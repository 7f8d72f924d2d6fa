---------------------------- MODULE BoundedFifo ----------------------------
(***************************************************************************)
(* What the queues of the repository promise (SPSC_Ring_buffer/rb.c,       *)
(* Interview/bounded_buffer.c): a first-in first-out queue of at most      *)
(* Capacity values.  A value is put once, is got once, and leaves in the   *)
(* order it came.  Who puts and who gets, and how they wait, is theirs.    *)
(***************************************************************************)
EXTENDS Naturals, Sequences

CONSTANTS Capacity,  \* how many values fit
          Values     \* what may be put

VARIABLES queue,  \* the values put and not yet got, oldest first
          got     \* every value got so far, in order

Init == queue = <<>> /\ got = <<>>

Put(v) ==
  /\ Len(queue) < Capacity
  /\ queue' = Append(queue, v)
  /\ got' = got

Get ==
  /\ queue # <<>>
  /\ got' = Append(got, Head(queue))
  /\ queue' = Tail(queue)

Next == Get \/ \E v \in Values : Put(v)

Spec == Init /\ [][Next]_<<queue, got>>
=============================================================================
