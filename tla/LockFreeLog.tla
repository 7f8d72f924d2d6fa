---------------------------- MODULE LockFreeLog ----------------------------
(***************************************************************************)
(* CPU_logger/cpu_logger_lock_free.c: a CPU reserves a ticket with one     *)
(* fetch_add and copies its entry into the ticket's slot; the slot's seq   *)
(* says whether the slot is being written or holds a ticket's entry.       *)
(*                                                                         *)
(* The memcpy of an entry is one step per word; a word holds the ticket    *)
(* of the entry it was copied from, so an entry is torn when its words     *)
(* differ.  The release fence keeps the copy after the store of the odd    *)
(* seq and the acquire fence keeps the second load of seq after the copy,  *)
(* so the steps of each side happen in the order of the program.           *)
(*                                                                         *)
(* Readers call log_read while the CPUs write; main does so after joining  *)
(* them, one of the interleavings.                                         *)
(***************************************************************************)
EXTENDS LoggerCpus

CONSTANTS LogSlots,  \* LOG_SLOTS
          Words,     \* the words of a log_entry_t
          Readers    \* the threads that call log_read

ASSUME LogSlotsAssumption == LogSlots \in Nat \ {0}
ASSUME WordsAssumption == Words \in Nat \ {0}

VARIABLES head,   \* log->head
          seq,    \* seq[s]: log->slots[s].seq
          entry,  \* entry[s][w]: the words of log->slots[s].entry
          wr,     \* wr[c]: pc, entries written i, ticket, words copied w
          rd,     \* rd[r]: pc, ticket, words copied w, out
          lapped  \* history: a ticket was reserved while an earlier ticket of
                  \* the same slot was not yet published

vars == <<head, seq, entry, wr, rd, lapped>>

Slots == 0..(LogSlots - 1)
Tickets == 0..(Cardinality(Cpus) * Entries - 1)

(* &log->slots[ticket & (LOG_SLOTS - 1)] *)
Slot(ticket) == ticket % LogSlots

Writing(ticket) == 2 * ticket + 1
Committed(ticket) == 2 * ticket + 2

Blank == [w \in 1..Words |-> -1]

Init ==
  /\ head = 0
  /\ seq = [s \in Slots |-> 0]
  /\ entry = [s \in Slots |-> Blank]
  /\ wr = [c \in Cpus |-> [pc |-> "loop", i |-> 0, ticket |-> 0, w |-> 0]]
  /\ rd = [r \in Readers |-> [pc |-> "idle", ticket |-> 0, w |-> 0, out |-> Blank]]
  /\ lapped = FALSE

-----------------------------------------------------------------------------
(* log_write: reserve a slot. *)
Reserve(c) ==
  /\ wr[c].pc = "loop" /\ wr[c].i < Entries
  /\ wr' = [wr EXCEPT ![c].pc = "mark", ![c].ticket = head]
  /\ head' = head + 1
  /\ lapped' = (lapped \/ \E d \in Cpus : wr[d].pc # "loop" /\ Slot(wr[d].ticket) = Slot(head))
  /\ UNCHANGED <<seq, entry, rd>>

(* log_write: mark the slot "in progress". *)
Mark(c) ==
  /\ wr[c].pc = "mark"
  /\ seq' = [seq EXCEPT ![Slot(wr[c].ticket)] = Writing(wr[c].ticket)]
  /\ wr' = [wr EXCEPT ![c].pc = "copy", ![c].w = 0]
  /\ UNCHANGED <<head, entry, rd, lapped>>

(* log_write: the slow copy, one word. *)
Copy(c) ==
  /\ wr[c].pc = "copy" /\ wr[c].w < Words
  /\ entry' = [entry EXCEPT ![Slot(wr[c].ticket)][wr[c].w + 1] = wr[c].ticket]
  /\ wr' = [wr EXCEPT ![c].w = @ + 1]
  /\ UNCHANGED <<head, seq, rd, lapped>>

(* log_write: publish; the i++ of the worker's loop. *)
PublishBeforeCopied(c) ==
  /\ wr[c].pc = "copy" /\ wr[c].w >= Words - 1
  /\ seq' = [seq EXCEPT ![Slot(wr[c].ticket)] = Committed(wr[c].ticket)]
  /\ wr' = [wr EXCEPT ![c].pc = "loop", ![c].i = @ + 1]
  /\ UNCHANGED <<head, entry, rd, lapped>>

Publish(c) ==
  /\ wr[c].pc = "copy" /\ wr[c].w = Words
  /\ seq' = [seq EXCEPT ![Slot(wr[c].ticket)] = Committed(wr[c].ticket)]
  /\ wr' = [wr EXCEPT ![c].pc = "loop", ![c].i = @ + 1]
  /\ UNCHANGED <<head, entry, rd, lapped>>

-----------------------------------------------------------------------------
(* log_read: the first load of seq; anything but the committed value of    *)
(* the ticket is refused.                                                  *)
ReadFirst(r, ticket) ==
  /\ rd[r].pc = "idle"
  /\ seq[Slot(ticket)] = Committed(ticket)
  /\ rd' = [rd EXCEPT ![r] = [pc |-> "copy", ticket |-> ticket, w |-> 0, out |-> Blank]]
  /\ UNCHANGED <<head, seq, entry, wr, lapped>>

(* log_read: the copy, one word. *)
ReadCopy(r) ==
  /\ rd[r].pc = "copy" /\ rd[r].w < Words
  /\ rd' = [rd EXCEPT ![r].out[rd[r].w + 1] = entry[Slot(rd[r].ticket)][rd[r].w + 1],
                      ![r].w = @ + 1]
  /\ UNCHANGED <<head, seq, entry, wr, lapped>>

(* log_read: the second load of seq, and the result; "ok" is 0, "idle" the *)
(* return of -1.                                                           *)
ReadSecondSkipped(r) ==
  /\ rd[r].pc = "copy" /\ rd[r].w = Words
  /\ rd' = [rd EXCEPT ![r].pc = "ok"]
  /\ UNCHANGED <<head, seq, entry, wr, lapped>>

ReadSecond(r) ==
  /\ rd[r].pc = "copy" /\ rd[r].w = Words
  /\ rd' = [rd EXCEPT ![r].pc =
              IF seq[Slot(rd[r].ticket)] = Committed(rd[r].ticket) THEN "ok" ELSE "idle"]
  /\ UNCHANGED <<head, seq, entry, wr, lapped>>

(* The caller has used the entry and reads another. *)
ReadAgain(r) ==
  /\ rd[r].pc = "ok"
  /\ rd' = [rd EXCEPT ![r].pc = "idle"]
  /\ UNCHANGED <<head, seq, entry, wr, lapped>>

-----------------------------------------------------------------------------
Worker(c) == Reserve(c) \/ Mark(c) \/ Copy(c) \/ Publish(c)
Reader(r) ==
  ReadCopy(r) \/ ReadSecond(r) \/ ReadAgain(r) \/ \E t \in Tickets : ReadFirst(r, t)

Next == (\E c \in Cpus : Worker(c)) \/ (\E r \in Readers : Reader(r))

Spec == Init /\ [][Next]_vars

-----------------------------------------------------------------------------
(* "Returns 0 if the entry for 'ticket' was read consistently"             *)
(* (cpu_logger_lock_free.c:70): all words of an accepted entry are the     *)
(* ticket's own, whatever was overwritten while it was copied.             *)
ReadConsistent ==
  \A r \in Readers : rd[r].pc = "ok" => \A w \in 1..Words : rd[r].out[w] = rd[r].ticket

(* The same, as long as no writer has been lapped: the log may wrap any    *)
(* number of times under a reader and log_read still refuses what was      *)
(* overwritten (l.75, l.81).                                               *)
ConsistentUnlessLapped == ~lapped => ReadConsistent

(* "odd = write in progress, even = committed" (l.34): a slot whose seq is *)
(* even and not 0 holds exactly one entry, and nobody is copying to it.    *)
(* When the workers have returned the last LOG_SLOTS tickets are           *)
(* committed: in main, which does not let the log wrap (l.109), all there  *)
(* are (l.146).                                                            *)
EvenMeansCommitted ==
  ~lapped =>
    /\ \A s \in Slots : seq[s] # 0 /\ seq[s] % 2 = 0 =>
         /\ \A w \in 1..Words : Committed(entry[s][w]) = seq[s]
         /\ \A c \in Cpus : wr[c].pc = "copy" => Slot(wr[c].ticket) # s
    /\ (\A c \in Cpus : wr[c].i = Entries) =>
         /\ head = Cardinality(Cpus) * Entries
         /\ \A t \in 0..(head - 1) : t + LogSlots >= head => seq[Slot(t)] = Committed(t)

-----------------------------------------------------------------------------
(* Why the two hold.                                                       *)
TypeOK ==
  /\ head \in Nat /\ lapped \in BOOLEAN
  /\ seq \in [Slots -> Nat] /\ entry \in [Slots -> [1..Words -> Int]]
  /\ wr \in [Cpus -> [pc : {"loop", "mark", "copy"}, i : 0..Entries, ticket : Nat, w : 0..Words]]
  /\ rd \in [Readers -> [pc : {"idle", "copy", "ok"}, ticket : Nat, w : 0..Words,
                         out : [1..Words -> Int]]]

(* The turns for which a ticket has been reserved: head counts them.       *)
Busy(c) == wr[c].pc # "loop"
Reserved == {x \in Cpus \X (0..(Entries - 1)) :
               x[2] < wr[x[1]].i \/ (Busy(x[1]) /\ x[2] = wr[x[1]].i)}
CountInv == head = Cardinality(Reserved) /\ \A c \in Cpus : Busy(c) => wr[c].i < Entries

(* A writer in flight has one of the last LOG_SLOTS tickets and the slot   *)
(* to itself: it finds an older seq there, and then only its own.          *)
WriterInv(c) ==
  LET t == wr[c].ticket
  IN Busy(c) =>
       /\ t < head /\ head <= t + LogSlots
       /\ wr[c].pc = "mark" => seq[Slot(t)] < Writing(t)
       /\ wr[c].pc = "copy" => /\ seq[Slot(t)] = Writing(t)
                               /\ \A w \in 1..wr[c].w : entry[Slot(t)][w] = t

(* What a reader has copied is the ticket's while seq has not moved on,    *)
(* and seq only moves forward.                                             *)
ReaderInv(r) ==
  LET t == rd[r].ticket
  IN /\ rd[r].pc = "copy" =>
          /\ seq[Slot(t)] >= Committed(t)
          /\ seq[Slot(t)] = Committed(t) => \A w \in 1..rd[r].w : rd[r].out[w] = t
     /\ rd[r].pc = "ok" => \A w \in 1..Words : rd[r].out[w] = t

(* A slot whose seq is even holds that ticket; the last LOG_SLOTS tickets  *)
(* are committed or in flight.                                             *)
SlotInv(s) ==
  /\ seq[s] <= 2 * head
  /\ seq[s] # 0 /\ seq[s] % 2 = 0 => \A w \in 1..Words : Committed(entry[s][w]) = seq[s]
TicketInv(t) ==
  \/ t + LogSlots < head \/ seq[Slot(t)] = Committed(t)
  \/ \E c \in Cpus : Busy(c) /\ wr[c].ticket = t
Apart ==
  \A c, d \in Cpus : Busy(c) /\ Busy(d) /\ Slot(wr[c].ticket) = Slot(wr[d].ticket) => c = d

UnlappedInv ==
  /\ \A s \in Slots : SlotInv(s)
  /\ \A c \in Cpus : WriterInv(c)
  /\ Apart
  /\ \A t \in 0..(head - 1) : TicketInv(t)
  /\ \A r \in Readers : ReaderInv(r)

IndInv == TypeOK /\ CountInv /\ (~lapped => UnlappedInv)
=============================================================================
