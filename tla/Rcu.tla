-------------------------------- MODULE Rcu --------------------------------
(***************************************************************************)
(* Interview/mock1_rcu.c: the region table that vCPUs read without a lock  *)
(* and region_add replaces: copy, publish, wait for the readers, free.     *)
(*                                                                         *)
(* A table is an address; its contents are the set of regions in it (the   *)
(* sorted array and the binary search are the RegionTable component).      *)
(* malloc may return an address that was freed before.                     *)
(*                                                                         *)
(* Memory order.  The four seq_cst accesses are single steps on memory.    *)
(* The release store of read_end may become visible late: it goes through  *)
(* the reader's store buffer, which a seq_cst store drains.  A reader's    *)
(* seq is odd inside a section; of its value the writer only asks whether  *)
(* it is odd and whether it still is the value loaded first, and since seq *)
(* only grows the second is false for ever after one visible store: vis is *)
(* the visible parity, moved says that a store became visible since.       *)
(***************************************************************************)
EXTENDS Integers, Sequences, FiniteSets

CONSTANTS NReaders,    \* MAX_READERS
          Writers,     \* the threads that call region_add
          Regions,     \* the regions they may add
          Region0,     \* the region main adds before the vCPUs start
          MaxRegions,  \* MAX_REGIONS
          Addrs        \* the addresses malloc may return

ASSUME NReadersAssumption == NReaders \in Nat
ASSUME Region0Assumption == Region0 \in Regions

VARIABLES current,   \* the published table
          contents,  \* contents[a]: the regions in the table at a
          live,      \* the addresses allocated and not freed
          lock,      \* the threads that own writer_lock
          wpc,       \* wpc[w]: where w is in region_add
          rgn, old, new, idx,  \* its locals in w: rgn, old, t and i
          rpc,       \* rpc[r]: where vCPU r is
          tbl,       \* tbl[r]: the table it got from read_begin
          hits,      \* hits[r]: the regions it has found so far
          vis,       \* vis[r]: the parity of readers[r].seq in memory
          sb,        \* sb[r]: parities stored by r and not yet in memory
          moved,     \* moved[r]: readers[r].seq changed since s was loaded
          mainPc     \* "run", "stopping" (stop is set), "end"

tableVars == <<current, contents, live>>
writerVars == <<lock, wpc, rgn, old, new, idx>>
readerVars == <<rpc, tbl, hits, vis, sb, moved>>
vars == <<tableVars, writerVars, readerVars, mainPc>>

Readers == 0..(NReaders - 1)

(* A local pointer to a table outside of the call it belongs to. *)
NoTable == "none"

(* The table main has published when it starts the vCPUs. *)
Init ==
  /\ current \in Addrs
  /\ contents = [a \in Addrs |-> IF a = current THEN {Region0} ELSE {}]
  /\ live = {current}
  /\ lock = {}
  /\ wpc = [w \in Writers |-> "idle"] /\ rgn = [w \in Writers |-> Region0]
  /\ old = [w \in Writers |-> NoTable] /\ new = [w \in Writers |-> NoTable]
  /\ idx = [w \in Writers |-> 0]
  /\ rpc = [r \in Readers |-> "idle"] /\ tbl = [r \in Readers |-> NoTable]
  /\ hits = [r \in Readers |-> {}]
  /\ vis = [r \in Readers |-> 0]
  /\ sb = [r \in Readers |-> <<>>]
  /\ moved = [r \in Readers |-> TRUE]
  /\ mainPc = "run"

-----------------------------------------------------------------------------
(* vcpu: the loop's relaxed load of stop, which may miss a recent store,   *)
(* then the seq_cst store of read_begin, which leaves nothing in the store *)
(* buffer.                                                                 *)
ReadBeginStoreRelease(r) ==
  /\ mainPc # "end" /\ rpc[r] = "idle" /\ Len(sb[r]) < 2
  /\ rpc' = [rpc EXCEPT ![r] = "entered"]
  /\ sb' = [sb EXCEPT ![r] = Append(@, 1)]
  /\ UNCHANGED <<tableVars, writerVars, tbl, hits, vis, moved, mainPc>>

ReadBeginStore(r) ==
  /\ mainPc # "end" /\ rpc[r] = "idle"
  /\ rpc' = [rpc EXCEPT ![r] = "entered"]
  /\ sb' = [sb EXCEPT ![r] = <<>>]
  /\ vis' = [vis EXCEPT ![r] = 1]
  /\ moved' = [moved EXCEPT ![r] = TRUE]
  /\ UNCHANGED <<tableVars, writerVars, tbl, hits, mainPc>>

(* read_begin: the seq_cst load of current *)
ReadBeginLoad(r) ==
  /\ rpc[r] = "entered"
  /\ rpc' = [rpc EXCEPT ![r] = "lookup"]
  /\ tbl' = [tbl EXCEPT ![r] = current]
  /\ UNCHANGED <<tableVars, writerVars, hits, vis, sb, moved, mainPc>>

(* translate: lookup in the table for an address of region g *)
Lookup(r, g) ==
  /\ rpc[r] = "lookup"
  /\ rpc' = [rpc EXCEPT ![r] = "looked"]
  /\ hits' = [hits EXCEPT ![r] = @ \cup (contents[tbl[r]] \cap {g})]
  /\ UNCHANGED <<tableVars, writerVars, tbl, vis, sb, moved, mainPc>>

(* read_end: the release store, not before the reads of the table *)
ReadEnd(r) ==
  /\ rpc[r] = "looked"
  /\ rpc' = [rpc EXCEPT ![r] = "idle"]
  /\ tbl' = [tbl EXCEPT ![r] = NoTable]
  /\ sb' = [sb EXCEPT ![r] = Append(@, 0)]
  /\ UNCHANGED <<tableVars, writerVars, hits, vis, moved, mainPc>>

(* vcpu: the load of stop returns true. *)
VcpuStops(r) ==
  /\ mainPc = "stopping" /\ rpc[r] = "idle"
  /\ rpc' = [rpc EXCEPT ![r] = "done"]
  /\ UNCHANGED <<tableVars, writerVars, tbl, hits, vis, sb, moved, mainPc>>

(* A buffered store reaches memory. *)
Flush(r) ==
  /\ sb[r] # <<>>
  /\ vis' = [vis EXCEPT ![r] = Head(sb[r])]
  /\ sb' = [sb EXCEPT ![r] = Tail(@)]
  /\ moved' = [moved EXCEPT ![r] = TRUE]
  /\ UNCHANGED <<tableVars, writerVars, rpc, tbl, hits, mainPc>>

-----------------------------------------------------------------------------
(* region_add: lock, load current.  (A bad size or a region that wraps is  *)
(* refused before, and changes nothing.)                                   *)
AddLock(w, g) ==
  /\ mainPc = "run" /\ wpc[w] = "idle"
  /\ lock = {}
  /\ lock' = {w}
  /\ wpc' = [wpc EXCEPT ![w] = "check"]
  /\ rgn' = [rgn EXCEPT ![w] = g]
  /\ old' = [old EXCEPT ![w] = current]
  /\ UNCHANGED <<tableVars, new, idx, readerVars, mainPc>>

(* region_add: ADD_FULL, ADD_OVERLAP, or ADD_NOMEM at any time *)
AddFails(w) ==
  /\ wpc[w] = "check"
  /\ wpc' = [wpc EXCEPT ![w] = "unlock"]
  /\ UNCHANGED <<tableVars, lock, rgn, old, new, idx, readerVars, mainPc>>

(* region_add: the new table is allocated and filled. *)
AddInPlace(w) ==
  /\ wpc[w] = "check"
  /\ Cardinality(contents[old[w]]) # MaxRegions
  /\ rgn[w] \notin contents[old[w]]
  /\ contents' = [contents EXCEPT ![current] = @ \cup {rgn[w]}]
  /\ wpc' = [wpc EXCEPT ![w] = "unlock"]
  /\ UNCHANGED <<current, live, lock, rgn, old, new, idx, readerVars, mainPc>>

AddBuildWithoutCopy(w) ==
  /\ wpc[w] = "check"
  /\ rgn[w] \notin contents[old[w]]
  /\ \E a \in Addrs \ live :
       /\ live' = live \cup {a}
       /\ contents' = [contents EXCEPT ![a] = {rgn[w]}]
       /\ new' = [new EXCEPT ![w] = a]
  /\ wpc' = [wpc EXCEPT ![w] = "publish"]
  /\ UNCHANGED <<current, lock, rgn, old, idx, readerVars, mainPc>>

AddBuild(w) ==
  /\ wpc[w] = "check"
  /\ Cardinality(contents[old[w]]) # MaxRegions
  /\ rgn[w] \notin contents[old[w]]
  /\ \E a \in Addrs \ live :
       /\ live' = live \cup {a}
       /\ contents' = [contents EXCEPT ![a] = contents[old[w]] \cup {rgn[w]}]
       /\ new' = [new EXCEPT ![w] = a]
  /\ wpc' = [wpc EXCEPT ![w] = "publish"]
  /\ UNCHANGED <<current, lock, rgn, old, idx, readerVars, mainPc>>

(* region_add: the seq_cst store of current *)
AddPublish(w) ==
  /\ wpc[w] = "publish"
  /\ current' = new[w]
  /\ wpc' = [wpc EXCEPT ![w] = "wait"]
  /\ idx' = [idx EXCEPT ![w] = 0]
  /\ UNCHANGED <<contents, live, lock, rgn, old, new, readerVars, mainPc>>

(* wait_for_readers: the seq_cst load of readers[i].seq; an even value     *)
(* needs no wait, ...                                                      *)
WaitLoadEven(w) ==
  /\ wpc[w] = "wait" /\ idx[w] < NReaders /\ vis[idx[w]] = 0
  /\ idx' = [idx EXCEPT ![w] = @ + 1]
  /\ UNCHANGED <<tableVars, lock, wpc, rgn, old, new, readerVars, mainPc>>

(* ... an odd one is waited on.                                            *)
WaitLoadOdd(w) ==
  /\ wpc[w] = "wait" /\ idx[w] < NReaders /\ vis[idx[w]] # 0
  /\ wpc' = [wpc EXCEPT ![w] = "spin"]
  /\ moved' = [moved EXCEPT ![idx[w]] = FALSE]
  /\ UNCHANGED <<tableVars, lock, rgn, old, new, idx, rpc, tbl, hits, vis, sb, mainPc>>

(* wait_for_readers: the while ends when seq is no longer s. *)
WaitSpinUntilEven(w) ==
  /\ wpc[w] = "spin" /\ vis[idx[w]] = 0
  /\ wpc' = [wpc EXCEPT ![w] = "wait"]
  /\ idx' = [idx EXCEPT ![w] = @ + 1]
  /\ UNCHANGED <<tableVars, lock, rgn, old, new, readerVars, mainPc>>

WaitSpin(w) ==
  /\ wpc[w] = "spin" /\ moved[idx[w]]
  /\ wpc' = [wpc EXCEPT ![w] = "wait"]
  /\ idx' = [idx EXCEPT ![w] = @ + 1]
  /\ UNCHANGED <<tableVars, lock, rgn, old, new, readerVars, mainPc>>

(* region_add: free(old), once all readers have been waited for *)
AddFreeForgotten(w) ==
  /\ wpc[w] = "wait" /\ idx[w] = NReaders
  /\ wpc' = [wpc EXCEPT ![w] = "unlock"]
  /\ UNCHANGED <<tableVars, lock, rgn, old, new, idx, readerVars, mainPc>>

AddFree(w) ==
  /\ wpc[w] = "wait" /\ idx[w] = NReaders
  /\ live' = live \ {old[w]}
  /\ wpc' = [wpc EXCEPT ![w] = "unlock"]
  /\ UNCHANGED <<current, contents, lock, rgn, old, new, idx, readerVars, mainPc>>

(* region_add: unlock and return *)
AddUnlock(w) ==
  /\ wpc[w] = "unlock"
  /\ lock' = lock \ {w}
  /\ wpc' = [wpc EXCEPT ![w] = "idle"]
  /\ rgn' = [rgn EXCEPT ![w] = Region0] /\ idx' = [idx EXCEPT ![w] = 0]
  /\ old' = [old EXCEPT ![w] = NoTable] /\ new' = [new EXCEPT ![w] = NoTable]
  /\ UNCHANGED <<tableVars, readerVars, mainPc>>

-----------------------------------------------------------------------------
(* main: when it has added its regions it sets stop. *)
MainStop ==
  /\ mainPc = "run"
  /\ \A w \in Writers : wpc[w] = "idle"
  /\ mainPc' = "stopping"
  /\ UNCHANGED <<tableVars, writerVars, readerVars>>

(* main: join the vCPUs, look every region up once more in a program that  *)
(* now has a single thread, and free the last table.                       *)
MainEnd ==
  /\ mainPc = "stopping"
  /\ \A r \in Readers : rpc[r] = "done"
  /\ live' = live \ {current}
  /\ mainPc' = "end"
  /\ UNCHANGED <<current, contents, writerVars, readerVars>>

-----------------------------------------------------------------------------
Reader(r) ==
  \/ ReadBeginStore(r) \/ ReadBeginLoad(r) \/ ReadEnd(r) \/ VcpuStops(r)
  \/ \E g \in Regions : Lookup(r, g)

(* What a writer does once it has called region_add. *)
Adding(w) ==
  \/ AddFails(w) \/ AddBuild(w) \/ AddPublish(w)
  \/ WaitLoadEven(w) \/ WaitLoadOdd(w) \/ WaitSpin(w) \/ AddFree(w) \/ AddUnlock(w)

Next ==
  \/ \E r \in Readers : Reader(r) \/ Flush(r)
  \/ \E w \in Writers : Adding(w) \/ \E g \in Regions : AddLock(w, g)
  \/ MainStop
  \/ MainEnd

Spec == Init /\ [][Next]_vars

(* A vCPU inside a section and a writer inside region_add keep running,    *)
(* and a store becomes visible in the end.  Nobody has to start anything.  *)
Fairness ==
  /\ \A r \in Readers :
       WF_vars(rpc[r] # "idle" /\ Reader(r)) /\ WF_vars(Flush(r))
  /\ \A w \in Writers : WF_vars(Adding(w))

FairSpec == Spec /\ Fairness

-----------------------------------------------------------------------------
InSection(r) == rpc[r] \in {"lookup", "looked"}

(* Between read_begin and read_end a reader's table is allocated: the      *)
(* writer frees no table that a reader still holds, whatever the order of  *)
(* their steps and however late a reader's leaving becomes visible.        *)
NoUseAfterFree == \A r \in Readers : InSection(r) => tbl[r] \in live

(* Only adds are supported: a region that a vCPU has once found is in      *)
(* every table it reads later.                                             *)
MonotoneReads ==
  \A r \in Readers : InSection(r) => hits[r] \cup {Region0} \subseteq contents[tbl[r]]

(* Every allocated table is the published one or belongs to the one        *)
(* region_add under way: on no path is a table leaked.                     *)
NoTableLeaks ==
  /\ mainPc = "end" => live = {}
  /\ mainPc # "end" =>
       live \subseteq {current} \cup
         UNION {{old[w], new[w]} : w \in {v \in Writers : wpc[v] \in {"publish", "wait", "spin"}}}

(* A table never changes once it is published (mock1_rcu.c:29): not while  *)
(* it is current, nor while a reader holds it.                             *)
PublishedImmutable ==
  [][\A a \in Addrs :
       a = current \/ (\E r \in Readers : InSection(r) /\ tbl[r] = a)
         => contents'[a] = contents[a]]_vars

-----------------------------------------------------------------------------
(* What the safety properties rest on. *)
TypeOK ==
  /\ current \in Addrs
  /\ contents \in [Addrs -> SUBSET Regions]
  /\ live \subseteq Addrs
  /\ wpc \in [Writers -> {"idle", "check", "publish", "wait", "spin", "unlock"}]
  /\ rgn \in [Writers -> Regions]
  /\ old \in [Writers -> Addrs \cup {NoTable}]
  /\ new \in [Writers -> Addrs \cup {NoTable}]
  /\ idx \in [Writers -> 0..NReaders]
  /\ rpc \in [Readers -> {"idle", "entered", "lookup", "looked", "done"}]
  /\ tbl \in [Readers -> Addrs \cup {NoTable}]
  /\ hits \in [Readers -> SUBSET Regions]
  /\ vis \in [Readers -> {0, 1}]
  /\ sb \in [Readers -> Seq({0, 1})]
  /\ moved \in [Readers -> BOOLEAN]
  /\ mainPc \in {"run", "stopping", "end"}

(* The mutex: one region_add at a time, none once main has set stop. *)
LockInv ==
  /\ lock = {w \in Writers : wpc[w] # "idle"}
  /\ \A v, w \in lock : v = w
  /\ mainPc # "run" => lock = {}

(* The table the region_add of w has built, or has replaced and not freed. *)
Second(w, a) ==
  \/ wpc[w] = "publish" /\ a = new[w]
  \/ wpc[w] \in {"wait", "spin"} /\ a = old[w]

(* Which tables are allocated. *)
LiveInv ==
  \A a \in Addrs :
    a \in live <=> mainPc # "end" /\ (a = current \/ \E w \in Writers : Second(w, a))

(* The locals of region_add: a table is replaced by another one that holds *)
(* what it held.                                                           *)
AddInv ==
  \A w \in Writers :
    /\ wpc[w] \in {"check", "publish"} => old[w] = current
    /\ wpc[w] = "publish" => /\ new[w] \in Addrs \ {current}
                             /\ contents[current] \subseteq contents[new[w]]
    /\ wpc[w] \in {"wait", "spin"} => /\ old[w] \in Addrs \ {current}
                                      /\ contents[old[w]] \subseteq contents[current]
    /\ wpc[w] = "spin" => idx[w] < NReaders

(* From read_begin's store to read_end's a reader's seq is visibly odd. *)
ReadersInv ==
  /\ \A r \in Readers : rpc[r] \in {"entered", "lookup", "looked"} => vis[r] = 1 /\ sb[r] = <<>>
  /\ mainPc = "end" => \A r \in Readers : rpc[r] = "done"

(* The writer of w still has to wait for reader r. *)
Awaits(w, r) ==
  /\ wpc[w] \in {"wait", "spin"}
  /\ idx[w] <= r
  /\ wpc[w] = "spin" /\ idx[w] = r => ~moved[r]

(* A reader's table is the published one, or one that a region_add will    *)
(* not free before it has waited for this very reader.                     *)
GraceInv ==
  \A r \in Readers : InSection(r) =>
    \/ tbl[r] = current
    \/ \E w \in Writers : Awaits(w, r) /\ tbl[r] = old[w]

(* What a vCPU has found is in the published table and in its own. *)
HitsInv ==
  \A r \in Readers :
    /\ hits[r] \cup {Region0} \subseteq contents[current]
    /\ InSection(r) => hits[r] \cup {Region0} \subseteq contents[tbl[r]]

IndInv == TypeOK /\ LockInv /\ LiveInv /\ AddInv /\ ReadersInv /\ GraceInv /\ HitsInv

(* "A reader that re-enters at once can't starve the writer"               *)
(* (mock1_rcu.c:98): every region_add returns although the vCPUs never     *)
(* stop reading.                                                           *)
WriterNotStarved ==
  \A w \in Writers : wpc[w] # "idle" ~> wpc[w] = "idle"
=============================================================================
