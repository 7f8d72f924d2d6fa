------------------------------ MODULE Handoff ------------------------------
(***************************************************************************)
(* concurrency/03-handoff/handoff.c: a writer fills a struct and sets a    *)
(* flag; a reader that has seen the flag reads the struct.                 *)
(*                                                                         *)
(* The fields are plain memory: the stores of the writer become visible,   *)
(* and the loads of the reader are made, in any order.  The release store  *)
(* of the flag comes after all stores before it and hands them over; the   *)
(* acquire load that returns 1 comes before all loads after it and takes   *)
(* them over; one that returns the old 0 takes nothing.                    *)
(***************************************************************************)
EXTENDS Integers

VARIABLES spin,      \* whether the reader is read_spin or read_try
          written,   \* the fields written
          flag,      \* the flag: 0 or 1
          flagView,  \* the stores the flag hands over
          wpc, rpc,  \* where the writer and the reader are
          view,      \* the stores the reader has taken over
          checked,   \* the fields check_log has read
          mainPc     \* "createWriter", "createReader", "join", "ready", "notReady", "failed"

vars == <<spin, written, flag, flagView, wpc, rpc, view, checked, mainPc>>

(* What write_handoff stores and check_log loads. *)
Fields == {"time", "cpuid", "data0", "data1", "data2", "data3", "time_saved"}

Init ==
  /\ spin \in BOOLEAN
  /\ written = {} /\ flag = 0 /\ flagView = {}
  /\ wpc = "unborn" /\ rpc = "unborn"
  /\ view = {} /\ checked = {}
  /\ mainPc = "createWriter"

(* A return of main ends both threads. *)
Running == mainPc \in {"createWriter", "createReader", "join"}

-----------------------------------------------------------------------------
(* write_handoff: one plain store. *)
WriteField(f) ==
  /\ Running /\ wpc = "write" /\ f \notin written
  /\ written' = written \cup {f}
  /\ UNCHANGED <<spin, flag, flagView, wpc, rpc, view, checked, mainPc>>

(* write_handoff: the release store of the flag. *)
WriteFlagRelaxed ==
  /\ Running /\ wpc = "write" /\ written = Fields
  /\ flag' = 1
  /\ wpc' = "done"
  /\ UNCHANGED <<spin, written, flagView, rpc, view, checked, mainPc>>

WriteFlagForgotten ==
  /\ Running /\ wpc = "write" /\ written = Fields
  /\ wpc' = "done"
  /\ UNCHANGED <<spin, written, flag, flagView, rpc, view, checked, mainPc>>

WriteFlag ==
  /\ Running /\ wpc = "write" /\ written = Fields
  /\ flag' = 1 /\ flagView' = written
  /\ wpc' = "done"
  /\ UNCHANGED <<spin, written, rpc, view, checked, mainPc>>

(* read_try, read_spin: the acquire load returns 1. *)
ReadFlagSet ==
  /\ Running /\ rpc = "load" /\ flag = 1
  /\ view' = flagView
  /\ rpc' = "check"
  /\ UNCHANGED <<spin, written, flag, flagView, wpc, checked, mainPc>>

(* The acquire load returns 0, the latest value or a stale one; read_try   *)
(* gives up, read_spin loads again.                                        *)
ReadFlagClear ==
  /\ Running /\ rpc = "load"
  /\ rpc' = IF spin THEN "load" ELSE "gaveUp"
  /\ UNCHANGED <<spin, written, flag, flagView, wpc, view, checked, mainPc>>

(* check_log: one plain load; its assertions are the invariant CheckLog. *)
CheckField(f) ==
  /\ Running /\ rpc = "check" /\ f \notin checked
  /\ checked' = checked \cup {f}
  /\ rpc' = IF checked' = Fields THEN "done" ELSE "check"
  /\ UNCHANGED <<spin, written, flag, flagView, wpc, view, mainPc>>

-----------------------------------------------------------------------------
MainCreateWriter ==
  /\ mainPc = "createWriter"
  /\ wpc' = "write" /\ mainPc' = "createReader"
  /\ UNCHANGED <<spin, written, flag, flagView, rpc, view, checked>>

MainCreateReader ==
  /\ mainPc = "createReader"
  /\ rpc' = "load" /\ mainPc' = "join"
  /\ UNCHANGED <<spin, written, flag, flagView, wpc, view, checked>>

MainCreateFails ==
  /\ mainPc \in {"createWriter", "createReader"}
  /\ mainPc' = "failed"
  /\ UNCHANGED <<spin, written, flag, flagView, wpc, rpc, view, checked>>

(* main: join the writer and the reader, and report its result. *)
MainJoin ==
  /\ mainPc = "join" /\ wpc = "done" /\ rpc \in {"done", "gaveUp"}
  /\ mainPc' = IF rpc = "done" THEN "ready" ELSE "notReady"
  /\ UNCHANGED <<spin, written, flag, flagView, wpc, rpc, view, checked>>

-----------------------------------------------------------------------------
Writer == WriteFlag \/ \E f \in Fields : WriteField(f)
Check == \E f \in Fields : CheckField(f)
Main == MainCreateWriter \/ MainCreateReader \/ MainCreateFails \/ MainJoin

Next == Writer \/ ReadFlagSet \/ ReadFlagClear \/ Check \/ Main

Spec == Init /\ [][Next]_vars

(* The threads are scheduled, and a set flag becomes visible to a reader   *)
(* that keeps loading it.                                                  *)
Fairness ==
  /\ WF_vars(Writer) /\ WF_vars(ReadFlagSet) /\ WF_vars(Check) /\ WF_vars(Main)
  /\ WF_vars(~spin /\ ReadFlagClear)

FairSpec == Spec /\ Fairness

-----------------------------------------------------------------------------
(* Every field check_log is about to read has been written, by a store the *)
(* acquire load took over: its assertions (handoff.c:43) hold and there is *)
(* no data race.                                                           *)
CheckLog ==
  rpc = "check" => written = Fields /\ view = Fields

(* It is kept because a flag that is set hands the whole struct over. *)
IndInv == CheckLog /\ (flag = 1 => written = Fields /\ flagView = Fields)

(* read_spin "always reads it eventually" (handoff.c:60); in either mode   *)
(* main ends, and with read_spin it never reports "not ready".             *)
Ended == mainPc \in {"ready", "failed"} \/ (~spin /\ mainPc = "notReady")
=============================================================================
