------------------------------ MODULE Program -------------------------------
(***************************************************************************)
(* The small programs of which only safety is asked are checked side by    *)
(* side: `prog' says which of them was started.                            *)
(***************************************************************************)
VARIABLE prog
=============================================================================
