--------------------------- MODULE ParserProgram ----------------------------
(***************************************************************************)
(* MessageParser as one of the programs.                                   *)
(***************************************************************************)
EXTENDS Program, Integers, Sequences

CONSTANTS Base, MaxSize

(* A byte has at least one bit. *)
ASSUME BaseAssumption == Base \in Nat \ {0, 1} /\ MaxSize \in Nat

VARIABLES bytes, offset, parsed, handled, result
parserVars == <<bytes, offset, parsed, handled, result>>

M == INSTANCE MessageParser WITH buf <- bytes, i <- offset, counter <- parsed

(* mock4.c reads back exactly the messages that were written:              *)
(* MessageParser.                                                          *)
ParsedExactly == prog = "mock4" => M!ParsedExactly
=============================================================================
