------------------------------ MODULE MCDrills ------------------------------
(***************************************************************************)
(* The smaller programs of concurrency/, and ping-pong/, for TLC, in one   *)
(* state space: `prog' says which of them is the one that was started.     *)
(* The others stay in their initial state and nothing is required of them. *)
(***************************************************************************)
EXTENDS Cas

CONSTANTS Capacity, Wrap, NItems, NTries,  \* of LockRing
          Counts                           \* of PingPong

(* init_ring accepts powers of two, all of which divide 2^64. *)
ASSUME RingAssumption ==
  /\ Capacity \in Nat \ {0} /\ NItems \in Nat \ {0} /\ NTries \in Nat
  /\ Wrap \in Nat /\ \E k \in 2..Wrap : Wrap = k * Capacity

VARIABLES prog,
          spin, written, flag, flagView, wpc, rpc, view, checked, handoffMain,
          buf, head, tail, owner, ringPc, ringI, tried, got, ringMain,
          version, exchanges, at, todo, open, bytes, bounces, warned, reported

H == INSTANCE Handoff WITH mainPc <- handoffMain
R == INSTANCE LockRing WITH pc <- ringPc, i <- ringI, mainPc <- ringMain
P == INSTANCE PingPong WITH i <- bounces

handoffVars == <<spin, written, flag, flagView, wpc, rpc, view, checked, handoffMain>>
lockRingVars == <<buf, head, tail, owner, ringPc, ringI, tried, got, ringMain>>
pingPongVars == <<version, exchanges, at, todo, open, bytes, bounces, warned, reported>>
drillVars == <<prog, vars, handoffVars, lockRingVars, pingPongVars>>

(* Programs that are not started have one initial state. *)
DrillInit ==
  /\ prog \in {"cas", "handoff", "rb_lock", "pingpong"}
  /\ Init /\ R!Init /\ H!Init /\ P!Init
  /\ prog # "handoff" => spin
  /\ prog # "pingpong" => version = "main" /\ exchanges = 1

DrillNext ==
  \/ prog = "cas" /\ Next /\ UNCHANGED <<prog, handoffVars, lockRingVars, pingPongVars>>
  \/ prog = "handoff" /\ H!Next /\ UNCHANGED <<prog, vars, lockRingVars, pingPongVars>>
  \/ prog = "rb_lock" /\ R!Next /\ UNCHANGED <<prog, vars, handoffVars, pingPongVars>>
  \/ prog = "pingpong" /\ P!Next /\ UNCHANGED <<prog, vars, handoffVars, lockRingVars>>

DrillSpec ==
  /\ DrillInit /\ [][DrillNext]_drillVars
  /\ \/ prog = "cas" /\ Fairness
     \/ prog = "handoff" /\ H!Fairness
     \/ prog = "rb_lock" /\ R!Fairness
     \/ prog = "pingpong" /\ P!Fairness

-----------------------------------------------------------------------------
(* Once the flag is seen the whole struct is (handoff.c:43): Handoff.      *)
CheckLog == H!CheckLog

(* The ring of rb_lock.c is a bounded queue: LockRing.                     *)
ImplementsBoundedFifo == R!ImplementsBoundedFifo

(* The byte of ping-pong/ is never lost or doubled, the EOFs mean what     *)
(* they should and the report is true: PingPong.                           *)
InStep == P!InStep

(* Every drill ends: the compare-and-swap loops of cas.c and main after    *)
(* them, read_spin of handoff.c with the struct, both threads of rb_lock.c *)
(* and both processes of ping-pong/, whichever of these dies first.        *)
EveryDrillEnds ==
  <>(\/ prog = "cas" /\ Ended
     \/ prog = "handoff" /\ H!Ended
     \/ prog = "rb_lock" /\ R!Ended
     \/ prog = "pingpong" /\ P!Ended)
=============================================================================
