------------------------------ MODULE Measure ------------------------------
(***************************************************************************)
(* What class bench promises of a measure: the operation is performed some *)
(* number of times, at least the requested one, until the clock has        *)
(* advanced by the requested time or has not advanced at all; then no      *)
(* more, and what is reported is this very number, with a time which is    *)
(* not above what the clock told.                                          *)
(***************************************************************************)
EXTENDS Integers

CONSTANT MinTime      (* Requested time.                                   *)

VARIABLES
  stage,              (* "running", "timed" or "reported".                 *)
  least,              (* Requested number of operations.                   *)
  operations,         (* Operations performed.                             *)
  elapsed,            (* What the clock advanced by during the run.        *)
  report              (* The set of the results reported: [iterations, usec]. *)

measure == <<stage, least, operations, elapsed, report>>

Init ==
  /\ stage = "running" /\ least \in Nat
  /\ operations = 0 /\ elapsed = 0 /\ report = {}

(* An operation, or something else which takes time, during the run. *)
Operate ==
  /\ stage = "running" /\ elapsed' >= elapsed
  /\ operations' \in {operations, operations + 1}
  /\ UNCHANGED <<stage, least, report>>

Stop ==
  /\ stage = "running" /\ stage' = "timed"
  /\ elapsed' >= elapsed
  /\ operations >= least
  /\ elapsed' >= MinTime \/ elapsed' = 0
  /\ UNCHANGED <<least, operations, report>>

Report ==
  /\ stage = "timed" /\ stage' = "reported"
  /\ \E u \in 0 .. elapsed : report' = {[iterations |-> operations, usec |-> u]}
  /\ UNCHANGED <<least, operations, elapsed>>

Next == Operate \/ Stop \/ Report

Spec == Init /\ [][Next]_measure

=============================================================================
