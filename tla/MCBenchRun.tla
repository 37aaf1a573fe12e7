----------------------------- MODULE MCBenchRun -----------------------------
(***************************************************************************)
(* Values of the constants of BenchRun for TLC.                            *)
(***************************************************************************)
EXTENDS BenchRun

MCRef(n, u) == [iterations |-> n, usec_total |-> u]

MCCost(iteration, call) == [iteration |-> iteration, call |-> call]

(* Costs which stay constant and costs which vary between iterations. *)
MCMixedCosts == {MCCost({1}, {0}), MCCost({2}, {0}), MCCost({1, 3}, {0}), MCCost({1, 3}, {0, 1})}
MCSteadyCosts == {MCCost({c}, {0}) : c \in 1 .. 9}

(* A reference which measured something, one which could not, and one    *)
(* which counted nothing (possible with --min-iterations 0).             *)
MCReferences == {MCRef(4, 7), MCRef(2, 0), MCRef(0, 0)}

=============================================================================
