----------------------------- MODULE MCReports -----------------------------
(***************************************************************************)
(* Values of the constants of Reports for TLC: pairs of reports where the  *)
(* lines about the system, or the results, are any sequence of up to two.  *)
(***************************************************************************)
EXTENDS Reports

MCLibraries == <<"openssl", "mbedtls", "arm64">>

System(item, value) == [item |-> item, value |-> value]
Result(l, t) == [item |-> "result", library |-> l, value |-> t]

Names == {System("cpu", "x"), System("cpu-index", "y"), System("cpu-index", None),
          System("frequency", 1), System("frequency", 2)}
Results == {Result(l, t) : l \in ToSet(Libraries), t \in {0, 2}}

(* The line cpu-index may have been added after the others. *)
AnyNames == {s \o <<Result(Libraries[1], 2)>> : s \in BoundedSeq(Names, 2)}
            \cup {<<n, Result(Libraries[2], 1), m>> : n \in Names, m \in Names}
AnyResults == {<<System("cpu", "x"), System("frequency", 2)>> \o s : s \in BoundedSeq(Results, 2)}
              \cup {<<System("cpu", "z")>> \o s : s \in BoundedSeq(Results, 1)}

(* The reference machine is the first file, or the last one, or both are. *)
MCInputs ==
  LET Pair(first, a, b) == IF first THEN <<a, b>> ELSE <<b, a>>
  IN  {Pair(first, [isRef |-> TRUE, lines |-> a], [isRef |-> ref, lines |-> b]) :
         first \in BOOLEAN, ref \in BOOLEAN, a \in AnyResults, b \in AnyNames \cup AnyResults}

=============================================================================
