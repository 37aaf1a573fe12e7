---------------------------- MODULE MCMathBench ----------------------------
(***************************************************************************)
(* Values of the constants of MathBench for TLC: files written from keys   *)
(* of two to four bytes, in lines of four characters, cut at any place.    *)
(***************************************************************************)
EXTENDS MathBench

Header == <<Dash, Dash, 66, Dash, Dash>>   \* "--B--"
Footer == <<Dash, Dash, 69, Dash, Dash>>
Keys == {<<Len(c)>> \o c : c \in UNION {[1 .. n -> {0, 27, 251, 255}] : n \in 1 .. 3}}
Ends == {<<Newline>>, <<13, Newline>>}

MCPemFiles ==
  UNION {LET pem == PemFile(k, Header, Footer, eol, 4)
         IN  {[der |-> k, pem |-> SubSeq(pem, 1, i)] : i \in 1 .. Len(pem)} :
           k \in Keys, eol \in Ends}

(* One whole file. *)
MCOneFile == {[der |-> <<1, 251>>, pem |-> PemFile(<<1, 251>>, Header, Footer, <<Newline>>, 4)]}

=============================================================================
