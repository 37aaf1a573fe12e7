------------------------------ MODULE Options ------------------------------
(***************************************************************************)
(* The command line, options.cpp: one pass over the arguments, then the    *)
(* defaults.  An argument is a word: an option, a number, or anything else *)
(* ("other").  An option with a value takes the next argument whatever it  *)
(* is: std::atoll() makes zero of what is not a number.                    *)
(***************************************************************************)
EXTENDS Integers, Sequences

CONSTANTS
  Libs,         (* The libraries which can be selected.                *)
  CommandLines  (* Possible sequences of arguments.                    *)

Algos == {"aes", "rsa", "math"}
Numeric == {"min-time", "min-iterations", "aes-data-size"}
Words == Libs \cup Algos \cup Numeric \cup {"reference", "help", "number", "other"}

ASSUME OptionsAssumption ==
  /\ Libs \cap (Algos \cup Numeric \cup {"reference", "help", "number", "other"}) = {}
  /\ \A c \in CommandLines : c \in Seq(Words)

VARIABLES
  argv,    (* The arguments, after the program name.                       *)
  i,       (* Index of the next one.                                       *)
  opt,     (* The fields of class options.                                 *)
  parsed   (* "no", "yes", or "exit" after the help or an invalid option.  *)

optionvars == <<argv, i, opt, parsed>>

Values == {"default", "given", "zero"}

InitOptions ==
  /\ argv \in CommandLines
  /\ i = 1
  /\ opt = [reference |-> FALSE, all_algos |-> TRUE, algos |-> {},
            all_libs |-> TRUE, libs |-> {}, value |-> [n \in Numeric |-> "default"]]
  /\ parsed = "no"

Arg == argv[i]
Parsing == parsed = "no" /\ i <= Len(argv)
HasValue == Arg \in Numeric /\ i < Len(argv)

NumericOption ==
  /\ Parsing /\ HasValue
  /\ opt' = [opt EXCEPT !.value[Arg] = IF argv[i + 1] = "number" THEN "given" ELSE "zero"]
  /\ i' = i + 2
  /\ UNCHANGED <<argv, parsed>>

(* Mutant of Selected: -r does not cancel the default libraries. *)
SelectedAllLibs(o, w) ==
  IF w = "reference"
    THEN [o EXCEPT !.all_algos = FALSE, !.reference = TRUE]
    ELSE IF w \in Algos
           THEN [o EXCEPT !.all_algos = FALSE, !.algos = @ \cup {w}]
           ELSE [o EXCEPT !.all_libs = FALSE, !.libs = @ \cup {w}]

(* The effect of the options without a value. *)
Selected(o, w) ==
  IF w = "reference"
    THEN [o EXCEPT !.all_algos = FALSE, !.all_libs = FALSE, !.reference = TRUE]
    ELSE IF w \in Algos
           THEN [o EXCEPT !.all_algos = FALSE, !.algos = @ \cup {w}]
           ELSE [o EXCEPT !.all_libs = FALSE, !.libs = @ \cup {w}]

Selection ==
  /\ Parsing /\ Arg \in Libs \cup Algos \cup {"reference"}
  /\ opt' = Selected(opt, Arg)
  /\ i' = i + 1
  /\ UNCHANGED <<argv, parsed>>

(* The help, an unknown argument or an option without its value. *)
Exit ==
  /\ Parsing
  /\ Arg \in {"help", "number", "other"} \/ (Arg \in Numeric /\ ~HasValue)
  /\ parsed' = "exit"
  /\ UNCHANGED <<argv, i, opt>>

Defaulted(o) ==
  [o EXCEPT !.reference = @ \/ (o.all_libs /\ o.all_algos),
            !.algos = IF o.all_algos THEN Algos ELSE @,
            !.libs = IF o.all_libs THEN Libs ELSE @]

(* Lines 111-119: nothing selected means everything. *)
Defaults ==
  /\ parsed = "no" /\ i > Len(argv)
  /\ opt' = Defaulted(opt)
  /\ parsed' = "yes"
  /\ UNCHANGED <<argv, i>>

ParseNext == NumericOption \/ Selection \/ Exit \/ Defaults

-----------------------------------------------------------------------------

OptionsTypeOK ==
  /\ argv \in CommandLines /\ i \in 1 .. Len(argv) + 1
  /\ opt \in [reference : BOOLEAN, all_algos : BOOLEAN, algos : SUBSET Algos,
              all_libs : BOOLEAN, libs : SUBSET Libs, value : [Numeric -> Values]]
  /\ parsed \in {"no", "yes", "exit"}

(* What the arguments mean, without going through them in order. *)

(* The arguments which are the value of the option before them. *)
IsValue[p \in 1 .. Len(argv)] == p > 1 /\ argv[p - 1] \in Numeric /\ ~IsValue[p - 1]
Positions == {p \in 1 .. Len(argv) : ~IsValue[p]}
Given == {argv[p] : p \in Positions}
Invalid ==
  \/ Given \cap {"help", "number", "other"} # {}
  \/ Len(argv) \in Positions /\ argv[Len(argv)] \in Numeric

(* The last occurrence of an option decides its value. *)
ValueOf(n) ==
  LET at == {p \in Positions : argv[p] = n}
  IN  IF at = {}
        THEN "default"
        ELSE LET last == CHOOSE p \in at : \A q \in at : q <= p
             IN  IF argv[last + 1] = "number" THEN "given" ELSE "zero"

(* options.cpp:45-119 says what it means whatever the order of arguments:  *)
(* a selection is the set of the options given, -r among them cancels both *)
(* defaults, and the reference bench is run when asked for or when nothing *)
(* at all is selected.                                                     *)
OrderIrrelevant ==
  /\ parsed = "exit" => Invalid
  /\ parsed = "yes" =>
       /\ ~Invalid
       /\ opt.reference = (Given \cap (Libs \cup Algos) = {} \/ "reference" \in Given)
       /\ opt.algos = IF Given \cap (Algos \cup {"reference"}) = {} THEN Algos
                                                                     ELSE Given \cap Algos
       /\ opt.libs = IF Given \cap (Libs \cup {"reference"}) = {} THEN Libs
                                                                   ELSE Given \cap Libs
       /\ \A n \in Numeric : opt.value[n] = ValueOf(n)

=============================================================================
