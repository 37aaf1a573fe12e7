----------------------------- MODULE CryptoBench -----------------------------
(***************************************************************************)
(* The whole program, main() and run_all_benchmarks() of cryptobench.cpp:  *)
(* initialize the libraries, read the command line, run what it selects,   *)
(* clean the libraries up.  The benchmarks of one algorithm on one library *)
(* are one step here (RsaBench and AesBench have their detail), which may  *)
(* also end the program.                                                   *)
(***************************************************************************)
EXTENDS Options, FiniteSets

CONSTANTS
  LibOrder,      (* The selectable libraries in the order they are tested. *)
  RsaAvailable,  (* Those with RSA.                                        *)
  AesAvailable   (* Those with AES.                                        *)

ASSUME CryptoBenchAssumption ==
  /\ LibOrder \in Seq(Libs) /\ Libs = {LibOrder[n] : n \in DOMAIN LibOrder}
  /\ \A m, n \in DOMAIN LibOrder : LibOrder[m] = LibOrder[n] => m = n
  /\ RsaAvailable \subseteq Libs /\ AesAvailable \subseteq Libs

VARIABLES
  pc,       (* Where main() is.                                            *)
  ready,    (* Libraries which are initialized, in order.                  *)
  stage,    (* Index of the current stage of run_all_benchmarks().         *)
  pending,  (* Libraries still to be tested in the current stage.          *)
  work      (* What has been run, in order.                                *)

programvars == <<pc, ready, stage, pending, work>>
vars == <<optionvars, programvars>>

Initialized == <<"openssl", "mbedtls", "gnutls", "tomcrypt">>
Stages == <<"reference", "generate", "rsa", "aes", "math">>

Item(what, lib) == [what |-> what, lib |-> lib]
Stage == Stages[stage]

(* The libraries of a list which are in a set, in the order of the list. *)
Only(list, S) ==
  LET kept[n \in 0 .. Len(list)] ==
        IF n = 0 THEN <<>>
        ELSE IF list[n] \in S THEN Append(kept[n - 1], list[n]) ELSE kept[n - 1]
  IN  kept[Len(list)]
TestedLibs == Only(LibOrder, opt.libs)

Init ==
  /\ InitOptions
  /\ pc = "init" /\ ready = <<>>
  /\ stage = 1 /\ pending = <<>> /\ work = <<>>

(* openssl::init(), lib_mbedtls::init() and so on. *)
InitLibrary ==
  /\ pc = "init"
  /\ ready' = Append(ready, Initialized[Len(ready) + 1])
  /\ pc' = IF Len(ready') = Len(Initialized) THEN "options" ELSE pc
  /\ UNCHANGED <<optionvars, stage, pending, work>>

Parse ==
  /\ pc = "options"
  /\ ParseNext
  /\ pc' = CASE parsed' = "exit" -> "exit"
             [] parsed' = "yes" -> "run"
             [] OTHER -> pc
  /\ UNCHANGED <<ready, stage, pending, work>>

(* Mutant of IsRun: keys are generated for the RSA tests only. *)
IsRunRsaKeys(s) ==
  CASE s = "reference" -> opt.reference
    [] s = "generate" -> "rsa" \in opt.algos
    [] OTHER -> s \in opt.algos

(* Is a stage run at all?  Keys are generated for the math tests as well. *)
IsRun(s) ==
  CASE s = "reference" -> opt.reference
    [] s = "generate" -> opt.algos \cap {"rsa", "math"} # {}
    [] OTHER -> s \in opt.algos

(* Mutant of LibsOf: every library is asked for everything. *)
LibsOfAll(s) == IF s \in {"rsa", "aes"} THEN TestedLibs ELSE <<"none">>

(* The libraries that a stage goes through; the others have one step. *)
LibsOf(s) ==
  CASE s = "rsa" -> Only(TestedLibs, RsaAvailable)
    [] s = "aes" -> Only(TestedLibs, AesAvailable)
    [] OTHER -> <<"none">>

EnterStage ==
  /\ pc = "run"
  /\ IF stage > Len(Stages)
       THEN pc' = "cleanup" /\ UNCHANGED pending
       ELSE pc' = "stage" /\ pending' = IF IsRun(Stage) THEN LibsOf(Stage) ELSE <<>>
  /\ UNCHANGED <<optionvars, ready, stage, work>>

RunItem ==
  /\ pc = "stage" /\ pending # <<>>
  /\ work' = Append(work, Item(Stage, pending[1]))
  /\ pending' = Tail(pending)
  /\ UNCHANGED <<optionvars, pc, ready, stage>>

(* Any initialization and any benchmark may end the program. *)
Fatal ==
  /\ pc = "init" \/ (pc = "stage" /\ pending # <<>>)
  /\ pc' = "exit"
  /\ UNCHANGED <<optionvars, ready, stage, pending, work>>

LeaveStage ==
  /\ pc = "stage" /\ pending = <<>>
  /\ pc' = "run" /\ stage' = stage + 1
  /\ UNCHANGED <<optionvars, ready, pending, work>>

(* Mutant of CleanupLibrary: in the order of the initializations. *)
CleanupLibraryFirst ==
  /\ pc = "cleanup"
  /\ ready' = Tail(ready)
  /\ pc' = IF ready' = <<>> THEN "done" ELSE pc
  /\ UNCHANGED <<optionvars, stage, pending, work>>

(* lib_tomcrypt::cleanup(), and the others in reverse order. *)
CleanupLibrary ==
  /\ pc = "cleanup"
  /\ ready' = SubSeq(ready, 1, Len(ready) - 1)
  /\ pc' = IF ready' = <<>> THEN "done" ELSE pc
  /\ UNCHANGED <<optionvars, stage, pending, work>>

Next ==
  \/ InitLibrary \/ Parse
  \/ EnterStage \/ RunItem \/ Fatal \/ LeaveStage
  \/ CleanupLibrary

Spec == Init /\ [][Next]_vars

-----------------------------------------------------------------------------

TypeOK ==
  /\ OptionsTypeOK
  /\ pc \in {"init", "options", "run", "stage", "cleanup", "done", "exit"}
  /\ ready = SubSeq(Initialized, 1, Len(ready))
  /\ stage \in 1 .. Len(Stages) + 1
  /\ pending \in Seq(Libs \cup {"none"})

Performed == {work[n] : n \in DOMAIN work}

(* What the arguments ask for, from the set of options given. *)
Wanted(what) == what \in Given \/ Given \cap (Algos \cup {"reference"}) = {}
WantedLib(l) == l \in Given \/ Given \cap (Libs \cup {"reference"}) = {}
AskedLibs(what) ==
  CASE what = "rsa" -> {l \in RsaAvailable : Wanted("rsa") /\ WantedLib(l)}
    [] what = "aes" -> {l \in AesAvailable : Wanted("aes") /\ WantedLib(l)}
    [] what = "math" -> {l \in {"none"} : Wanted("math")}
    [] what = "generate" -> {l \in {"none"} : Wanted("rsa") \/ Wanted("math")}
    [] what = "reference" -> {l \in {"none"} : \/ "reference" \in Given
                                              \/ Given \cap (Libs \cup Algos) = {}}
Asked == UNION {{Item(what, l) : l \in AskedLibs(what)} : what \in {Stages[n] : n \in DOMAIN Stages}}

(* The arguments and what the libraries can do decide alone what is run,   *)
(* across options.cpp:46-119 and cryptobench.cpp:190-262: the reference    *)
(* bench alone for -r alone (README.md:114), everything for no selection,  *)
(* and each benchmark once.                                                *)
RunsWhatIsAsked ==
  /\ Performed \subseteq Asked
  /\ Cardinality(Performed) = Len(work)
  /\ pc \in {"cleanup", "done"} => Performed = Asked

(* The benchmarks which read a key file follow the generation of the keys  *)
(* by the same run, so that they never read files which an older run left  *)
(* (cryptobench.cpp:228).                                                  *)
KeysAreFresh ==
  \A n \in DOMAIN work : work[n].what \in {"rsa", "math"} =>
    \E m \in 1 .. n - 1 : work[m].what = "generate"

=============================================================================
