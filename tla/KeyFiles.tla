------------------------------ MODULE KeyFiles ------------------------------
(***************************************************************************)
(* The PEM files of the RSA keys.  Their names are fixed, in the directory *)
(* of the executable (options.cpp:38), and each run of the program         *)
(* rewrites them (lib_openssl::generate_rsa_key).  Two runs at the same    *)
(* time share them: a file may be found truncated, and the two files of a  *)
(* pair may come from different runs.                                      *)
(***************************************************************************)
EXTENDS RsaOps, Integers, Sequences

CONSTANT SizeOrder   (* The sizes, in the order of generation. *)

VARIABLES
  files,     (* [Sizes -> [Sides -> Null (no key in it) or a key]]           *)
  written    (* [Gens -> number of file operations done by that process].    *)

Init ==
  /\ files \in [Sizes -> [Sides -> {Null}]]
  /\ written = [g \in Gens |-> 0]

(* Each file is first truncated (fopen "w"), then written (fclose).        *)
FileSteps == 4 * Len(SizeOrder)
SizeAt(n) == SizeOrder[n \div 4 + 1]
SideAt(n) == IF n % 4 < 2 THEN "private" ELSE "public"

(* One file operation of generate_rsa_key by process g. *)
WriteFile(g) ==
  LET n == written[g]
      key == [bits |-> SizeAt(n), gen |-> g]
  IN  /\ n < FileSteps
      /\ files' = [files EXCEPT ![SizeAt(n)][SideAt(n)] = IF n % 2 = 0 THEN Null ELSE key]
      /\ written' = [written EXCEPT ![g] = n + 1]

Generated(g) == written[g] = FileSteps

TypeOK ==
  /\ files \in [Sizes -> [Sides -> Keys \cup {Null}]]
  /\ written \in [Gens -> 0 .. FileSteps]

=============================================================================
