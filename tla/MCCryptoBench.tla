---------------------------- MODULE MCCryptoBench ----------------------------
(***************************************************************************)
(* Values of the constants of CryptoBench for TLC.                         *)
(***************************************************************************)
EXTENDS CryptoBench

MCLibOrder == <<"openssl", "arm64">>
MCLibs == {"openssl", "arm64"}

(* Every command line of up to MaxArgs arguments. *)
MaxArgs == 4
MCWords == {"openssl", "arm64", "aes", "rsa", "math", "min-time", "min-iterations",
            "reference", "help", "number"}
MCCommandLines == UNION {[1 .. n -> MCWords] : n \in 0 .. MaxArgs}

=============================================================================
