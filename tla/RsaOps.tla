------------------------------- MODULE RsaOps -------------------------------
(***************************************************************************)
(* Vocabulary shared by the models of the RSA libraries and of the         *)
(* program that drives them (the virtual methods of class lib, lib.h).     *)
(***************************************************************************)

CONSTANTS
  Sizes,   (* RSA key sizes, in bits.                                        *)
  Gens,    (* Who generated a key pair: this process, another one.           *)
  Null     (* No key, no context, no data.                                   *)

Sides == {"private", "public"}
Operations == {"encrypt", "decrypt", "sign", "verify"}

(* A key pair is known by its size and its origin. *)
Keys == [bits : Sizes, gen : Gens]

(* The half of the key pair that an operation uses. *)
SideOf(op) == IF op \in {"encrypt", "verify"} THEN "public" ELSE "private"

(* What a library does an operation with: ciphertexts and signatures are   *)
(* known by the key and the padding they were made with.                   *)
Uses == [key : Keys, padding : {"oaep", "v15", "pss"}]

=============================================================================
