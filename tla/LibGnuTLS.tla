----------------------------- MODULE LibGnuTLS ------------------------------
(***************************************************************************)
(* The RSA part of lib_gnutls.cpp.  The two key objects are created once   *)
(* and later keys are imported into them.  Padding is a parameter of each  *)
(* call: the default one for encryption, PSS for signature.                *)
(***************************************************************************)
EXTENDS RsaOps

VARIABLE gnutls   (* [Sides -> Null or a key] *)

Init == gnutls = [s \in Sides |-> Null]

(* load_rsa_private_key_der and load_rsa_public_key_der. *)
load_rsa_key(side, k) == gnutls' = [gnutls EXCEPT ![side] = k]

(* rsa_private_key_bits, rsa_public_key_bits; without a key they fail,     *)
(* where the base class says zero.                                         *)
rsa_key_bits(side) == gnutls[side].bits

(* rsa_encrypt, rsa_decrypt, rsa_sign, rsa_verify. *)
rsa_use(op) ==
  [key     |-> gnutls[SideOf(op)],
   padding |-> IF op \in {"encrypt", "decrypt"} THEN "v15" ELSE "pss"]

Loaded(side) == gnutls[side]

(* ~lib_gnutls(). *)
Destroy == gnutls' = [s \in Sides |-> Null]

TypeOK == gnutls \in [Sides -> Keys \cup {Null}]

=============================================================================
