----------------------------- MODULE LibMbedTLS -----------------------------
(***************************************************************************)
(* The RSA part of lib_mbedtls.cpp.  A key context of MbedTLS holds a      *)
(* padding mode beside the key.  Parsing a key leaves the default mode     *)
(* (PKCS#1 v1.5); rsa_encrypt and rsa_decrypt set the other one (v2.1,     *)
(* OAEP or PSS) on the key they use; mbedtls_pk_sign and mbedtls_pk_verify *)
(* apply whatever mode is in the key.                                      *)
(***************************************************************************)
EXTENDS RsaOps

VARIABLE mbedtls   (* [Sides -> Null or [key, padding]] *)

Init == mbedtls = [s \in Sides |-> Null]

(* load_rsa_private_key_der and load_rsa_public_key_der. *)
load_rsa_key(side, k) == mbedtls' = [mbedtls EXCEPT ![side] = [key |-> k, padding |-> "v15"]]

(* rsa_private_key_bits, rsa_public_key_bits: zero without a key. *)
rsa_key_bits(side) == IF mbedtls[side] = Null THEN 0 ELSE mbedtls[side].key.bits

(* Mutant of set_rsa_padding: set on the private key only. *)
set_rsa_padding_private(op) ==
  IF op = "decrypt" THEN mbedtls' = [mbedtls EXCEPT !["private"].padding = "v21"]
                    ELSE UNCHANGED mbedtls

(* set_rsa_padding, as rsa_encrypt and rsa_decrypt call it. *)
set_rsa_padding(op) ==
  IF op \in {"encrypt", "decrypt"}
    THEN mbedtls' = [mbedtls EXCEPT ![SideOf(op)].padding = "v21"]
    ELSE UNCHANGED mbedtls

(* The padding that an operation ends up with. *)
rsa_use(op) ==
  [key     |-> mbedtls[SideOf(op)].key,
   padding |-> IF op \in {"encrypt", "decrypt"} THEN "oaep"
               ELSE IF mbedtls[SideOf(op)].padding = "v21" THEN "pss"
               ELSE "v15"]

Loaded(side) == IF mbedtls[side] = Null THEN Null ELSE mbedtls[side].key

(* ~lib_mbedtls(). *)
Destroy == mbedtls' = [s \in Sides |-> Null]

TypeOK == mbedtls \in [Sides -> [key : Keys, padding : {"v15", "v21"}] \cup {Null}]

=============================================================================
