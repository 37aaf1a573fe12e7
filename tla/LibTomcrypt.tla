----------------------------- MODULE LibTomcrypt ----------------------------
(***************************************************************************)
(* The RSA part of lib_tomcrypt.cpp.  The program has two objects of this  *)
(* class at the same time, which differ by the math backend they want.     *)
(* LibTomCrypt has one global backend, ltc_mp, and the numbers of a key    *)
(* can be read and freed only by the backend which made them: each method  *)
(* starts with set_mp().                                                   *)
(***************************************************************************)
EXTENDS RsaOps

CONSTANTS
  Instances,   (* The objects of the class.                               *)
  MathDesc     (* [Instances -> backend or Null when it is not compiled]. *)

VARIABLES
  ltc_mp,      (* The global backend, Null before the first set_mp().     *)
  tomcrypt,    (* [Instances -> [Sides -> Null or [key, mp]]]             *)
  mixed        (* Ghost: an object was used with another backend than     *)
               (* its own.                                                *)

Init ==
  /\ ltc_mp = Null
  /\ tomcrypt = [t \in Instances |-> [s \in Sides |-> Null]]
  /\ mixed = FALSE

rsa_available(t) == MathDesc[t] # Null

(* set_mp(): fatal without a backend; the descriptor is copied when it is   *)
(* another one.                                                             *)
set_mp(t) == MathDesc[t] # Null /\ ltc_mp' = MathDesc[t]

(* Does backend mp suit the object and the keys it has?  *)
Suits(t, mp) ==
  /\ mp = MathDesc[t]
  /\ \A s \in Sides : tomcrypt[t][s] # Null => tomcrypt[t][s].mp = mp

(* A call into LibTomCrypt on the keys of an object. *)
Touch(t) ==
  /\ set_mp(t)
  /\ mixed' = (mixed \/ ~Suits(t, ltc_mp'))

(* load_rsa_private_key_der and load_rsa_public_key_der: free, import. *)
load_rsa_key(t, side, k) ==
  /\ Touch(t)
  /\ tomcrypt' = [tomcrypt EXCEPT ![t][side] = [key |-> k, mp |-> ltc_mp']]

(* rsa_private_key_bits, rsa_public_key_bits. *)
rsa_key_bits(t, side) == tomcrypt[t][side].key.bits

(* rsa_encrypt, rsa_decrypt, rsa_sign, rsa_verify. *)
rsa_use(t, op) ==
  [key     |-> tomcrypt[t][SideOf(op)].key,
   padding |-> IF op \in {"encrypt", "decrypt"} THEN "oaep" ELSE "pss"]

Loaded(t, side) == IF tomcrypt[t][side] = Null THEN Null ELSE tomcrypt[t][side].key

(* Mutant of Destroy: the keys are freed with the backend of the last call. *)
DestroyNoSetMp(t) ==
  /\ ltc_mp' = ltc_mp
  /\ mixed' = (mixed \/ (tomcrypt[t] # [s \in Sides |-> Null] /\ ~Suits(t, ltc_mp)))
  /\ tomcrypt' = [tomcrypt EXCEPT ![t] = [s \in Sides |-> Null]]

(* ~lib_tomcrypt() and rsa_cleanup(): nothing to do without a backend. *)
Destroy(t) ==
  /\ IF MathDesc[t] # Null THEN Touch(t) ELSE UNCHANGED <<ltc_mp, mixed>>
  /\ tomcrypt' = [tomcrypt EXCEPT ![t] = [s \in Sides |-> Null]]

TypeOK ==
  LET backends == {MathDesc[t] : t \in Instances} \cup {Null}
  IN  /\ ltc_mp \in backends
      /\ tomcrypt \in [Instances -> [Sides -> [key : Keys, mp : backends] \cup {Null}]]
      /\ mixed \in BOOLEAN

(* The keys of both objects are only ever handled by the backend which     *)
(* created them, although the two objects take turns on a global variable. *)
BackendMatches == ~mixed

=============================================================================
