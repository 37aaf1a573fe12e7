----------------------------- MODULE LibOpenSSL -----------------------------
(***************************************************************************)
(* The RSA part of lib_openssl.cpp.  The object owns one private and one   *)
(* public EVP_PKEY and four EVP_PKEY_CTX.  EVP_PKEY structures are         *)
(* reference counted by OpenSSL: a context holds a reference to the key it *)
(* was created from, and keeps working with that key after another one is  *)
(* loaded in the object.                                                   *)
(***************************************************************************)
EXTENDS RsaOps, Integers, FiniteSets

VARIABLE openssl   (* [heap, slot, ctx] *)

(* Two slots and four contexts: six keys at most are alive at a time. *)
Handles == 1 .. 6
FreePkey == [key |-> Null, refs |-> 0]

Init ==
  openssl = [heap |-> [h \in Handles |-> FreePkey],
             slot |-> [s \in Sides |-> Null],
             ctx  |-> [c \in Operations |-> Null]]

(* EVP_PKEY_free and EVP_PKEY_CTX_free, on the key they reference; the     *)
(* callers never pass a null pointer.                                      *)
Release(heap, h) ==
  IF h = Null THEN heap
  ELSE IF heap[h].refs = 1 THEN [heap EXCEPT ![h] = FreePkey]
  ELSE [heap EXCEPT ![h].refs = @ - 1]

(* EVP_PKEY_CTX_new takes a reference on the key. *)
Retain(heap, h) == [heap EXCEPT ![h].refs = @ + 1]

FreshHandle(heap) == CHOOSE h \in Handles : heap[h].refs = 0 /\ \A g \in 1 .. h - 1 : heap[g].refs # 0

(* Mutant of load_rsa_key: the previous key is forgotten. *)
load_rsa_key_forget(side, k) ==
  LET h == FreshHandle(openssl.heap)
  IN  openssl' = [openssl EXCEPT !.heap[h] = [key |-> k, refs |-> 1], !.slot[side] = h]

(* load_rsa_private_key_der and load_rsa_public_key_der. *)
load_rsa_key(side, k) ==
  LET freed == Release(openssl.heap, openssl.slot[side])
      h == FreshHandle(freed)
  IN  openssl' = [openssl EXCEPT !.heap = [freed EXCEPT ![h] = [key |-> k, refs |-> 1]],
                                 !.slot[side] = h]

(* rsa_private_key_bits, rsa_public_key_bits: zero without a key. *)
rsa_key_bits(side) ==
  IF openssl.slot[side] = Null THEN 0 ELSE openssl.heap[openssl.slot[side]].key.bits

(* Mutant of rsa_init: an existing context is kept. *)
rsa_init_once(op) ==
  LET h == openssl.slot[SideOf(op)]
  IN  IF openssl.ctx[op] = Null
        THEN openssl' = [openssl EXCEPT !.heap = Retain(@, h), !.ctx[op] = h]
        ELSE UNCHANGED openssl

(* rsa_init_encrypt_oaep, rsa_init_decrypt_oaep, rsa_init_sign_pss and     *)
(* rsa_init_verify_pss: a new context for the key which is loaded now.     *)
rsa_init(op) ==
  LET freed == Release(openssl.heap, openssl.ctx[op])
      h == openssl.slot[SideOf(op)]
  IN  /\ h # Null
      /\ openssl' = [openssl EXCEPT !.heap = Retain(freed, h), !.ctx[op] = h]

(* rsa_encrypt, rsa_decrypt, rsa_sign and rsa_verify use the context only. *)
rsa_use(op) ==
  [key     |-> openssl.heap[openssl.ctx[op]].key,
   padding |-> IF op \in {"encrypt", "decrypt"} THEN "oaep" ELSE "pss"]

(* The key which is loaded now. *)
Loaded(side) ==
  IF openssl.slot[side] = Null THEN Null ELSE openssl.heap[openssl.slot[side]].key

(* ~lib_openssl(): the keys, then the contexts. *)
Destroy ==
  LET keys == Release(Release(openssl.heap, openssl.slot["public"]), openssl.slot["private"])
      encryption == Release(Release(keys, openssl.ctx["encrypt"]), openssl.ctx["decrypt"])
      signature == Release(Release(encryption, openssl.ctx["sign"]), openssl.ctx["verify"])
  IN  openssl' = [heap |-> signature,
                  slot |-> [s \in Sides |-> Null],
                  ctx  |-> [c \in Operations |-> Null]]

-----------------------------------------------------------------------------

TypeOK ==
  openssl \in [heap : [Handles -> [key : Keys \cup {Null}, refs : 0 .. 6]],
               slot : [Sides -> Handles \cup {Null}],
               ctx  : [Operations -> Handles \cup {Null}]]

(* Every EVP_PKEY is referenced by exactly the slots and contexts which    *)
(* its count says: none is leaked and none is used after it was freed,     *)
(* whatever sequence of loads and initializations the program makes.       *)
RefCountExact ==
  \A h \in Handles :
    openssl.heap[h].refs = Cardinality({s \in Sides : openssl.slot[s] = h})
                             + Cardinality({c \in Operations : openssl.ctx[c] = h})

=============================================================================
