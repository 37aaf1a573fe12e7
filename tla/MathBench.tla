----------------------------- MODULE MathBench -----------------------------
(***************************************************************************)
(* run_math(), cryptobench.cpp: the modulus and the exponents are read     *)
(* from the PEM file of an RSA key, then one object bench_math is built,   *)
(* run and destroyed for each function of OpenSSL.                         *)
(*                                                                         *)
(* A function takes its modulus as an argument, from the Montgomery        *)
(* context, from both, or from the reciprocal context.  The two contexts   *)
(* are global (openssl.cpp): all objects share them.                       *)
(*                                                                         *)
(* Numbers are known by their size in bits, 0 for a number which is zero.  *)
(***************************************************************************)
EXTENDS SysText

CONSTANTS
  PemFiles,   (* Key files: [der, pem], the structure which was encoded,   *)
              (* which starts with the length of its rest, and the bytes   *)
              (* of the file, which may be cut anywhere.                   *)
  KeyBits,    (* Size of the modulus of the key.                           *)
  None

ASSUME MathAssumption ==
  /\ KeyBits \in Nat /\ KeyBits > 1
  /\ PemFiles \subseteq [der : Seq(0 .. 255), pem : Seq(0 .. 255)]
  /\ \A f \in PemFiles : /\ f.der # <<>> /\ f.der[1] = Len(f.der) - 1
                         /\ StartsPemFile(f.der, f.pem)

VARIABLES
  file,       (* The key file.                                             *)
  key,        (* None, or the structure n, e and d were taken from.        *)
  phase,      (* Where run_math() is.                                      *)
  item,       (* Index in RunMath.                                         *)
  mod1,       (* Prime modulus: None, or its size.                         *)
  root1,      (* Its square: None, or its size.                            *)
  bn_mont_ctx,
  bn_recp_ctx,(* Moduli in the contexts: "n", "mod1", "unset", "junk".    *)
  bench,      (* The object: None, or [op, kind, op1, mod, isSet]: isSet   *)
              (* unless the constructor failed to set a context.           *)
  used        (* None, or the moduli of the last iteration.                *)

mathvars == <<file, key, phase, item, mod1, root1, bn_mont_ctx, bn_recp_ctx, bench, used>>
vars == <<textvars, mathvars>>

-----------------------------------------------------------------------------
(* The benches of run_math() in their order: [op, kind, op1, mod].  The    *)
(* kind is the type of the OpenSSL function, which selects a constructor.  *)

Do(op, kind, op1, mod) == [op |-> op, kind |-> kind, op1 |-> op1, mod |-> mod]
Exponentiations ==
  << Do("exp", "op2_mod", "random", "n"),
     Do("exp-montgomery", "op2_mod_mont", "random", "n"),
     Do("exp-montgomery-word", "op1_mod_mont_word", "exponent", "n"),
     Do("exp-reciprocal", "op2_mod", "random", "n"),
     Do("exp-simple", "op2_mod", "random", "n") >>
RunMath ==
  << Do("add", "op2_mod", "random", "n"),
     Do("mul", "op2_mod", "random", "n"),
     Do("mul-montgomery", "op2_mont", "random", "n"),
     Do("mul-reciprocal", "op2_recp", "random", "n"),
     Do("div-reciprocal", "rem_op1_recp", "random", "n"),
     Do("sqr", "op1_mod", "random", "n"),
     Do("inv", "op1_mod_ret", "random", "n"),
     Do("sqrt", "op1_mod_ret", "root1", "mod1") >>
  \o Exponentiations   (* With the public exponent,  *)
  \o Exponentiations   (* then with the private one. *)
SqrtItem == 8

(* The kinds whose constructor calls init_montgomery(), init_reciprocal(). *)
MontgomeryKinds ==
  {"op1_mont", "op2_mont", "op1_mod_mont", "op2_mod_mont", "op1_mod_mont_word"}

(* Mutant of ReciprocalKinds: the second constructor does not call it. *)
ReciprocalKindsOne == {"op2_recp"}

ReciprocalKinds == {"op2_recp", "rem_op1_recp"}

-----------------------------------------------------------------------------
contexts == <<bn_mont_ctx, bn_recp_ctx>>
primes == <<mod1, root1>>

Fatal == phase' = "fatal" /\ UNCHANGED <<file, key, item, primes, contexts, bench, used>>

(* What a call of OpenSSL returns: its success, or a failure which may     *)
(* happen on any call.                                                     *)
Returned == {0, 1}

(* lib_openssl::load_rsa_private_key_values(), from the file's bytes. *)
InitMath(f) ==
  /\ file = f /\ InitText(f.pem)
  /\ key = None
  /\ phase = "load" /\ item = 1
  /\ mod1 = None /\ root1 = None
  /\ bn_mont_ctx = "unset" /\ bn_recp_ctx = "unset"
  /\ bench = None /\ used = None

Decode ==
  /\ phase = "load"
  /\ DecodeGroup
  /\ phase' = IF bad' THEN "fatal" ELSE "load"
  /\ UNCHANGED <<file, key, item, primes, contexts, bench, used>>

(* d2i_PrivateKey: the first byte of a structure is the length of the      *)
(* rest; it fails on a structure which is cut and ignores what follows it. *)
DerOf(bytes) ==
  IF bytes # <<>> /\ Len(bytes) > bytes[1] THEN SubSeq(bytes, 1, bytes[1] + 1) ELSE <<>>

(* The values are taken, and the bytes which were read are forgotten. *)
LoadKeyValues ==
  /\ phase = "load" /\ b64 = <<>> /\ ~ bad
  /\ \/ /\ DerOf(data) # <<>>
        /\ key' = DerOf(data) /\ data' = <<>>
        /\ file' = [file EXCEPT !.pem = <<>>]
        /\ phase' = "next"
        /\ UNCHANGED <<b64, bad, item, primes, contexts, bench, used>>
     \/ Fatal /\ UNCHANGED textvars

(* bignum::random(): BN_rand sets the top bit.  Its failure is reported by *)
(* 0, which the test < 0 does not see: the number is zero.                 *)
random(bits) == {0} \cup ({bits} \cap Nat)

(* Mutant of square_mod: the result is tested < 0, as that of BN_rand. *)
square_mod_unseen(returned) == returned >= 0

(* bignum::square_mod() tests that of BN_mod_sqr <= 0. *)
square_mod(returned) == returned > 0

(* bignum::random_prime(), where a failure is not seen either, and the     *)
(* square of a random number modulo this prime.                            *)
MakePrime ==
  /\ phase = "next" /\ item = SqrtItem /\ mod1 = None
  /\ UNCHANGED textvars
  /\ \E m \in random(KeyBits), returned \in Returned :
       /\ returned = 1 => m # 0   \* Division by zero.
       /\ IF ~ square_mod(returned) THEN Fatal
          ELSE /\ mod1' = m
               /\ \E r \in random(m - 1) : root1' \in IF r = 0 THEN {0} ELSE 1 .. m
               /\ UNCHANGED <<file, key, phase, item, contexts, bench, used>>

-----------------------------------------------------------------------------
ModBits(m) == IF m = "n" THEN KeyBits ELSE mod1

(* RANDOM() of run_math(). *)
RandomOperand == random(KeyBits - 1)

Operands(op1) ==
  CASE op1 = "random" -> RandomOperand
    [] op1 = "root1"  -> {root1}
    [] OTHER          -> {1}

(* The constructors: init_montgomery() and init_reciprocal() leave the     *)
(* context as it was, or half set, when they fail; their test < 0 does not *)
(* see it.                                                                 *)
SetContext(ctx, mod, isSet) == IF isSet THEN {mod} ELSE {ctx, "junk"}

NewBench ==
  /\ phase = "next" /\ item <= Len(RunMath)
  /\ item = SqrtItem => mod1 # None
  /\ LET do == RunMath[item]
     IN  \E size \in Operands(do.op1), returned \in Returned :
           LET isSet == returned = 1
           IN  /\ bench' = [op |-> do.op, kind |-> do.kind, op1 |-> size, mod |-> do.mod, isSet |-> isSet]
               /\ bn_mont_ctx' \in IF do.kind \in MontgomeryKinds
                                     THEN SetContext(bn_mont_ctx, do.mod, isSet) ELSE {bn_mont_ctx}
               /\ bn_recp_ctx' \in IF do.kind \in ReciprocalKinds
                                     THEN SetContext(bn_recp_ctx, do.mod, isSet) ELSE {bn_recp_ctx}
               /\ ~ isSet => do.kind \in MontgomeryKinds \cup ReciprocalKinds
  /\ phase' = "bench" /\ used' = None
  /\ UNCHANGED <<textvars, file, key, item, primes>>

(* The modulus which an iteration reads: its argument, a context, or both. *)
ModuliRead(b) ==
     (IF b.kind \in {"op1_mont", "op2_mont", "op2_recp", "rem_op1_recp"} THEN {} ELSE {b.mod})
  \cup (IF b.kind \in {"op1_mont", "op2_mont", "op1_mod_mont", "op2_mod_mont", "op1_mod_mont_word"}
          THEN {bn_mont_ctx} ELSE {})
  \cup (IF b.kind \in {"op2_recp", "rem_op1_recp"} THEN {bn_recp_ctx} ELSE {})

(* OpenSSL finds no inverse of zero, and nothing modulo zero. *)
CanSucceed(b) ==
  /\ b.op = "inv" => b.op1 # 0
  /\ \A m \in ModuliRead(b) \cap {"n", "mod1"} : ModBits(m) # 0

(* Mutant of Succeeded: a null result is not a failure. *)
SucceededUnseen(kind, returned) == returned > 0 \/ kind = "op1_mod_ret"

(* The iteration methods: > 0, or not null. *)
Succeeded(kind, returned) == returned > 0

OneIteration ==
  /\ phase = "bench"
  /\ UNCHANGED textvars
  /\ \E returned \in Returned :
       /\ returned = 1 => CanSucceed(bench)
       /\ IF ~ Succeeded(bench.kind, returned) THEN Fatal
          ELSE /\ used' = ModuliRead(bench)
               /\ UNCHANGED <<file, key, phase, item, primes, contexts, bench>>

(* The score is printed, the object is destroyed. *)
EndBench ==
  /\ phase = "bench" /\ used # None
  /\ phase' = IF item = Len(RunMath) THEN "done" ELSE "next"
  /\ item' = item + 1
  /\ bench' = None /\ used' = None
  /\ UNCHANGED <<textvars, file, key, primes, contexts>>

Next == Decode \/ LoadKeyValues \/ MakePrime \/ NewBench \/ OneIteration \/ EndBench

Init == \E f \in PemFiles : InitMath(f)

Spec == Init /\ [][Next]_vars

-----------------------------------------------------------------------------
TypeOK ==
  /\ \A i \in DOMAIN data : data[i] \in 0 .. 255
  /\ bad \in BOOLEAN
  /\ phase \in {"load", "next", "bench", "done", "fatal"}
  /\ item \in 1 .. Len(RunMath) + 1
  /\ {mod1, root1} \subseteq 0 .. KeyBits \cup {None}
  /\ {bn_mont_ctx, bn_recp_ctx} \subseteq {"unset", "n", "mod1", "junk"}
  /\ bench # None => bench.op1 \in 0 .. KeyBits

(* Wherever the key file was cut, in its lines, between its quadruplets of *)
(* base64 or within one, with Unix or Windows ends of lines, the benches   *)
(* run with the values of the key which was written in it, or not at all   *)
(* (sys.cpp:254-339).                                                      *)
RightKey == phase \in {"next", "bench", "done"} => key = file.der

(* The number of bits of a number is what its value needs, whatever zeroes *)
(* lead it (sys.cpp:208-220): checked on the content of the keys.          *)
BitsExact ==
  LET num == SubSeq(data, 2, Len(data))
      n == large_number_bits(num)
  IN  NumberOf(num) < PowerOf2(n) /\ (n > 0 => NumberOf(num) >= PowerOf2(n - 1))

(* The contexts are shared and hold the modulus of whoever set them last:  *)
(* an object which was not told of a failure computes with its own modulus *)
(* and no other, however it finds it (bench_math.cpp:22-201).              *)
OwnModulus == used # None /\ bench.isSet => used = {bench.mod}

(* Failures of the generators of numbers are not seen (bignum.cpp:104,     *)
(* 118): yet no object is built on a zero modulus, and no inverse of zero  *)
(* is timed, as the calls which follow notice them.                        *)
FailuresNoticed ==
  bench # None =>
    /\ ModBits(bench.mod) # 0
    /\ bench.op = "inv" /\ used # None => bench.op1 # 0

(* "Montgomery and reciprocal functions set the modulus in the             *)
(* constructor." (bench_math.cpp:125)                                      *)
ConstructorSetsModulus == used # None => used = {bench.mod}

=============================================================================
