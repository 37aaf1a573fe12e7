--------------------------- MODULE MathBenchProofs ---------------------------
(***************************************************************************)
(* Proofs about run_math(), for any key file, cut anywhere, any size of    *)
(* the modulus and any failure of the library: which key is read and which *)
(* modulus the benches compute with, the sizes of the numbers, and that no *)
(* zero number reaches the benches.                                        *)
(***************************************************************************)
EXTENDS MathBench, SequenceTheorems, FiniteSetTheorems, WellFoundedInduction, TLAPS

-----------------------------------------------------------------------------
(* The benches of run_math(): only one has the prime modulus.              *)
LEMMA RunMathItems ==
  /\ Len(RunMath) = 18
  /\ \A n \in 1 .. 18 :
       /\ RunMath[n].mod = IF n = SqrtItem THEN "mod1" ELSE "n"
       /\ RunMath[n].op1 = "root1" => n = SqrtItem
<1> DEFINE first ==
  << Do("add", "op2_mod", "random", "n"),
     Do("mul", "op2_mod", "random", "n"),
     Do("mul-montgomery", "op2_mont", "random", "n"),
     Do("mul-reciprocal", "op2_recp", "random", "n"),
     Do("div-reciprocal", "rem_op1_recp", "random", "n"),
     Do("sqr", "op1_mod", "random", "n"),
     Do("inv", "op1_mod_ret", "random", "n"),
     Do("sqrt", "op1_mod_ret", "root1", "mod1") >>
     S == {first[n] : n \in 1 .. 8} \cup {Exponentiations[n] : n \in 1 .. 5}
<1>1. /\ first \in Seq(S) /\ Len(first) = 8
      /\ first[8].mod = "mod1" /\ \A n \in 1 .. 7 : first[n].mod = "n" /\ first[n].op1 = "random"
  <2>1. Len(first) = 8
    OBVIOUS
  <2>2. first \in Seq(S)
    OBVIOUS
  <2>3. first[8].mod = "mod1"
    BY DEF Do
  <2>4. \A n \in 1 .. 7 : first[n].mod = "n" /\ first[n].op1 = "random"
    BY DEF Do
  <2> QED
    BY <2>1, <2>2, <2>3, <2>4
<1>2. /\ Exponentiations \in Seq(S) /\ Len(Exponentiations) = 5
      /\ \A n \in 1 .. 5 : Exponentiations[n].mod = "n" /\ Exponentiations[n].op1 # "root1"
  <2>1. Len(Exponentiations) = 5
    BY DEF Exponentiations
  <2>2. Exponentiations \in Seq(S)
    BY DEF Exponentiations
  <2>3. \A n \in 1 .. 5 : Exponentiations[n].mod = "n" /\ Exponentiations[n].op1 # "root1"
    BY DEF Exponentiations, Do
  <2> QED
    BY <2>1, <2>2, <2>3
<1>3. RunMath = (first \o Exponentiations) \o Exponentiations
  BY DEF RunMath
<1> HIDE DEF first, S
<1> DEFINE both == first \o Exponentiations
<1>4. /\ both \in Seq(S) /\ Len(both) = 13
      /\ \A n \in 1 .. 13 : both[n] = IF n <= 8 THEN first[n] ELSE Exponentiations[n - 8]
  <2>1. both \in Seq(S) /\ Len(both) = Len(first) + Len(Exponentiations)
    BY <1>1, <1>2, ConcatProperties
  <2>2. \A n \in 1 .. Len(first) + Len(Exponentiations) :
          both[n] = IF n <= Len(first) THEN first[n] ELSE Exponentiations[n - Len(first)]
    BY <1>1, <1>2, ConcatProperties
  <2>3. Len(first) = 8 /\ Len(Exponentiations) = 5
    BY <1>1, <1>2
  <2> HIDE DEF both
  <2> QED
    BY <2>1, <2>2, <2>3
<1>5. RunMath = both \o Exponentiations
  BY <1>3
<1> HIDE DEF both
<1>6. /\ RunMath \in Seq(S) /\ Len(RunMath) = 18
      /\ \A n \in 1 .. 18 : RunMath[n] = IF n <= 13 THEN both[n] ELSE Exponentiations[n - 13]
  <2>1. RunMath \in Seq(S) /\ Len(RunMath) = Len(both) + Len(Exponentiations)
    BY <1>2, <1>4, <1>5, ConcatProperties
  <2>2. \A n \in 1 .. Len(both) + Len(Exponentiations) :
          RunMath[n] = IF n <= Len(both) THEN both[n] ELSE Exponentiations[n - Len(both)]
    BY <1>2, <1>4, <1>5, ConcatProperties
  <2>3. Len(both) = 13 /\ Len(Exponentiations) = 5
    BY <1>2, <1>4
  <2> QED
    BY <2>1, <2>2, <2>3
<1>7. ASSUME NEW n \in 1 .. 18
      PROVE  /\ RunMath[n].mod = IF n = 8 THEN "mod1" ELSE "n"
             /\ RunMath[n].op1 = "root1" => n = 8
  <2>1. CASE n \in 1 .. 7
    <3>1. RunMath[n] = first[n]
      BY <1>4, <1>6, <2>1
    <3> QED
      BY <1>1, <2>1, <3>1
  <2>2. CASE n = 8
    <3>1. RunMath[n] = first[8]
      BY <1>4, <1>6, <2>2
    <3> QED
      BY <1>1, <2>2, <3>1
  <2>3. CASE n \in 9 .. 13
    <3>1. RunMath[n] = Exponentiations[n - 8] /\ n - 8 \in 1 .. 5
      BY <1>4, <1>6, <2>3
    <3> QED
      BY <1>2, <2>3, <3>1
  <2>4. CASE n \in 14 .. 18
    <3>1. RunMath[n] = Exponentiations[n - 13] /\ n - 13 \in 1 .. 5
      BY <1>6, <2>4
    <3> QED
      BY <1>2, <2>4, <3>1
  <2> QED
    BY <2>1, <2>2, <2>3, <2>4
<1> QED
  BY <1>6, <1>7 DEF SqrtItem

-----------------------------------------------------------------------------
(* What the constructor of the object has established, for as long as the  *)
(* object is there: its modulus is one which exists, and the context which *)
(* its functions read holds this modulus, if setting it succeeded.         *)
Constructed ==
  /\ bench.mod \in {"n", "mod1"}
  /\ bench.mod = "mod1" => mod1 # None
  /\ bench.isSet /\ bench.kind \in MontgomeryKinds => bn_mont_ctx = bench.mod
  /\ bench.isSet /\ bench.kind \in ReciprocalKinds => bn_recp_ctx = bench.mod

(* An object is there, or an iteration was done.                           *)
Built == phase = "bench" \/ bench # None \/ used # None

(* The inductive invariant: the contexts and the prime only change between *)
(* two objects; the prime is not zero, as its square root was computed; an *)
(* iteration which returned has read the moduli of the object it is of.    *)
Inv ==
  /\ item \in Nat \ {0}
  /\ phase \in {"load", "next"} => bench = None /\ used = None
  /\ mod1 # None => mod1 # 0
  /\ Built => Constructed
  /\ used # None => used = ModuliRead(bench) /\ CanSucceed(bench)

(* There is no object at the start.                                        *)
LEMMA InvInit == Init => Inv
  BY DEF Init, InitMath, Inv, Built

(* The moduli which an object reads are those of its argument and of the   *)
(* contexts its kind uses: its own modulus when they were set to it.       *)
LEMMA ReadsOwnModulus ==
  ASSUME Constructed, bench.isSet = TRUE
  PROVE  ModuliRead(bench) = {bench.mod}
<1>1. CASE bench.kind \in {"op1_mont", "op2_mont"}
  BY <1>1 DEF Constructed, ModuliRead, MontgomeryKinds
<1>2. CASE bench.kind \in {"op1_mod_mont", "op2_mod_mont", "op1_mod_mont_word"}
  BY <1>2 DEF Constructed, ModuliRead, MontgomeryKinds
<1>3. CASE bench.kind \in {"op2_recp", "rem_op1_recp"}
  BY <1>3 DEF Constructed, ModuliRead, ReciprocalKinds
<1>4. CASE bench.kind \notin MontgomeryKinds \cup ReciprocalKinds
  BY <1>4 DEF ModuliRead, MontgomeryKinds, ReciprocalKinds
<1> QED
  BY <1>1, <1>2, <1>3, <1>4 DEF MontgomeryKinds, ReciprocalKinds

(* A new object reads a modulus which exists, from contexts set to it.     *)
LEMMA NewBenchInv == Inv /\ NewBench => Inv'
<1> SUFFICES ASSUME Inv, NewBench PROVE Inv'
  OBVIOUS
<1> DEFINE do == RunMath[item]
<1>1. item \in 1 .. 18 /\ do.mod = IF item = SqrtItem THEN "mod1" ELSE "n"
  BY RunMathItems DEF Inv, NewBench
<1>2. PICK size \in Operands(do.op1), returned \in Returned :
        /\ bench' = [op |-> do.op, kind |-> do.kind, op1 |-> size, mod |-> do.mod,
                     isSet |-> returned = 1]
        /\ bn_mont_ctx' \in IF do.kind \in MontgomeryKinds
                              THEN SetContext(bn_mont_ctx, do.mod, returned = 1) ELSE {bn_mont_ctx}
        /\ bn_recp_ctx' \in IF do.kind \in ReciprocalKinds
                              THEN SetContext(bn_recp_ctx, do.mod, returned = 1) ELSE {bn_recp_ctx}
  BY DEF NewBench
<1>3. /\ mod1' = mod1 /\ item' = item /\ phase' = "bench" /\ used' = None
      /\ item = SqrtItem => mod1 # None
  BY DEF NewBench, primes
<1> HIDE DEF do
<1>4. Constructed'
  BY <1>1, <1>2, <1>3 DEF Constructed, SetContext
<1> QED
  BY <1>3, <1>4 DEF Inv

(* Each step keeps the invariant.                                          *)
LEMMA InvNext == Inv /\ [Next]_vars => Inv'
<1> SUFFICES ASSUME Inv, [Next]_vars PROVE Inv'
  OBVIOUS
<1>1. CASE Decode
  BY <1>1 DEF Inv, Decode, Built, Constructed, ModuliRead, CanSucceed, ModBits, primes, contexts
<1>2. CASE LoadKeyValues
  BY <1>2 DEF Inv, LoadKeyValues, Fatal, Built, Constructed, ModuliRead, CanSucceed, ModBits, primes, contexts
<1>3. CASE MakePrime
  <2>1. CASE Fatal
    BY <1>3, <2>1 DEF Inv, MakePrime, Fatal, Built, Constructed, primes, contexts
  <2>2. CASE ~ Fatal
    <3>1. PICK m \in random(KeyBits), returned \in Returned :
            returned = 1 /\ m # 0 /\ mod1' = m
            /\ UNCHANGED <<file, key, phase, item, contexts, bench, used>>
      BY <1>3, <2>2 DEF MakePrime, Returned, square_mod
    <3> QED
      BY <1>3, <3>1 DEF Inv, MakePrime, Built, contexts
  <2> QED
    BY <2>1, <2>2
<1>4. CASE NewBench
  BY <1>4, NewBenchInv
<1>5. CASE OneIteration
  <2>1. CASE Fatal
    BY <1>5, <2>1 DEF Inv, OneIteration, Fatal, Built, Constructed, ModuliRead, CanSucceed, ModBits, primes, contexts
  <2>2. CASE ~ Fatal
    <3>1. CanSucceed(bench) /\ used' = ModuliRead(bench)
          /\ UNCHANGED <<file, key, phase, item, primes, contexts, bench>>
      BY <1>5, <2>2 DEF OneIteration, Returned, Succeeded
    <3> QED
      BY <1>5, <3>1 DEF Inv, OneIteration, Built, Constructed, ModuliRead, CanSucceed, ModBits, primes, contexts
  <2> QED
    BY <2>1, <2>2
<1>6. CASE EndBench
  BY <1>6 DEF Inv, EndBench, Built, primes, contexts
<1>7. CASE UNCHANGED vars
  BY <1>7 DEF Inv, vars, mathvars, Built, Constructed, ModuliRead, CanSucceed, ModBits
<1> QED
  BY <1>1, <1>2, <1>3, <1>4, <1>5, <1>6, <1>7 DEF Next

(* The invariant holds.                                                    *)
LEMMA InvHolds == Spec => []Inv
  BY InvInit, InvNext, PTL DEF Spec

-----------------------------------------------------------------------------
(* An object whose context was set computes with its own modulus, whatever *)
(* the objects before it have left in the contexts which all of them share *)
(* (bench_math.cpp:22-201).                                                *)
THEOREM ContextsAreOwn == Spec => []OwnModulus
<1>1. Inv => OwnModulus
  BY ReadsOwnModulus DEF Inv, OwnModulus, Built
<1> QED
  BY <1>1, InvHolds, PTL

(* No object is built on a zero modulus and no inverse of zero is timed,   *)
(* though the failures of the generators of numbers are not seen           *)
(* (bignum.cpp:104, 118).                                                  *)
THEOREM ZeroesNoticed == Spec => []FailuresNoticed
<1>1. Inv => FailuresNoticed
  BY MathAssumption DEF Inv, FailuresNoticed, Built, Constructed, ModBits, CanSucceed
<1> QED
  BY <1>1, InvHolds, PTL

-----------------------------------------------------------------------------
(* The decoded text is made of bytes. *)

(* A set of naturals has a least element, unless it is empty.              *)
LEMMA LeastNat ==
  ASSUME NEW T, T \subseteq Nat, T # {}
  PROVE  Min(T) \in T /\ \A y \in T : Min(T) <= y
<1> DEFINE R == {ss \in Nat \X Nat : ss[1] < ss[2]}
<1>1. OpToRel(<, Nat) = R
  BY DEF OpToRel
<1>2. IsWellFoundedOn(R, Nat)
  BY <1>1, NatLessThanWellFounded
<1>3. \E x \in T : \A y \in T : ~ (<<y, x>> \in R)
  <2> HIDE DEF R
  <2> QED
    BY <1>2, WFMin
<1>4. \A x, y \in Nat : <<y, x>> \notin R => x =< y
  OBVIOUS
<1>5. \E x \in T : \A y \in T : x =< y
  BY <1>3, <1>4
<1> QED
  BY <1>5 DEF Min

(* What is left of a text once its first characters are dropped.           *)
LEMMA RestIs ==
  ASSUME NEW T, NEW s \in Seq(T), NEW kept, kept \subseteq 1 .. Len(s)
  PROVE  (IF kept = {} THEN <<>> ELSE SubSeq(s, Min(kept), Len(s))) \in Seq(T)
<1>1. CASE kept = {}
  BY <1>1
<1>2. CASE kept # {}
  <2>1. kept \subseteq Nat
    OBVIOUS
  <2>2. Min(kept) \in kept
    BY <1>2, <2>1, LeastNat
  <2>3. PICK m : m = Min(kept)
    OBVIOUS
  <2>4. m \in 1 .. Len(s)
    BY <2>2, <2>3
  <2>5. m \in Int /\ Len(s) \in Int /\ \A i \in m .. Len(s) : s[i] \in T
    BY <2>4
  <2>6. SubSeq(s, m, Len(s)) \in Seq(T)
    BY <2>5, SubSeqProperties
  <2> QED
    BY <1>2, <2>3, <2>6
<1> QED
  BY <1>1, <1>2

(* A sequence read backwards has the same elements.                        *)
LEMMA ReverseIs ==
  ASSUME NEW T, NEW s \in Seq(T)
  PROVE  Reverse(s) \in Seq(T)
BY DEF Reverse

(* Skipping the first line, the spaces and the dashes makes no new byte.   *)
LEMMA WithoutDashesIs ==
  ASSUME NEW T, NEW s \in Seq(T)
  PROVE  WithoutDashes(s) \in Seq(T)
<1> DEFINE first == DropWhile(s, LAMBDA c : c # Newline)
<1>1. first \in Seq(T)
  BY RestIs DEF DropWhile
<1> HIDE DEF first
<1>2. DropWhile(first, IsSpace) \in Seq(T)
  BY <1>1, RestIs DEF DropWhile
<1> QED
  BY <1>2 DEF WithoutDashes, first

(* The text to be decoded is a part of the file.                           *)
LEMMA Base64PartIs ==
  ASSUME NEW T, NEW pem \in Seq(T)
  PROVE  Base64Part(pem) \in Seq(T)
<1> DEFINE turned == Reverse(WithoutDashes(pem))
           trimmed == DropWhile(turned, IsSpace)
<1>1. turned \in Seq(T)
  BY WithoutDashesIs, ReverseIs
<1> HIDE DEF turned
<1>2. trimmed \in Seq(T)
  BY <1>1, RestIs DEF DropWhile
<1> HIDE DEF trimmed
<1>3. Reverse(WithoutDashes(trimmed)) \in Seq(T)
  BY <1>2, WithoutDashesIs, ReverseIs
<1> QED
  BY <1>3 DEF Base64Part, trimmed, turned

(* Up to four characters make up to three bytes, within eight bits.        *)
LEMMA BytesOfIs ==
  ASSUME NEW size \in 0 .. 4, NEW buf, Len(buf) = size, Valid(buf)
  PROVE  BytesOf(buf) \in Seq(0 .. 255)
<1>1. Converted(buf) \in {0, 2, 3, 4}
  BY DEF Converted
<1>2. ASSUME NEW x
      PROVE  base64_to_integer(x) \in 0 .. 64
  <2>1. PICK v : v = base64_to_integer(x)
    OBVIOUS
  <2>2. CASE x \in 65 .. 90
    <3>0. x \notin (97 .. 122) /\ x \notin (48 .. 57) /\ x # 43 /\ x # 47
      BY <2>2
    <3>1. base64_to_integer(x) = x - 65
      BY <2>2, <3>0, Zenon DEF base64_to_integer
    <3>2. x - 65 \in 0 .. 64
      BY <2>2
    <3> QED
      BY <3>1, <3>2
  <2>3. CASE x \in 97 .. 122
    <3>0. x \notin (65 .. 90) /\ x \notin (48 .. 57) /\ x # 43 /\ x # 47
      BY <2>3
    <3>1. base64_to_integer(x) = x - 97 + 26
      BY <2>3, <3>0, Zenon DEF base64_to_integer
    <3>2. x - 97 + 26 \in 0 .. 64
      BY <2>3
    <3> QED
      BY <3>1, <3>2
  <2>4. CASE x \in 48 .. 57
    <3>1. base64_to_integer(x) = x - 48 + 52
      BY <2>4 DEF base64_to_integer
    <3>2. x - 48 + 52 \in 0 .. 64
      BY <2>4
    <3> QED
      BY <3>1, <3>2
  <2>5. CASE x = 43 \/ x = 47
    BY <2>1, <2>5 DEF base64_to_integer
  <2>6. CASE x \notin (65 .. 90) \cup (97 .. 122) \cup (48 .. 57) \cup {43, 47}
    BY <2>1, <2>6 DEF base64_to_integer, NotBase64
  <2> QED
    BY <2>2, <2>3, <2>4, <2>5, <2>6
<1>3. \A i \in 1 .. Converted(buf) : base64_to_integer(buf[i]) \in 0 .. 63
  <2>1. \A v \in 0 .. 64 : v # 64 => v \in 0 .. 63
    OBVIOUS
  <2> QED
    BY <1>2, <2>1 DEF Valid, NotBase64
<1> DEFINE c(i) == base64_to_integer(buf[i])
           Byte(i) == ((c(i) * Left[i]) % 256) + c(i + 1) \div Right[i]
<1>4. ASSUME NEW i \in 1 .. Converted(buf) - 1
      PROVE  Byte(i) \in 0 .. 255
  <2>0. i \in 1 .. Converted(buf) /\ i + 1 \in 1 .. Converted(buf)
    BY <1>1
  <2>1. c(i) \in 0 .. 63 /\ c(i + 1) \in 0 .. 63
    BY <1>3, <2>0
  <2>2. i = 1 \/ i = 2 \/ i = 3
    BY <1>1
  <2> HIDE DEF c
  <2>3. \A x, y \in 0 .. 63 : ((x * 4) % 256) + y \div 16 \in 0 .. 255
    OBVIOUS
  <2>4. \A x, y \in 0 .. 63 : ((x * 16) % 256) + y \div 4 \in 0 .. 255
    OBVIOUS
  <2>5. \A x, y \in 0 .. 63 : ((x * 64) % 256) + y \div 1 \in 0 .. 255
    OBVIOUS
  <2>6. Left[1] = 4 /\ Left[2] = 16 /\ Left[3] = 64 /\ Right[1] = 16 /\ Right[2] = 4 /\ Right[3] = 1
    BY DEF Left, Right
  <2>7. CASE i = 1
    BY <2>1, <2>3, <2>6, <2>7
  <2>8. CASE i = 2
    BY <2>1, <2>4, <2>6, <2>8
  <2>9. CASE i = 3
    BY <2>1, <2>5, <2>6, <2>9
  <2> QED
    BY <2>2, <2>7, <2>8, <2>9
<1>5. BytesOf(buf) = [i \in 1 .. Converted(buf) - 1 |-> Byte(i)]
  BY Zenon DEF BytesOf
<1> HIDE DEF Byte
<1>6. PICK m \in Nat : 1 .. Converted(buf) - 1 = 1 .. m
  <2>1. CASE Converted(buf) = 0
    BY <2>1
  <2>2. CASE Converted(buf) # 0
    BY <1>1, <2>2
  <2> QED
    BY <2>1, <2>2
<1>7. BytesOf(buf) = [i \in 1 .. m |-> Byte(i)] /\ \A i \in 1 .. m : Byte(i) \in 0 .. 255
  BY <1>4, <1>5, <1>6
<1> QED
  BY <1>7

-----------------------------------------------------------------------------
(* Induction up to N: a set with 0 and with the successors of its elements *)
(* has all of 0 .. N.                                                      *)
LEMMA UpTo ==
  ASSUME NEW N \in Nat, NEW S, 0 \in S, \A k \in 1 .. N : k - 1 \in S => k \in S
  PROVE  \A k \in 0 .. N : k \in S
<1> DEFINE Bad == {k \in 0 .. N : k \notin S}
<1> SUFFICES ASSUME Bad # {}
             PROVE  FALSE
  OBVIOUS
<1>1. Bad \subseteq Nat
  OBVIOUS
<1>2. PICK m : m = Min(Bad)
  OBVIOUS
<1> HIDE DEF Bad
<1>3. m \in Bad /\ \A y \in Bad : m <= y
  BY <1>1, <1>2, LeastNat
<1>4. m \in 0 .. N /\ m \notin S
  BY <1>3 DEF Bad
<1>5. m - 1 \in 0 .. N /\ m - 1 \notin Bad /\ m \in 1 .. N
  BY <1>3, <1>4
<1>6. m - 1 \in S
  BY <1>5 DEF Bad
<1> QED
  BY <1>4, <1>5, <1>6

(* Iterating f'[k] = F[k][f[k - 1]] from a base, as the recursive functions *)
(* of the model do.                                                        *)
LEMMA Iterated ==
  ASSUME NEW N \in Nat, NEW base \in Nat, NEW F \in [1 .. N -> [Nat -> Nat]]
  PROVE  \E f \in [0 .. N -> Nat] : f[0] = base /\ \A k \in 1 .. N : f[k] = F[k][f[k - 1]]
<1> DEFINE Good(m) == \E f \in [0 .. m -> Nat] : f[0] = base /\ \A k \in 1 .. m : f[k] = F[k][f[k - 1]]
           S == {m \in 0 .. N : Good(m)}
<1>1. 0 \in S
  <2> DEFINE g == [k \in 0 .. 0 |-> base]
  <2>1. g \in [0 .. 0 -> Nat] /\ g[0] = base /\ 1 .. 0 = {}
    OBVIOUS
  <2> HIDE DEF g
  <2>2. Good(0)
    BY <2>1
  <2> HIDE DEF Good
  <2> QED
    BY <2>2
<1>2. ASSUME NEW m \in 1 .. N, m - 1 \in S
      PROVE  m \in S
  <2>1. PICK f \in [0 .. m - 1 -> Nat] : f[0] = base /\ \A k \in 1 .. m - 1 : f[k] = F[k][f[k - 1]]
    BY <1>2
  <2> DEFINE Longer(k) == IF k = m THEN F[m][f[m - 1]] ELSE f[k]
             g == [k \in 0 .. m |-> Longer(k)]
  <2>2. g \in [0 .. m -> Nat] /\ g[0] = base
    <3>1. ASSUME NEW k \in 0 .. m
          PROVE  Longer(k) \in Nat
      <4>1. f[m - 1] \in Nat
        OBVIOUS
      <4>3. F[m][f[m - 1]] \in Nat
        BY <4>1
      <4>4. k # m => k \in 0 .. m - 1
        OBVIOUS
      <4> QED
        BY <4>3, <4>4
    <3>2. 0 \in 0 .. m /\ Longer(0) = base
      BY <2>1
    <3> HIDE DEF Longer
    <3> QED
      BY <3>1, <3>2
  <2>3. ASSUME NEW k \in 1 .. m
        PROVE  g[k] = F[k][g[k - 1]]
    <3>0. k - 1 # m /\ k - 1 \in 0 .. m /\ m \in 0 .. m /\ k \in 0 .. m
      OBVIOUS
    <3>1. g[k - 1] = f[k - 1] /\ g[m] = F[m][f[m - 1]] /\ (k # m => g[k] = f[k])
      BY <3>0
    <3> HIDE DEF g
    <3>2. CASE k = m
      BY <3>1, <3>2
    <3>3. CASE k # m
      <4>1. k \in 1 .. m - 1
        BY <3>3
      <4> QED
        BY <2>1, <3>1, <3>3, <4>1
    <3> QED
      BY <3>2, <3>3
  <2> HIDE DEF g
  <2>4. Good(m)
    BY <2>2, <2>3
  <2> HIDE DEF Good
  <2> QED
    BY <2>4
<1> HIDE DEF S
<1>3. \A m \in 0 .. N : m \in S
  BY <1>1, <1>2, UpTo
<1>4. N \in S
  BY <1>3
<1> QED
  BY <1>4 DEF S

(* The value of a number, byte after byte.                                 *)
LEMMA NumberIs ==
  ASSUME NEW num \in Seq(0 .. 255)
  PROVE  \E v \in [0 .. Len(num) -> Nat] :
           /\ v[0] = 0 /\ \A k \in 1 .. Len(num) : v[k] = 256 * v[k - 1] + num[k]
           /\ NumberOf(num) = v[Len(num)]
<1> DEFINE N == Len(num)
           At(f, k) == IF k = 0 THEN 0 ELSE 256 * f[k - 1] + num[k]
           Rule(f) == f = [k \in 0 .. N |-> At(f, k)]
           F == [k \in 1 .. N |-> [x \in Nat |-> 256 * x + num[k]]]
<1>1. N \in Nat /\ \A k \in 1 .. N : num[k] \in Nat
  <2>1. \A k \in 1 .. N : num[k] \in 0 .. 255
    BY ElementOfSeq
  <2>2. N \in Nat
    OBVIOUS
  <2>3. \A x \in 0 .. 255 : x \in Nat
    OBVIOUS
  <2> HIDE DEF N
  <2> QED
    BY <2>1, <2>2, <2>3
<1>2. \A k \in 1 .. N, x \in Nat : F[k][x] = 256 * x + num[k]
  OBVIOUS
<1>3. F \in [1 .. N -> [Nat -> Nat]]
  BY <1>1
<1> HIDE DEF F, N
<1>4. PICK f \in [0 .. N -> Nat] : f[0] = 0 /\ \A k \in 1 .. N : f[k] = F[k][f[k - 1]]
  BY <1>1, <1>3, Iterated
<1>5. ASSUME NEW k \in 0 .. N
      PROVE  f[k] = At(f, k)
  <2>1. CASE k = 0
    BY <1>4, <2>1
  <2>2. CASE k # 0
    <3>1. k \in 1 .. N /\ f[k - 1] \in Nat
      BY <1>1, <2>2
    <3> QED
      BY <1>2, <1>4, <2>2, <3>1
  <2> QED
    BY <2>1, <2>2
<1>6. f = [k \in 0 .. N |-> f[k]]
  OBVIOUS
<1> HIDE DEF At
<1>7. Rule(f)
  BY <1>5, <1>6
<1>8. PICK v : v = CHOOSE g : Rule(g)
  OBVIOUS
<1>9. Rule(v)
  <2> HIDE DEF Rule
  <2> QED
    BY <1>7, <1>8
<1>10. NumberOf(num) = v[N]
  BY <1>8, Zenon DEF NumberOf, N, At
<1>11. \A k \in 0 .. N : v[k] = At(v, k)
  BY <1>9
<1> USE DEF At
<1>12. v[0] = 0 /\ \A k \in 1 .. N : v[k] = 256 * v[k - 1] + num[k]
  <2>1. 0 \in 0 .. N /\ \A k \in 1 .. N : k \in 0 .. N /\ k # 0
    BY <1>1
  <2> QED
    BY <1>11, <2>1
<1>13. \A k \in 0 .. N : v[k] \in Nat
  <2> DEFINE S == {k \in 0 .. N : v[k] \in Nat}
  <2>1. 0 \in S
    BY <1>1, <1>12
  <2>2. ASSUME NEW k \in 1 .. N, k - 1 \in S
        PROVE  k \in S
    <3>1. v[k] = 256 * v[k - 1] + num[k] /\ num[k] \in Nat /\ v[k - 1] \in Nat /\ k \in 0 .. N
      BY <1>1, <1>12, <2>2
    <3> QED
      BY <3>1
  <2> HIDE DEF S
  <2>3. \A k \in 0 .. N : k \in S
    BY <1>1, <2>1, <2>2, UpTo
  <2> QED
    BY <2>3 DEF S
<1>14. v \in [0 .. N -> Nat]
  <2>1. v = [k \in 0 .. N |-> At(v, k)]
    BY <1>9
  <2>2. v = [k \in 0 .. N |-> v[k]]
    BY <2>1
  <2> QED
    BY <1>13, <2>2
<1> QED
  BY <1>10, <1>12, <1>14 DEF N

(* The powers of two, one after the other.                                 *)
LEMMA PowerIs ==
  ASSUME NEW m \in Nat
  PROVE  \E p \in [0 .. m -> Nat] :
           /\ p[0] = 1 /\ \A k \in 1 .. m : p[k] = 2 * p[k - 1]
           /\ \A k \in 0 .. m : PowerOf2(k) = p[k]
<1> DEFINE At(f, k) == IF k = 0 THEN 1 ELSE 2 * f[k - 1]
           Rule(f, n) == f = [k \in 0 .. n |-> At(f, k)]
           F == [k \in 1 .. m |-> [x \in Nat |-> 2 * x]]
<1>0. F \in [1 .. m -> [Nat -> Nat]] /\ 1 \in Nat
  OBVIOUS
<1>1. \A k \in 1 .. m, x \in Nat : F[k][x] = 2 * x
  OBVIOUS
<1> HIDE DEF F
<1>2. PICK p \in [0 .. m -> Nat] : p[0] = 1 /\ \A k \in 1 .. m : p[k] = F[k][p[k - 1]]
  BY <1>0, Iterated, Zenon
<1>3. \A k \in 1 .. m : p[k] = 2 * p[k - 1]
  <2>1. \A k \in 1 .. m : p[k - 1] \in Nat
    OBVIOUS
  <2> QED
    BY <1>1, <1>2, <2>1
<1>4. ASSUME NEW n \in 0 .. m
      PROVE  PowerOf2(n) = p[n]
  <2> DEFINE q == [k \in 0 .. n |-> p[k]]
  <2>1. ASSUME NEW k \in 0 .. n
        PROVE  q[k] = At(q, k)
    <3>1. CASE k = 0
      BY <1>2, <3>1
    <3>2. CASE k # 0
      <4>1. k \in 1 .. m /\ k - 1 \in 0 .. n
        BY <3>2
      <4>2. q[k] = p[k] /\ q[k - 1] = p[k - 1]
        BY <4>1
      <4> QED
        BY <1>3, <3>2, <4>1, <4>2
    <3> QED
      BY <3>1, <3>2
  <2>2. q = [k \in 0 .. n |-> q[k]]
    OBVIOUS
  <2>3. q[n] = p[n]
    OBVIOUS
  <2> HIDE DEF q, At
  <2>4. Rule(q, n)
    BY <2>1, <2>2
  <2>5. PICK v : v = CHOOSE g : Rule(g, n)
    OBVIOUS
  <2>6. Rule(v, n)
    <3> HIDE DEF Rule
    <3> QED
      BY <2>4, <2>5
  <2>7. PowerOf2(n) = v[n]
    BY <2>5, Zenon DEF PowerOf2, At
  <2>8. \A k \in 0 .. n : v[k] = At(v, k)
    BY <2>6
  <2> DEFINE S == {k \in 0 .. n : v[k] = q[k]}
  <2>9. 0 \in S
    <3>1. 0 \in 0 .. n
      OBVIOUS
    <3> QED
      BY <2>1, <2>8, <3>1 DEF At
  <2>10. ASSUME NEW k \in 1 .. n, k - 1 \in S
         PROVE  k \in S
    <3>1. k \in 0 .. n /\ k # 0
      OBVIOUS
    <3>2. v[k] = 2 * v[k - 1] /\ q[k] = 2 * q[k - 1]
      BY <2>1, <2>8, <3>1 DEF At
    <3> QED
      BY <2>10, <3>1, <3>2
  <2> HIDE DEF S
  <2>11. \A k \in 0 .. n : k \in S
    <3>1. n \in Nat
      OBVIOUS
    <3> QED
      BY <2>9, <2>10, <3>1, UpTo
  <2> USE DEF S
  <2> QED
    BY <2>3, <2>7, <2>11
<1> QED
  BY <1>2, <1>3, <1>4

(* The values of the mask, and the bits of a byte behind it, from its top. *)
Mask == <<128, 64, 32, 16, 8, 4, 2, 1>>

TopOfByte(x, n) ==
  /\ n \in 0 .. 8
  /\ n > 0 => (x \div Mask[9 - n]) % 2 = 1
  /\ \A j \in 1 .. 8 - n : (x \div Mask[j]) % 2 = 0

(* A byte has as many bits as the power of two which it reaches.           *)
LEMMA ByteBits ==
  ASSUME NEW x \in 0 .. 255
  PROVE  /\ x = 0 => TopOfByte(x, 0)
         /\ x = 1 => TopOfByte(x, 1)
         /\ x \in 2 .. 3 => TopOfByte(x, 2)
         /\ x \in 4 .. 7 => TopOfByte(x, 3)
         /\ x \in 8 .. 15 => TopOfByte(x, 4)
         /\ x \in 16 .. 31 => TopOfByte(x, 5)
         /\ x \in 32 .. 63 => TopOfByte(x, 6)
         /\ x \in 64 .. 127 => TopOfByte(x, 7)
         /\ x \in 128 .. 255 => TopOfByte(x, 8)
<1>1. /\ Mask[1] = 128 /\ Mask[2] = 64 /\ Mask[3] = 32 /\ Mask[4] = 16
      /\ Mask[5] = 8 /\ Mask[6] = 4 /\ Mask[7] = 2 /\ Mask[8] = 1
  BY DEF Mask
<1>3. CASE x = 0
  BY <1>1, <1>3 DEF TopOfByte
<1>4. CASE x = 1
  BY <1>1, <1>4 DEF TopOfByte
<1>5. CASE x \in 2 .. 3
  BY <1>1, <1>5 DEF TopOfByte
<1>6. CASE x \in 4 .. 7
  BY <1>1, <1>6 DEF TopOfByte
<1>7. CASE x \in 8 .. 15
  BY <1>1, <1>7 DEF TopOfByte
<1>8. CASE x \in 16 .. 31
  BY <1>1, <1>8 DEF TopOfByte
<1>9. CASE x \in 32 .. 63
  BY <1>1, <1>9 DEF TopOfByte
<1>10. CASE x \in 64 .. 127
  BY <1>1, <1>10 DEF TopOfByte
<1>11. CASE x \in 128 .. 255
  BY <1>1, <1>11 DEF TopOfByte
<1> QED
  BY <1>3, <1>4, <1>5, <1>6, <1>7, <1>8, <1>9, <1>10, <1>11

(* The bit at i from the top of a number, and its most significant one.    *)
Bit(num, i) == (num[(i \div 8) + 1] \div Mask[(i % 8) + 1]) % 2

Top(num, k, n, v, p) ==
  /\ n \in 0 .. 8 * k
  /\ v < p[n] /\ (n > 0 => v >= p[n - 1] /\ Bit(num, 8 * k - n) = 1)
  /\ \A i \in 0 .. 8 * k - n - 1 : Bit(num, i) = 0

(* The bits of the k-th byte are those from 8 * (k - 1).                   *)
LEMMA BitOfByte ==
  ASSUME NEW num, NEW k \in Nat \ {0}, NEW j \in 1 .. 8
  PROVE  Bit(num, 8 * (k - 1) + j - 1) = (num[k] \div Mask[j]) % 2
<1>1. ((8 * (k - 1) + j - 1) \div 8) + 1 = k
  OBVIOUS
<1>2. ((8 * (k - 1) + j - 1) % 8) + 1 = j
  OBVIOUS
<1> QED
  BY <1>1, <1>2, Zenon DEF Bit

(* The first powers of two.                                                *)
Powers(p, m) ==
  p \in [0 .. m -> Nat] /\ p[0] = 1 /\ \A k \in 1 .. m : p[k] = 2 * p[k - 1]

(* The powers of two up to a byte, by their recursion.                     *)
LEMMA SmallPowers ==
  ASSUME NEW m \in Nat, m >= 8, NEW p, Powers(p, m)
  PROVE  /\ p[0] = 1 /\ p[1] = 2 /\ p[2] = 4 /\ p[3] = 8 /\ p[4] = 16
         /\ p[5] = 32 /\ p[6] = 64 /\ p[7] = 128 /\ p[8] = 256
<1>1. 1 \in 1 .. m /\ 2 \in 1 .. m /\ 3 \in 1 .. m /\ 4 \in 1 .. m
  OBVIOUS
<1>2. 5 \in 1 .. m /\ 6 \in 1 .. m /\ 7 \in 1 .. m /\ 8 \in 1 .. m
  OBVIOUS
<1>3. p[1] = 2 * p[1 - 1] /\ p[2] = 2 * p[2 - 1] /\ p[3] = 2 * p[3 - 1] /\ p[4] = 2 * p[4 - 1]
  BY <1>1, Zenon DEF Powers
<1>4. p[5] = 2 * p[5 - 1] /\ p[6] = 2 * p[6 - 1] /\ p[7] = 2 * p[7 - 1] /\ p[8] = 2 * p[8 - 1]
  BY <1>2, Zenon DEF Powers
<1>5. p[0] = 1
  BY DEF Powers
<1> QED
  BY <1>3, <1>4, <1>5

(* Eight bits further.                                                     *)
LEMMA EightMore ==
  ASSUME NEW m \in Nat, NEW p, Powers(p, m), NEW n \in Nat, n + 8 <= m
  PROVE  p[n] \in Nat /\ p[n + 8] = 256 * p[n]
<1>1. ASSUME NEW d \in 0 .. 7
      PROVE  p[n + d] \in Nat /\ p[n + d + 1] \in Nat /\ p[n + d + 1] = 2 * p[n + d]
  <2>1. PICK a, b : a = n + d /\ b = n + d + 1
    OBVIOUS
  <2>2. a \in 0 .. m /\ b \in 0 .. m /\ b \in 1 .. m /\ b - 1 = a
    BY <2>1
  <2>3. p[a] \in Nat /\ p[b] \in Nat
    BY <2>2 DEF Powers
  <2>4. p[b] = 2 * p[b - 1]
    BY <2>2 DEF Powers
  <2> QED
    BY <2>1, <2>2, <2>3, <2>4
<1> DEFINE q(d) == p[n + d]
<1>2. \A d \in 0 .. 7 : q(d) \in Nat /\ q(d + 1) \in Nat /\ q(d + 1) = 2 * q(d)
  <2>1. \A d \in 0 .. 7 : n + (d + 1) = n + d + 1
    OBVIOUS
  <2> QED
    BY <1>1, <2>1
<1>3. p[n] = q(0) /\ p[n + 8] = q(8)
  BY n + 0 = n
<1> HIDE DEF q
<1>4. /\ q(0) \in Nat /\ q(1) = 2 * q(0) /\ q(2) = 2 * q(1) /\ q(3) = 2 * q(2) /\ q(4) = 2 * q(3)
  <2>1. q(0 + 1) = 2 * q(0) /\ q(1 + 1) = 2 * q(1) /\ q(2 + 1) = 2 * q(2) /\ q(3 + 1) = 2 * q(3)
    BY <1>2
  <2>2. 0 + 1 = 1 /\ 1 + 1 = 2 /\ 2 + 1 = 3 /\ 3 + 1 = 4 /\ 0 \in 0 .. 7
    OBVIOUS
  <2> QED
    BY <1>2, <2>1, <2>2
<1>5. q(5) = 2 * q(4) /\ q(6) = 2 * q(5) /\ q(7) = 2 * q(6) /\ q(8) = 2 * q(7)
  <2>1. q(4 + 1) = 2 * q(4) /\ q(5 + 1) = 2 * q(5) /\ q(6 + 1) = 2 * q(6) /\ q(7 + 1) = 2 * q(7)
    BY <1>2
  <2>2. 4 + 1 = 5 /\ 5 + 1 = 6 /\ 6 + 1 = 7 /\ 7 + 1 = 8
    OBVIOUS
  <2> QED
    BY <2>1, <2>2
<1>6. q(4) = 16 * q(0) /\ q(4) \in Nat
  BY <1>4
<1>7. q(8) = 16 * q(4)
  BY <1>5, <1>6
<1> QED
  BY <1>3, <1>4, <1>6, <1>7

(* A number of one more byte: eight more bits after the top one, or the    *)
(* bits of the byte when there was none.                                   *)
LEMMA TopNext ==
  ASSUME NEW num, NEW k \in Nat \ {0}, NEW x \in 0 .. 255, num[k] = x,
         NEW m \in Nat, m >= 8 * k, NEW p, Powers(p, m),
         NEW v \in Nat, NEW n, Top(num, k - 1, n, v, p)
  PROVE  \E nn : Top(num, k, nn, 256 * v + x, p)
<1>0. k \in Nat /\ k >= 1 /\ 8 * k \in Nat /\ 8 * k >= 8 /\ 8 * (k - 1) = 8 * k - 8
  OBVIOUS
<1>1. n \in 0 .. 8 * (k - 1) /\ n \in Nat /\ 8 * (k - 1) \in Nat
  BY <1>0 DEF Top
<1>2. CASE n > 0
  <2>1. v < p[n] /\ v >= p[n - 1] /\ Bit(num, 8 * (k - 1) - n) = 1
        /\ \A i \in 0 .. 8 * (k - 1) - n - 1 : Bit(num, i) = 0
    BY <1>2 DEF Top
  <2>2. p[n + 8] = 256 * p[n] /\ p[n - 1 + 8] = 256 * p[n - 1] /\ p[n] \in Nat /\ p[n - 1] \in Nat
    <3>1. n + 8 <= m /\ n - 1 + 8 <= m /\ n - 1 \in Nat
      BY <1>0, <1>1, <1>2
    <3>2. p[n] \in Nat /\ p[n + 8] = 256 * p[n]
      BY <1>1, <3>1, EightMore
    <3>3. p[n - 1] \in Nat /\ p[n - 1 + 8] = 256 * p[n - 1]
      <4>1. PICK nm : nm = n - 1
        OBVIOUS
      <4>2. nm \in Nat /\ nm + 8 <= m
        BY <3>1, <4>1
      <4>3. p[nm] \in Nat /\ p[nm + 8] = 256 * p[nm]
        BY <4>2, EightMore
      <4> QED
        BY <4>1, <4>3
    <3> QED
      BY <3>1, <3>2, <3>3
  <2>3. 256 * v + x < p[n + 8] /\ 256 * v + x >= p[n + 8 - 1]
    <3>1. n + 8 - 1 = n - 1 + 8
      BY <1>1
    <3>2. n - 1 + 8 = n + 8 - 1 /\ p[n + 8 - 1] = 256 * p[n - 1]
      BY <2>2, <3>1
    <3>3. 256 * v + x < 256 * p[n] /\ 256 * v + x >= 256 * p[n - 1]
      <4>1. \A a, b \in Nat : v < a /\ v >= b => 256 * v + x < 256 * a /\ 256 * v + x >= 256 * b
        OBVIOUS
      <4> QED
        BY <2>1, <2>2, <4>1
    <3> QED
      BY <2>2, <3>2, <3>3
  <2>4. n + 8 \in 0 .. 8 * k /\ 8 * k - (n + 8) = 8 * (k - 1) - n
    BY <1>1
  <2>5. Top(num, k, n + 8, 256 * v + x, p)
    BY <1>1, <2>1, <2>3, <2>4 DEF Top
  <2> QED
    BY <2>5
<1>3. CASE n = 0
  <2>1. v = 0 /\ \A i \in 0 .. 8 * (k - 1) - 1 : Bit(num, i) = 0
    <3>1. p[0] = 1
      BY DEF Powers
    <3>2. v < p[n] /\ \A i \in 0 .. 8 * (k - 1) - n - 1 : Bit(num, i) = 0
      BY DEF Top
    <3>3. 8 * (k - 1) - n - 1 = 8 * (k - 1) - 1
      BY <1>1, <1>3
    <3> QED
      BY <1>3, <3>1, <3>2, <3>3
  <2>2. ASSUME NEW nn \in 0 .. 8, TopOfByte(x, nn), x < p[nn], nn > 0 => x >= p[nn - 1]
        PROVE  Top(num, k, nn, x, p)
    <3>1. nn \in 0 .. 8 * k
      BY <1>0
    <3>2. nn > 0 => Bit(num, 8 * k - nn) = 1
      <4>1. SUFFICES ASSUME nn > 0
                     PROVE  Bit(num, 8 * k - nn) = 1
        OBVIOUS
      <4>2. 9 - nn \in 1 .. 8 /\ 8 * (k - 1) + (9 - nn) - 1 = 8 * k - nn
        BY <1>0, <4>1
      <4>3. Bit(num, 8 * (k - 1) + (9 - nn) - 1) = (num[k] \div Mask[9 - nn]) % 2
        BY <4>2, BitOfByte
      <4>4. (x \div Mask[9 - nn]) % 2 = 1
        BY <2>2, <4>1 DEF TopOfByte
      <4> QED
        BY <4>2, <4>3, <4>4
    <3>3. ASSUME NEW i \in 0 .. 8 * k - nn - 1
          PROVE  Bit(num, i) = 0
      <4>1. CASE i <= 8 * (k - 1) - 1
        BY <2>1, <4>1
      <4>2. CASE i > 8 * (k - 1) - 1
        <5>0. PICK j : j = i - 8 * (k - 1) + 1
          OBVIOUS
        <5>1. j \in 1 .. 8 /\ j \in 1 .. 8 - nn /\ 8 * (k - 1) + j - 1 = i
          BY <1>0, <4>2, <5>0
        <5>2. Bit(num, 8 * (k - 1) + j - 1) = (num[k] \div Mask[j]) % 2
          BY <5>1, BitOfByte
        <5>3. (x \div Mask[j]) % 2 = 0
          BY <2>2, <5>1 DEF TopOfByte
        <5> QED
          BY <5>1, <5>2, <5>3
      <4> QED
        BY <4>1, <4>2
    <3> QED
      BY <2>2, <3>1, <3>2, <3>3 DEF Top
  <2>3. /\ p[0] = 1 /\ p[1] = 2 /\ p[2] = 4 /\ p[3] = 8 /\ p[4] = 16
        /\ p[5] = 32 /\ p[6] = 64 /\ p[7] = 128 /\ p[8] = 256
    <3>1. m >= 8
      BY <1>0
    <3> QED
      BY <3>1, SmallPowers
  <2>4. \E nn \in 0 .. 8 : TopOfByte(x, nn) /\ x < p[nn] /\ (nn > 0 => x >= p[nn - 1])
    <3>1. CASE x = 0
      <4>1. TopOfByte(x, 0)
        BY <3>1, ByteBits
      <4>2. x < p[0]
        BY <2>3, <3>1
      <4>3. 0 \in 0 .. 8
        OBVIOUS
      <4> QED
        BY <4>1, <4>2, <4>3, SMT
    <3>2. CASE x = 1
      <4>1. TopOfByte(x, 1)
        BY <3>2, ByteBits
      <4>2. x < p[1] /\ x >= p[1 - 1]
        BY <2>3, <3>2
      <4>3. 1 \in 0 .. 8
        OBVIOUS
      <4> QED
        BY <4>1, <4>2, <4>3, Zenon
    <3>3. CASE x \in 2 .. 3
      <4>1. TopOfByte(x, 2)
        BY <3>3, ByteBits
      <4>2. x < p[2] /\ x >= p[2 - 1]
        BY <2>3, <3>3
      <4>3. 2 \in 0 .. 8
        OBVIOUS
      <4> QED
        BY <4>1, <4>2, <4>3, Zenon
    <3>4. CASE x \in 4 .. 7
      <4>1. TopOfByte(x, 3)
        BY <3>4, ByteBits
      <4>2. x < p[3] /\ x >= p[3 - 1]
        BY <2>3, <3>4
      <4>3. 3 \in 0 .. 8
        OBVIOUS
      <4> QED
        BY <4>1, <4>2, <4>3, Zenon
    <3>5. CASE x \in 8 .. 15
      <4>1. TopOfByte(x, 4)
        BY <3>5, ByteBits
      <4>2. x < p[4] /\ x >= p[4 - 1]
        BY <2>3, <3>5
      <4>3. 4 \in 0 .. 8
        OBVIOUS
      <4> QED
        BY <4>1, <4>2, <4>3, Zenon
    <3>6. CASE x \in 16 .. 31
      <4>1. TopOfByte(x, 5)
        BY <3>6, ByteBits
      <4>2. x < p[5] /\ x >= p[5 - 1]
        BY <2>3, <3>6
      <4>3. 5 \in 0 .. 8
        OBVIOUS
      <4> QED
        BY <4>1, <4>2, <4>3, Zenon
    <3>7. CASE x \in 32 .. 63
      <4>1. TopOfByte(x, 6)
        BY <3>7, ByteBits
      <4>2. x < p[6] /\ x >= p[6 - 1]
        BY <2>3, <3>7
      <4>3. 6 \in 0 .. 8
        OBVIOUS
      <4> QED
        BY <4>1, <4>2, <4>3, Zenon
    <3>8. CASE x \in 64 .. 127
      <4>1. TopOfByte(x, 7)
        BY <3>8, ByteBits
      <4>2. x < p[7] /\ x >= p[7 - 1]
        BY <2>3, <3>8
      <4>3. 7 \in 0 .. 8
        OBVIOUS
      <4> QED
        BY <4>1, <4>2, <4>3, Zenon
    <3>9. CASE x \in 128 .. 255
      <4>1. TopOfByte(x, 8)
        BY <3>9, ByteBits
      <4>2. x < p[8] /\ x >= p[8 - 1]
        BY <2>3, <3>9
      <4>3. 8 \in 0 .. 8
        OBVIOUS
      <4> QED
        BY <4>1, <4>2, <4>3, Zenon
    <3> QED
      BY <3>1, <3>2, <3>3, <3>4, <3>5, <3>6, <3>7, <3>8, <3>9
  <2>5. 256 * v + x = x
    BY <2>1
  <2> QED
    BY <2>2, <2>4, <2>5
<1> QED
  BY <1>1, <1>2, <1>3

(* The state of the loop after it dropped k bits: the mask and the byte    *)
(* are those of bit k.                                                     *)
AtBit(m, k) == [bits |-> m - k, mask |-> Mask[(k % 8) + 1], at |-> (k \div 8) + 1]

(* From the place of one bit to the next, in the same byte or not.         *)
LEMMA DropBitIs ==
  ASSUME NEW m \in Nat, NEW k \in 0 .. m
  PROVE  DropBit(AtBit(m, k)) = AtBit(m, k + 1)
<1> DEFINE j == (k % 8) + 1
<1>1. /\ Mask[1] = 128 /\ Mask[2] = 64 /\ Mask[3] = 32 /\ Mask[4] = 16
      /\ Mask[5] = 8 /\ Mask[6] = 4 /\ Mask[7] = 2 /\ Mask[8] = 1
  BY DEF Mask
<1>2. j \in 1 .. 8
  OBVIOUS
<1>3. /\ AtBit(m, k).bits = m - k /\ AtBit(m, k).mask = Mask[j] /\ AtBit(m, k).at = (k \div 8) + 1
  BY DEF AtBit
<1>4. CASE j = 8
  <2>1. ((k + 1) % 8) + 1 = 1 /\ (k + 1) \div 8 = (k \div 8) + 1
    BY <1>4
  <2>2. Mask[j] \div 2 = 0
    BY <1>1, <1>4
  <2>3. DropBit(AtBit(m, k)) = [bits |-> m - k - 1, mask |-> 128, at |-> (k \div 8) + 1 + 1]
    BY <1>3, <2>2 DEF DropBit
  <2>4. AtBit(m, k + 1) = [bits |-> m - (k + 1), mask |-> Mask[1], at |-> (k \div 8) + 1 + 1]
    BY <2>1 DEF AtBit
  <2>5. m - (k + 1) = m - k - 1
    OBVIOUS
  <2> QED
    BY <1>1, <2>3, <2>4, <2>5
<1>5. CASE j # 8
  <2>1. ((k + 1) % 8) + 1 = j + 1 /\ (k + 1) \div 8 = k \div 8
    BY <1>5
  <2>2. Mask[j] \div 2 # 0 /\ Mask[j + 1] = Mask[j] \div 2
    <3>1. j = 1 \/ j = 2 \/ j = 3 \/ j = 4 \/ j = 5 \/ j = 6 \/ j = 7
      BY <1>2, <1>5
    <3> HIDE DEF j
    <3> QED
      BY <1>1, <3>1
  <2>3. DropBit(AtBit(m, k)) = [bits |-> m - k - 1, mask |-> Mask[j] \div 2, at |-> (k \div 8) + 1]
    BY <1>3, <2>2 DEF DropBit
  <2>4. AtBit(m, k + 1) = [bits |-> m - (k + 1), mask |-> Mask[j + 1], at |-> (k \div 8) + 1]
    BY <2>1 DEF AtBit
  <2>5. m - (k + 1) = m - k - 1
    OBVIOUS
  <2> QED
    BY <2>2, <2>3, <2>4, <2>5
<1> QED
  BY <1>4, <1>5

(* A turn drops a bit which is zero, and stops at another or at the end.   *)
LEMMA TurnIs ==
  ASSUME NEW num, NEW m \in Nat, NEW k \in 0 .. m
  PROVE  Turn(num, AtBit(m, k)) =
           IF k < m /\ Bit(num, k) = 0 THEN AtBit(m, k + 1) ELSE AtBit(m, k)
<1>1. AtBit(m, k).bits = m - k
  BY DEF AtBit
<1>2. (num[AtBit(m, k).at] \div AtBit(m, k).mask) % 2 = Bit(num, k)
  BY Zenon DEF AtBit, Bit
<1>3. AtBit(m, k).bits > 0 <=> k < m
  BY <1>1
<1>4. DropBit(AtBit(m, k)) = AtBit(m, k + 1)
  BY DropBitIs
<1>5. PICK s : s = AtBit(m, k)
  OBVIOUS
<1>6. Turn(num, s) = IF s.bits > 0 /\ (num[s.at] \div s.mask) % 2 = 0 THEN DropBit(s) ELSE s
  BY Zenon DEF Turn
<1> QED
  BY <1>2, <1>3, <1>4, <1>5, <1>6

(* The loop stops at the first bit which is not zero, or behind the last.  *)
LEMMA LoopIs ==
  ASSUME NEW num, Len(num) \in Nat, NEW t \in 0 .. 8 * Len(num),
         t > 0 => Bit(num, 8 * Len(num) - t) = 1,
         \A i \in 0 .. 8 * Len(num) - t - 1 : Bit(num, i) = 0
  PROVE  large_number_bits(num) = t
<1>0. PICK m : m = 8 * Len(num)
  OBVIOUS
<1>1. m \in Nat /\ t \in 0 .. m /\ (t > 0 => Bit(num, m - t) = 1)
      /\ \A i \in 0 .. m - t - 1 : Bit(num, i) = 0
  BY <1>0
<1> DEFINE At(f, n) == IF n = 0 THEN [bits |-> m, mask |-> 128, at |-> 1] ELSE Turn(num, f[n - 1])
           Rule(f) == f = [n \in 0 .. m |-> At(f, n)]
           Passed(n) == IF n <= m - t THEN n ELSE m - t
           q == [n \in 0 .. m |-> AtBit(m, Passed(n))]
<1>2. \A n \in 0 .. m : Passed(n) \in 0 .. m
  BY <1>1
<1>3. ASSUME NEW n \in 0 .. m
      PROVE  q[n] = At(q, n)
  <2>1. CASE n = 0
    <3>1. Passed(0) = 0
      BY <1>1
    <3>2. q[0] = AtBit(m, 0)
      BY <1>1, <3>1
    <3>3. (0 % 8) + 1 = 1 /\ (0 \div 8) + 1 = 1 /\ m - 0 = m /\ Mask[1] = 128
      BY <1>1 DEF Mask
    <3>4. AtBit(m, 0) = [bits |-> m, mask |-> 128, at |-> 1]
      BY <3>3 DEF AtBit
    <3> QED
      BY <2>1, <3>2, <3>4
  <2>2. CASE n # 0
    <3>1. n - 1 \in 0 .. m /\ q[n - 1] = AtBit(m, Passed(n - 1)) /\ q[n] = AtBit(m, Passed(n))
      BY <1>1, <2>2
    <3>2. PICK k : k = Passed(n - 1)
      OBVIOUS
    <3>3. k \in 0 .. m
      BY <1>2, <3>1, <3>2
    <3>4. Turn(num, AtBit(m, k)) =
            IF k < m /\ Bit(num, k) = 0 THEN AtBit(m, k + 1) ELSE AtBit(m, k)
      BY <1>1, <3>3, TurnIs
    <3>5. CASE n <= m - t
      <4>1. k = n - 1 /\ Passed(n) = k + 1 /\ k < m /\ k \in 0 .. m - t - 1
        BY <1>1, <2>2, <3>2, <3>5
      <4>2. Bit(num, k) = 0
        BY <1>1, <4>1
      <4>3. Turn(num, AtBit(m, k)) = AtBit(m, k + 1)
        BY <3>4, <4>1, <4>2
      <4> QED
        BY <2>2, <3>1, <3>2, <4>1, <4>3
    <3>6. CASE ~ n <= m - t
      <4>1. k = m - t /\ Passed(n) = k
        BY <1>1, <2>2, <3>2, <3>6
      <4>2. ~ (k < m /\ Bit(num, k) = 0)
        <5>1. SUFFICES ASSUME k < m
                       PROVE  Bit(num, k) # 0
          OBVIOUS
        <5>2. t > 0
          BY <1>1, <4>1, <5>1
        <5> QED
          BY <1>1, <4>1, <5>2
      <4>3. Turn(num, AtBit(m, k)) = AtBit(m, k)
        BY <3>4, <4>2
      <4> QED
        BY <2>2, <3>1, <3>2, <4>1, <4>3
    <3> QED
      BY <3>5, <3>6
  <2> QED
    BY <2>1, <2>2
<1>4. q = [n \in 0 .. m |-> q[n]]
  OBVIOUS
<1>5. q[m].bits = t
  <2>1. q[m] = AtBit(m, Passed(m)) /\ Passed(m) = m - t
    BY <1>1
  <2>2. AtBit(m, m - t).bits = m - (m - t)
    BY DEF AtBit
  <2> QED
    BY <1>1, <2>1, <2>2
<1> HIDE DEF q, At, Passed
<1>6. Rule(q)
  BY <1>3, <1>4
<1>7. PICK v : v = CHOOSE g : Rule(g)
  OBVIOUS
<1>8. Rule(v)
  <2> HIDE DEF Rule
  <2> QED
    BY <1>6, <1>7
<1>9. large_number_bits(num) = v[m].bits
  <2>1. v = CHOOSE g : g = [n \in 0 .. m |-> At(g, n)]
    BY <1>7
  <2> QED
    BY <1>0, <2>1, Zenon DEF large_number_bits, At
<1>10. \A n \in 0 .. m : v[n] = At(v, n)
  BY <1>8
<1> DEFINE S == {n \in 0 .. m : v[n] = q[n]}
<1>11. 0 \in S
  <2>1. 0 \in 0 .. m
    BY <1>1
  <2> QED
    BY <1>3, <1>10, <2>1 DEF At
<1>12. ASSUME NEW n \in 1 .. m, n - 1 \in S
       PROVE  n \in S
  <2>1. n \in 0 .. m /\ n # 0
    BY <1>1
  <2>2. v[n] = Turn(num, v[n - 1]) /\ q[n] = Turn(num, q[n - 1])
    BY <1>3, <1>10, <2>1 DEF At
  <2> QED
    BY <1>12, <2>1, <2>2
<1> HIDE DEF S
<1>13. \A n \in 0 .. m : n \in S
  BY <1>1, <1>11, <1>12, UpTo
<1> USE DEF S
<1>14. v[m] = q[m]
  BY <1>1, <1>13
<1> QED
  BY <1>5, <1>9, <1>14

(* The size of a number is the place of its most significant bit: its      *)
(* value fits in that many bits and in no fewer, whatever zeroes lead it.  *)
LEMMA SizeIsExact ==
  ASSUME NEW num \in Seq(0 .. 255), NEW n, n = large_number_bits(num)
  PROVE  NumberOf(num) < PowerOf2(n) /\ (n > 0 => NumberOf(num) >= PowerOf2(n - 1))
<1> DEFINE N == Len(num)
           m == 8 * N
<1>1. N \in Nat /\ m \in Nat
  OBVIOUS
<1>2. \A k \in 1 .. N : num[k] \in 0 .. 255
  BY ElementOfSeq
<1> HIDE DEF N
<1>3. PICK v \in [0 .. N -> Nat] :
        /\ v[0] = 0 /\ \A k \in 1 .. N : v[k] = 256 * v[k - 1] + num[k]
        /\ NumberOf(num) = v[N]
  BY NumberIs DEF N
<1>4. PICK p \in [0 .. m -> Nat] :
        /\ p[0] = 1 /\ \A k \in 1 .. m : p[k] = 2 * p[k - 1]
        /\ \A k \in 0 .. m : PowerOf2(k) = p[k]
  BY <1>1, PowerIs
<1>4a. Powers(p, m)
  BY <1>4 DEF Powers
<1> DEFINE S == {k \in 0 .. N : \E t : Top(num, k, t, v[k], p)}
<1>5. 0 \in S
  <2>1. Top(num, 0, 0, v[0], p)
    BY <1>3, <1>4 DEF Top
  <2>2. 0 \in 0 .. N
    BY <1>1
  <2> QED
    BY <2>1, <2>2
<1>6. ASSUME NEW k \in 1 .. N, k - 1 \in S
      PROVE  k \in S
  <2>1. PICK t : Top(num, k - 1, t, v[k - 1], p)
    BY <1>6
  <2>2. /\ k \in Nat \ {0} /\ num[k] \in 0 .. 255 /\ v[k - 1] \in Nat /\ m >= 8 * k
        /\ k \in 0 .. N
    BY <1>1, <1>2
  <2> HIDE DEF m
  <2>3. \E tt : Top(num, k, tt, 256 * v[k - 1] + num[k], p)
    BY <1>1, <1>4a, <2>1, <2>2, TopNext
  <2>4. v[k] = 256 * v[k - 1] + num[k]
    BY <1>3
  <2> QED
    BY <2>2, <2>3, <2>4
<1> HIDE DEF S
<1>7. \A k \in 0 .. N : k \in S
  BY <1>1, <1>5, <1>6, UpTo
<1>8. N \in S
  BY <1>1, <1>7
<1>9. PICK t : Top(num, N, t, v[N], p)
  BY <1>8 DEF S
<1>10. t \in 0 .. m
  BY <1>9 DEF Top
<1>11. n = t
  <2>1. /\ t > 0 => Bit(num, m - t) = 1
        /\ \A i \in 0 .. m - t - 1 : Bit(num, i) = 0
    BY <1>9 DEF Top
  <2> QED
    BY <1>1, <1>10, <2>1, LoopIs DEF N
<1>12. v[N] < p[t] /\ (t > 0 => v[N] >= p[t - 1])
  BY <1>9 DEF Top
<1>13. PowerOf2(t) = p[t] /\ (t > 0 => PowerOf2(t - 1) = p[t - 1])
  <2>1. t > 0 => t - 1 \in 0 .. m
    BY <1>1, <1>10
  <2> QED
    BY <1>4, <1>10, <2>1
<1> QED
  BY <1>3, <1>11, <1>12, <1>13

-----------------------------------------------------------------------------
(* The part of the file which is decoded. *)

(* t is the part of s between places a and b, a excluded.                  *)
IsPart(t, s, a, b) ==
  /\ a \in Nat /\ b \in Nat /\ a <= b /\ b <= Len(s) /\ Len(t) = b - a
  /\ \A i \in 1 .. b - a : t[i] = s[a + i]

(* A part of a part of a sequence is a part of it.                         *)
LEMMA PartOfPart ==
  ASSUME NEW s, NEW t, NEW u, Len(s) \in Nat, NEW a, NEW b, NEW c, NEW d,
         IsPart(t, s, a, b), IsPart(u, t, c, d)
  PROVE  IsPart(u, s, a + c, a + d)
<1>1. /\ a \in Nat /\ b \in Nat /\ a <= b /\ b <= Len(s) /\ Len(t) = b - a
      /\ c \in Nat /\ d \in Nat /\ c <= d /\ d <= b - a /\ Len(u) = d - c
  BY DEF IsPart
<1>2. a + c \in Nat /\ a + d \in Nat /\ a + c <= a + d /\ a + d <= Len(s) /\ Len(u) = a + d - (a + c)
  BY <1>1
<1>3. ASSUME NEW i \in 1 .. a + d - (a + c)
      PROVE  u[i] = s[a + c + i]
  <2>1. i \in 1 .. d - c /\ c + i \in 1 .. b - a /\ a + (c + i) = a + c + i
    BY <1>1
  <2>2. u[i] = t[c + i]
    BY <2>1 DEF IsPart
  <2>3. t[c + i] = s[a + (c + i)]
    BY <2>1 DEF IsPart
  <2> QED
    BY <2>1, <2>2, <2>3
<1> QED
  BY <1>2, <1>3 DEF IsPart

(* All of a sequence, and nothing of it.                                   *)
LEMMA WholeIsPart ==
  ASSUME NEW T, NEW s \in Seq(T)
  PROVE  IsPart(s, s, 0, Len(s)) /\ IsPart(<<>>, s, Len(s), Len(s))
<1>1. Len(s) \in Nat /\ Len(<<>>) = 0
  OBVIOUS
<1>2. \A i \in 1 .. Len(s) - 0 : s[i] = s[0 + i]
  OBVIOUS
<1>3. \A i \in 1 .. Len(s) - Len(s) : FALSE
  BY <1>1
<1> QED
  BY <1>1, <1>2, <1>3 DEF IsPart

(* What is left once the first characters are dropped: from the first one  *)
(* which is kept.                                                          *)
LEMMA RestIsPart ==
  ASSUME NEW T, NEW s \in Seq(T), NEW kept, kept \subseteq 1 .. Len(s),
         NEW rest, rest = IF kept = {} THEN <<>> ELSE SubSeq(s, Min(kept), Len(s))
  PROVE  /\ kept = {} => IsPart(rest, s, Len(s), Len(s))
         /\ kept # {} => \E m \in kept : /\ \A y \in kept : m <= y
                                         /\ IsPart(rest, s, m - 1, Len(s))
<1>1. CASE kept = {}
  BY <1>1, WholeIsPart
<1>2. CASE kept # {}
  <2>1. kept \subseteq Nat /\ Len(s) \in Nat
    OBVIOUS
  <2>2. PICK m : m = Min(kept)
    OBVIOUS
  <2>3. m \in kept /\ \A y \in kept : m <= y
    BY <1>2, <2>1, <2>2, LeastNat
  <2>4. rest = SubSeq(s, m, Len(s))
    BY <1>2, <2>2
  <2>5. m \in Int /\ m \in 1 .. Len(s)
    BY <2>3
  <2>6. \A i \in m .. Len(s) : s[i] \in T
    <3>1. \A i \in m .. Len(s) : i \in 1 .. Len(s)
      BY <2>1, <2>5
    <3> QED
      BY <3>1, ElementOfSeq
  <2> DEFINE part == SubSeq(s, m, Len(s))
  <2>7. /\ Len(part) = IF m <= Len(s) THEN Len(s) - m + 1 ELSE 0
        /\ \A i \in 1 .. Len(s) - m + 1 : part[i] = s[m + i - 1]
    <3>1. Len(s) \in Int
      OBVIOUS
    <3> QED
      BY <2>5, <2>6, <3>1, SubSeqProperties
  <2>7a. part = rest
    BY <2>4
  <2> HIDE DEF part
  <2>8. IsPart(rest, s, m - 1, Len(s))
    <3>1. /\ m - 1 \in Nat /\ m - 1 <= Len(s) /\ m <= Len(s) /\ Len(s) \in Nat
          /\ Len(s) - (m - 1) = Len(s) - m + 1
      BY <2>1, <2>5
    <3>3. Len(part) = Len(s) - (m - 1)
      BY <2>7, <3>1
    <3>2. \A i \in 1 .. Len(s) - m + 1 : m - 1 + i = m + i - 1
      BY <2>5
    <3>4. \A i \in 1 .. Len(s) - (m - 1) : part[i] = s[m - 1 + i]
      BY <2>7, <3>1, <3>2
    <3>5. Len(s) <= Len(s)
      BY <3>1
    <3>6. IsPart(part, s, m - 1, Len(s))
      BY <3>1, <3>3, <3>4, <3>5, Zenon DEF IsPart
    <3> QED
      BY <2>7a, <3>6
  <2> QED
    BY <1>2, <2>3, <2>8
<1> QED
  BY <1>1, <1>2

(* The end of a reversed sequence, reversed, is its beginning.             *)
LEMMA ReversedPart ==
  ASSUME NEW T, NEW s \in Seq(T), NEW t \in Seq(T), NEW a, IsPart(t, Reverse(s), a, Len(s))
  PROVE  IsPart(Reverse(t), s, 0, Len(s) - a)
<1> DEFINE N == Len(s)
<1>1. N \in Nat
  OBVIOUS
<1>2. Reverse(s) = [i \in 1 .. N |-> s[(N - i) + 1]]
  BY DEF Reverse
<1>3. Len(Reverse(s)) = N /\ \A i \in 1 .. N : Reverse(s)[i] = s[(N - i) + 1]
  BY <1>1, <1>2
<1> HIDE DEF N
<1>4. a \in Nat /\ a <= N /\ Len(t) = N - a /\ \A i \in 1 .. N - a : t[i] = Reverse(s)[a + i]
  BY DEF IsPart, N
<1>5. Reverse(t) = [i \in 1 .. Len(t) |-> t[(Len(t) - i) + 1]]
  BY DEF Reverse
<1>6. N - a \in Nat /\ Len(Reverse(t)) = N - a /\ \A i \in 1 .. N - a : Reverse(t)[i] = t[(N - a - i) + 1]
  BY <1>1, <1>4, <1>5
<1>7. ASSUME NEW i \in 1 .. N - a
      PROVE  Reverse(t)[i] = s[0 + i]
  <2>1. PICK j : j = (N - a - i) + 1
    OBVIOUS
  <2>2. j \in 1 .. N - a /\ a + j \in 1 .. N /\ (N - (a + j)) + 1 = 0 + i
    BY <1>1, <1>4, <2>1
  <2>3. t[j] = Reverse(s)[a + j]
    BY <1>4, <2>2
  <2>4. Reverse(s)[a + j] = s[(N - (a + j)) + 1]
    BY <1>3, <2>2
  <2> QED
    BY <1>6, <2>1, <2>2, <2>3, <2>4
<1>8. N - a - 0 = N - a
  BY <1>6
<1> QED
  BY <1>1, <1>4, <1>6, <1>7, <1>8 DEF IsPart, N

(* Dropping lines and spaces leaves the end of a sequence, whatever is in  *)
(* it; a first line alone, when there is one after two dashes.             *)
LEMMA DroppedIs ==
  ASSUME NEW T, NEW s \in Seq(T)
  PROVE  \E a : IsPart(DropWhile(s, IsSpace), s, a, Len(s))
<1> DEFINE kept == {i \in 1 .. Len(s) : ~ IsSpace(s[i])}
           rest == IF kept = {} THEN <<>> ELSE SubSeq(s, Min(kept), Len(s))
<1>1. DropWhile(s, IsSpace) = rest
  BY DEF DropWhile
<1>2. kept \subseteq 1 .. Len(s)
  OBVIOUS
<1> HIDE DEF kept
<1>3. \E a : IsPart(rest, s, a, Len(s))
  BY <1>2, RestIsPart
<1> QED
  BY <1>1, <1>3

(* What the loop of sys.cpp:312-335 leaves of one end is a part of it.     *)
LEMMA WithoutDashesPart ==
  ASSUME NEW T, NEW s \in Seq(T)
  PROVE  \E a : IsPart(WithoutDashes(s), s, a, Len(s))
<1> DEFINE kept == {i \in 1 .. Len(s) : ~ (s[i] # Newline)}
           first == IF kept = {} THEN <<>> ELSE SubSeq(s, Min(kept), Len(s))
<1>1. kept \subseteq 1 .. Len(s)
  OBVIOUS
<1>2. DropWhile(s, LAMBDA c : c # Newline) = first
  BY DEF DropWhile
<1> HIDE DEF kept
<1>3. first \in Seq(T)
  BY <1>1, RestIs
<1>4. PICK a : IsPart(first, s, a, Len(s))
  BY <1>1, RestIsPart
<1> HIDE DEF first
<1>5. PICK b : IsPart(DropWhile(first, IsSpace), first, b, Len(first))
  BY <1>3, DroppedIs
<1>6. Len(s) \in Nat
  OBVIOUS
<1>7. IsPart(DropWhile(first, IsSpace), s, a + b, a + Len(first))
  BY <1>4, <1>5, <1>6, PartOfPart
<1>8. a + Len(first) = Len(s)
  BY <1>4, <1>6 DEF IsPart
<1>9. WithoutDashes(s) = s \/ WithoutDashes(s) = DropWhile(first, IsSpace)
  BY <1>2 DEF WithoutDashes
<1> QED
  BY <1>7, <1>8, <1>9, WholeIsPart

(* The first line of the file is dropped when the file has one; when it is *)
(* cut in that line, it is dropped altogether, or decoded as it is.        *)
LEMMA HeaderDropped ==
  ASSUME NEW der, NEW pem \in Seq(0 .. 255), StartsPemFile(der, pem)
  PROVE  \E a : /\ IsPart(WithoutDashes(pem), pem, a, Len(pem))
                /\ \/ a = 0 \/ a = Len(pem)
                   \/ a \in 1 .. Len(pem) /\ IsFirstLine(pem, a)
<1>1. CASE ~ (Len(pem) > 5)
  <2>1. WithoutDashes(pem) = pem
    BY <1>1 DEF WithoutDashes
  <2> QED
    BY <2>1, WholeIsPart
<1>2. CASE Len(pem) > 5
  <2> DEFINE kept == {i \in 1 .. Len(pem) : ~ (pem[i] # Newline)}
             first == IF kept = {} THEN <<>> ELSE SubSeq(pem, Min(kept), Len(pem))
             text == {i \in 1 .. Len(first) : ~ IsSpace(first[i])}
             rest == IF text = {} THEN <<>> ELSE SubSeq(first, Min(text), Len(first))
  <2>1. Len(pem) \in Nat /\ 1 \in 1 .. Len(pem) /\ 2 \in 1 .. Len(pem)
    BY <1>2
  <2>2. pem[1] = Dash /\ pem[2] = Dash
    BY <2>1 DEF StartsPemFile
  <2>3. WithoutDashes(pem) = rest
    <3>1. DropWhile(pem, LAMBDA c : c # Newline) = first
      BY DEF DropWhile
    <3>2. DropWhile(first, IsSpace) = rest
      BY DEF DropWhile
    <3> HIDE DEF first, rest
    <3> QED
      BY <1>2, <2>2, <3>1, <3>2 DEF WithoutDashes
  <2>4. kept \subseteq 1 .. Len(pem) /\ \A i \in kept : pem[i] = Newline
    OBVIOUS
  <2>5. \A i \in 1 .. Len(pem) : pem[i] = Newline => i \in kept
    OBVIOUS
  <2> HIDE DEF kept
  <2>6. first \in Seq(0 .. 255)
    BY <2>4, RestIs
  <2>7. text \subseteq 1 .. Len(first) /\ \A i \in text : ~ IsSpace(first[i])
    OBVIOUS
  <2>8. \A i \in 1 .. Len(first) : ~ IsSpace(first[i]) => i \in text
    OBVIOUS
  <2>9. /\ kept = {} => IsPart(first, pem, Len(pem), Len(pem))
        /\ kept # {} => \E m \in kept : /\ \A y \in kept : m <= y
                                        /\ IsPart(first, pem, m - 1, Len(pem))
    BY <2>4, RestIsPart
  <2> HIDE DEF first, text
  <2>10. /\ text = {} => IsPart(rest, first, Len(first), Len(first))
         /\ text # {} => \E m \in text : /\ \A y \in text : m <= y
                                         /\ IsPart(rest, first, m - 1, Len(first))
    BY <2>6, <2>7, RestIsPart
  <2> HIDE DEF rest
  <2>11. ASSUME NEW b, IsPart(first, pem, b, Len(pem)), text = {}
         PROVE  IsPart(rest, pem, Len(pem), Len(pem))
    <3>1. IsPart(rest, pem, b + Len(first), b + Len(first))
      BY <2>1, <2>10, <2>11, PartOfPart
    <3>2. b + Len(first) = Len(pem)
      BY <2>1, <2>11 DEF IsPart
    <3> QED
      BY <3>1, <3>2
  <2>12. CASE kept = {}
    <3>1. Len(first) = 0
      BY <2>1, <2>9, <2>12 DEF IsPart
    <3>2. text = {}
      BY <2>7, <3>1
    <3> QED
      BY <2>3, <2>9, <2>11, <2>12, <3>2
  <2>13. CASE kept # {}
    <3>1. PICK h \in kept : (\A y \in kept : h <= y) /\ IsPart(first, pem, h - 1, Len(pem))
      BY <2>9, <2>13
    <3>2. h \in 1 .. Len(pem) /\ pem[h] = Newline
      BY <2>4
    <3>3. IsFirstLine(pem, h)
      <4>1. ASSUME NEW i \in 1 .. h - 1, pem[i] = Newline
            PROVE  FALSE
        <5>1. i \in 1 .. Len(pem) /\ ~ (h <= i)
          BY <2>1, <3>2
        <5> QED
          BY <2>5, <3>1, <4>1, <5>1
      <4> QED
        BY <3>2, <4>1 DEF IsFirstLine
    <3>4. /\ Len(first) = Len(pem) - (h - 1) /\ 1 \in 1 .. Len(first)
          /\ \A i \in 1 .. Len(first) : first[i] = pem[h - 1 + i]
      <4>1. Len(first) = Len(pem) - (h - 1) /\ \A i \in 1 .. Len(pem) - (h - 1) : first[i] = pem[h - 1 + i]
        BY <3>1 DEF IsPart
      <4>2. 1 \in 1 .. Len(pem) - (h - 1)
        BY <2>1, <3>2
      <4> QED
        BY <4>1, <4>2
    <3>5. 1 \notin text
      <4>1. first[1] = pem[h - 1 + 1] /\ h - 1 + 1 = h
        BY <3>2, <3>4
      <4>2. IsSpace(first[1])
        BY <3>2, <4>1 DEF IsSpace, Newline
      <4> QED
        BY <2>7, <4>2
    <3>6. CASE text = {}
      BY <2>3, <2>11, <3>1, <3>6
    <3>7. CASE text # {}
      <4>1. PICK m \in text : (\A y \in text : m <= y) /\ IsPart(rest, first, m - 1, Len(first))
        BY <2>10, <3>7
      <4>2. m \in 1 .. Len(first) /\ m # 1
        BY <2>7, <3>5
      <4>3. h < Len(pem) /\ 2 \in 1 .. Len(first)
        BY <2>1, <3>2, <3>4, <4>2
      <4>4. ~ IsSpace(pem[h + 1])
        BY <3>2, <3>3, <4>3 DEF StartsPemFile
      <4>5. first[2] = pem[h + 1]
        <5>1. h - 1 + 2 = h + 1
          BY <3>2
        <5> QED
          BY <3>4, <4>3, <5>1
      <4>6. 2 \in text
        BY <2>8, <4>3, <4>4, <4>5
      <4>7. m = 2
        <5>1. m <= 2
          BY <4>1, <4>6
        <5> QED
          BY <2>1, <3>2, <3>4, <4>2, <5>1
      <4>8. IsPart(rest, first, 1, Len(first))
        BY <4>1, <4>7
      <4>9. IsPart(rest, pem, h - 1 + 1, h - 1 + Len(first))
        BY <2>1, <3>1, <4>8, PartOfPart
      <4>10. h - 1 + 1 = h /\ h - 1 + Len(first) = Len(pem)
        BY <2>1, <3>2, <3>4
      <4> QED
        BY <2>3, <3>2, <3>3, <4>9, <4>10
    <3> QED
      BY <3>6, <3>7
  <2> QED
    BY <2>12, <2>13
<1> QED
  BY <1>1, <1>2

(* What is decoded starts with the file, or after its first line.          *)
LEMMA DecodedPart ==
  ASSUME NEW der, NEW pem \in Seq(0 .. 255), StartsPemFile(der, pem)
  PROVE  \E a, q : /\ IsPart(Base64Part(pem), pem, a, q)
                   /\ \/ a = 0 \/ a = q
                      \/ a \in 1 .. Len(pem) /\ IsFirstLine(pem, a)
<1> DEFINE body == WithoutDashes(pem)
           turned == Reverse(body)
           trimmed == DropWhile(turned, IsSpace)
           last == WithoutDashes(trimmed)
<1>1. body \in Seq(0 .. 255)
  BY WithoutDashesIs
<1>2. PICK a : /\ IsPart(body, pem, a, Len(pem))
               /\ \/ a = 0 \/ a = Len(pem)
                  \/ a \in 1 .. Len(pem) /\ IsFirstLine(pem, a)
  BY HeaderDropped
<1> HIDE DEF body
<1>3. turned \in Seq(0 .. 255) /\ Len(turned) = Len(body)
  <2>1. turned \in Seq(0 .. 255)
    BY <1>1, ReverseIs
  <2>2. Len(turned) = Len(body)
    BY <1>1 DEF Reverse
  <2> QED
    BY <2>1, <2>2
<1>4. trimmed \in Seq(0 .. 255)
  <2> HIDE DEF turned
  <2> QED
    BY <1>3, RestIs DEF DropWhile
<1>5. PICK b : IsPart(trimmed, turned, b, Len(turned))
  <2> HIDE DEF turned
  <2> QED
    BY <1>3, DroppedIs
<1> HIDE DEF trimmed
<1>6. PICK c : IsPart(last, trimmed, c, Len(trimmed))
  BY <1>4, WithoutDashesPart
<1>7. last \in Seq(0 .. 255)
  BY <1>4, WithoutDashesIs
<1> HIDE DEF last
<1>8. IsPart(last, turned, b + c, b + Len(trimmed)) /\ b + Len(trimmed) = Len(body)
  <2>1. Len(turned) \in Nat /\ Len(trimmed) \in Nat
    BY <1>3, <1>4
  <2> HIDE DEF turned
  <2>2. IsPart(last, turned, b + c, b + Len(trimmed))
    BY <1>5, <1>6, <2>1, PartOfPart
  <2>3. b + Len(trimmed) = Len(turned)
    BY <1>5, <2>1 DEF IsPart
  <2> QED
    BY <1>3, <2>2, <2>3
<1>9. IsPart(Reverse(last), body, 0, Len(body) - (b + c))
  BY <1>1, <1>7, <1>8, ReversedPart
<1>10. Base64Part(pem) = Reverse(last)
  BY DEF Base64Part, last, trimmed, body
<1> DEFINE q == a + (Len(body) - (b + c))
<1>11. IsPart(Reverse(last), pem, a + 0, q)
  <2>1. Len(pem) \in Nat
    OBVIOUS
  <2> QED
    BY <1>2, <1>9, <2>1, PartOfPart
<1>12. a + 0 = a /\ (a = Len(pem) => a = q)
  <2>1. Len(pem) \in Nat
    OBVIOUS
  <2>2. a \in Nat /\ q \in Nat /\ a + 0 <= q /\ q <= Len(pem)
    BY <1>2, <1>11 DEF IsPart
  <2> HIDE DEF q
  <2> QED
    BY <2>1, <2>2
<1> HIDE DEF q
<1>13. IsPart(Base64Part(pem), pem, a, q)
  BY <1>10, <1>11, <1>12
<1> QED
  BY <1>2, <1>12, <1>13

-----------------------------------------------------------------------------
(* Base64, one group of characters. *)

(* A character of the alphabet is read as what it stands for.              *)
LEMMA AlphabetIs ==
  ASSUME NEW v \in 0 .. 63
  PROVE  /\ base64_to_integer(Alphabet(v)) = v
         /\ Alphabet(v) # Equal /\ Alphabet(v) # Dash /\ ~ IsSpace(Alphabet(v))
<1>1. CASE v < 26
  <2>1. Alphabet(v) = 65 + v
    BY <1>1 DEF Alphabet
  <2>2. 65 + v \in 65 .. 90
    BY <1>1
  <2>3. base64_to_integer(65 + v) = 65 + v - 65
    <3>1. \A x \in 65 .. 90 : x \notin (97 .. 122) /\ x \notin (48 .. 57) /\ x # 43 /\ x # 47
      OBVIOUS
    <3>2. PICK x : x = 65 + v
      OBVIOUS
    <3>3. x \in 65 .. 90 /\ x \notin (97 .. 122) /\ x \notin (48 .. 57) /\ x # 43 /\ x # 47
      BY <2>2, <3>1, <3>2
    <3>4. base64_to_integer(x) = x - 65
      BY <3>3, Zenon DEF base64_to_integer
    <3> QED
      BY <3>2, <3>4
  <2> QED
    BY <1>1, <2>1, <2>2, <2>3 DEF Equal, Dash, IsSpace
<1>2. CASE v \in 26 .. 51
  <2>1. Alphabet(v) = 97 + v - 26
    <3>1. ~ (v < 26) /\ v \notin (52 .. 61) /\ v # 62 /\ v # 63
      BY <1>2
    <3> QED
      BY <1>2, <3>1, Zenon DEF Alphabet
  <2>2. 97 + v - 26 \in 97 .. 122
    BY <1>2
  <2>3. base64_to_integer(97 + v - 26) = 97 + v - 26 - 97 + 26
    <3>1. \A x \in 97 .. 122 : x \notin (65 .. 90) /\ x \notin (48 .. 57) /\ x # 43 /\ x # 47
      OBVIOUS
    <3>2. PICK x : x = 97 + v - 26
      OBVIOUS
    <3>3. x \in 97 .. 122 /\ x \notin (65 .. 90) /\ x \notin (48 .. 57) /\ x # 43 /\ x # 47
      BY <2>2, <3>1, <3>2
    <3>4. base64_to_integer(x) = x - 97 + 26
      BY <3>3, Zenon DEF base64_to_integer
    <3> QED
      BY <3>2, <3>4
  <2> QED
    BY <1>2, <2>1, <2>2, <2>3 DEF Equal, Dash, IsSpace
<1>3. CASE v \in 52 .. 61
  <2>1. Alphabet(v) = 48 + v - 52
    <3>1. ~ (v < 26) /\ v \notin (26 .. 51) /\ v # 62 /\ v # 63
      BY <1>3
    <3> QED
      BY <1>3, <3>1, Zenon DEF Alphabet
  <2>2. 48 + v - 52 \in 48 .. 57
    BY <1>3
  <2>3. base64_to_integer(48 + v - 52) = 48 + v - 52 - 48 + 52
    <3>1. \A x \in 48 .. 57 : x \notin (65 .. 90) /\ x \notin (97 .. 122) /\ x # 43 /\ x # 47
      OBVIOUS
    <3>2. PICK x : x = 48 + v - 52
      OBVIOUS
    <3>3. x \in 48 .. 57 /\ x \notin (97 .. 122) /\ x \notin (65 .. 90) /\ x # 43 /\ x # 47
      BY <2>2, <3>1, <3>2
    <3>4. base64_to_integer(x) = x - 48 + 52
      BY <3>3, SMT DEF base64_to_integer
    <3> QED
      BY <3>2, <3>4
  <2> QED
    BY <1>3, <2>1, <2>2, <2>3 DEF Equal, Dash, IsSpace
<1>4. CASE v = 62
  BY <1>4 DEF Alphabet, base64_to_integer, Equal, Dash, IsSpace
<1>5. CASE v = 63
  BY <1>5 DEF Alphabet, base64_to_integer, Equal, Dash, IsSpace
<1> QED
  BY <1>1, <1>2, <1>3, <1>4, <1>5

(* A group of up to three bytes, as the four values of its characters.     *)
Sextet(a, b, c, k) == (((a * 256 + b) * 256 + c) \div Sextets[k]) % 64

(* The first value has six bits of the first byte.                         *)
LEMMA Sextet1 ==
  ASSUME NEW a \in 0 .. 255, NEW b \in 0 .. 255, NEW c \in 0 .. 255
  PROVE  Sextet(a, b, c, 1) = a \div 4
<1>1. Sextets[1] = 262144
  BY DEF Sextets
<1>2. (((a * 256 + b) * 256 + c) \div 262144) % 64 = a \div 4
  OBVIOUS
<1> QED
  BY <1>1, <1>2 DEF Sextet

(* The second value has two bits of the first byte and four of the second. *)
LEMMA Sextet2 ==
  ASSUME NEW a \in 0 .. 255, NEW b \in 0 .. 255, NEW c \in 0 .. 255
  PROVE  Sextet(a, b, c, 2) = (a % 4) * 16 + (b \div 16)
<1>1. Sextets[2] = 4096
  BY DEF Sextets
<1>2. (((a * 256 + b) * 256 + c) \div 4096) % 64 = (a % 4) * 16 + (b \div 16)
  OBVIOUS
<1> QED
  BY <1>1, <1>2 DEF Sextet

(* The third value has four bits of the second byte and two of the third.  *)
LEMMA Sextet3 ==
  ASSUME NEW a \in 0 .. 255, NEW b \in 0 .. 255, NEW c \in 0 .. 255
  PROVE  Sextet(a, b, c, 3) = (b % 16) * 4 + (c \div 64)
<1>1. Sextets[3] = 64
  BY DEF Sextets
<1>2. (((a * 256 + b) * 256 + c) \div 64) % 64 = (b % 16) * 4 + (c \div 64)
  OBVIOUS
<1> QED
  BY <1>1, <1>2 DEF Sextet

(* The fourth value has six bits of the third byte.                        *)
LEMMA Sextet4 ==
  ASSUME NEW a \in 0 .. 255, NEW b \in 0 .. 255, NEW c \in 0 .. 255
  PROVE  Sextet(a, b, c, 4) = c % 64
<1>1. Sextets[4] = 1
  BY DEF Sextets
<1>2. (((a * 256 + b) * 256 + c) \div 1) % 64 = c % 64
  OBVIOUS
<1> QED
  BY <1>1, <1>2 DEF Sextet

(* The four values have a character each.                                  *)
LEMMA SextetsFit ==
  ASSUME NEW a \in 0 .. 255, NEW b \in 0 .. 255, NEW c \in 0 .. 255
  PROVE  \A k \in 1 .. 4 : Sextet(a, b, c, k) \in 0 .. 63
<1>1. a \div 4 \in 0 .. 63
  OBVIOUS
<1>2. (a % 4) * 16 + (b \div 16) \in 0 .. 63
  OBVIOUS
<1>3. (b % 16) * 4 + (c \div 64) \in 0 .. 63
  OBVIOUS
<1>4. c % 64 \in 0 .. 63
  OBVIOUS
<1>5. Sextet(a, b, c, 1) \in 0 .. 63
  <2>1. Sextet(a, b, c, 1) = a \div 4
    BY Sextet1
  <2> QED
    BY <1>1, <2>1, Zenon
<1>6. Sextet(a, b, c, 2) \in 0 .. 63
  <2>1. Sextet(a, b, c, 2) = (a % 4) * 16 + (b \div 16)
    BY Sextet2
  <2> QED
    BY <1>2, <2>1, Zenon
<1>7. Sextet(a, b, c, 3) \in 0 .. 63
  <2>1. Sextet(a, b, c, 3) = (b % 16) * 4 + (c \div 64)
    BY Sextet3
  <2> QED
    BY <1>3, <2>1, Zenon
<1>8. Sextet(a, b, c, 4) \in 0 .. 63
  <2>1. Sextet(a, b, c, 4) = c % 64
    BY Sextet4
  <2> QED
    BY <1>4, <2>1, Zenon
<1>9. \A k \in 1 .. 4 : k = 1 \/ k = 2 \/ k = 3 \/ k = 4
  OBVIOUS
<1> QED
  BY <1>5, <1>6, <1>7, <1>8, <1>9, Zenon

(* A byte of the group, as base64_update() makes it of two characters.     *)
Merged(x, y, i) == ((x * Left[i]) % 256) + (y \div Right[i])

(* The first two values give the first byte back.                          *)
LEMMA FirstByte ==
  ASSUME NEW a \in 0 .. 255, NEW b \in 0 .. 255, NEW c \in 0 .. 255
  PROVE  Merged(Sextet(a, b, c, 1), Sextet(a, b, c, 2), 1) = a
<1>1. Left[1] = 4 /\ Right[1] = 16
  BY DEF Left, Right
<1>2. (((a \div 4) * 4) % 256) + (((a % 4) * 16 + (b \div 16)) \div 16) = a
  OBVIOUS
<1>3. Merged(a \div 4, (a % 4) * 16 + (b \div 16), 1) = a
  BY <1>1, <1>2 DEF Merged
<1>4. Sextet(a, b, c, 1) = a \div 4
  BY Sextet1
<1>5. Sextet(a, b, c, 2) = (a % 4) * 16 + (b \div 16)
  BY Sextet2
<1> QED
  BY <1>3, <1>4, <1>5, Zenon

(* The second byte comes back from the second and third values.            *)
LEMMA SecondByte ==
  ASSUME NEW a \in 0 .. 255, NEW b \in 0 .. 255, NEW c \in 0 .. 255
  PROVE  Merged(Sextet(a, b, c, 2), Sextet(a, b, c, 3), 2) = b
<1>1. Left[2] = 16 /\ Right[2] = 4
  BY DEF Left, Right
<1>2. ((((a % 4) * 16 + (b \div 16)) * 16) % 256) + (((b % 16) * 4 + (c \div 64)) \div 4) = b
  OBVIOUS
<1>3. Merged((a % 4) * 16 + (b \div 16), (b % 16) * 4 + (c \div 64), 2) = b
  BY <1>1, <1>2 DEF Merged
<1>4. Sextet(a, b, c, 2) = (a % 4) * 16 + (b \div 16)
  BY Sextet2
<1>5. Sextet(a, b, c, 3) = (b % 16) * 4 + (c \div 64)
  BY Sextet3
<1> QED
  BY <1>3, <1>4, <1>5, Zenon

(* The third byte comes back from the last two values.                     *)
LEMMA ThirdByte ==
  ASSUME NEW a \in 0 .. 255, NEW b \in 0 .. 255, NEW c \in 0 .. 255
  PROVE  Merged(Sextet(a, b, c, 3), Sextet(a, b, c, 4), 3) = c
<1>1. Left[3] = 64 /\ Right[3] = 1
  BY DEF Left, Right
<1>2. ((((b % 16) * 4 + (c \div 64)) * 64) % 256) + ((c % 64) \div 1) = c
  OBVIOUS
<1>3. Merged((b % 16) * 4 + (c \div 64), c % 64, 3) = c
  BY <1>1, <1>2 DEF Merged
<1>4. Sextet(a, b, c, 3) = (b % 16) * 4 + (c \div 64)
  BY Sextet3
<1>5. Sextet(a, b, c, 4) = c % 64
  BY Sextet4
<1> QED
  BY <1>3, <1>4, <1>5, Zenon

(* The group of characters for the bytes after the 3 * g first ones.       *)
ByteAt(der, i) == IF i <= Len(der) THEN der[i] ELSE 0
CharAt(der, g, k) ==
  IF 3 * g + k > Len(der) + 1 THEN Equal
  ELSE Alphabet(Sextet(ByteAt(der, 3 * g + 1), ByteAt(der, 3 * g + 2), ByteAt(der, 3 * g + 3), k))

(* The text of a key, character by character.                              *)
LEMMA EncodedIs ==
  ASSUME NEW der \in Seq(0 .. 255)
  PROVE  /\ Len(Encoded(der)) = 4 * ((Len(der) + 2) \div 3)
         /\ \A g \in Nat, k \in 1 .. 4 : 4 * g + k <= Len(Encoded(der)) =>
              Encoded(der)[4 * g + k] = CharAt(der, g, k)
<1> DEFINE n == Len(der)
           M == 4 * ((n + 2) \div 3)
           At(i) == IF i <= n THEN der[i] ELSE 0
           Value(g) == (At(3 * g + 1) * 256 + At(3 * g + 2)) * 256 + At(3 * g + 3)
           Char(g, p) == IF 3 * g + p > n + 1 THEN Equal ELSE Alphabet((Value(g) \div Sextets[p]) % 64)
<1>1. Encoded(der) = [j \in 1 .. M |-> Char((j - 1) \div 4, ((j - 1) % 4) + 1)]
  BY Zenon DEF Encoded
<1>2. n \in Nat /\ M \in Nat
  <2>1. n \in Nat
    OBVIOUS
  <2> HIDE DEF n
  <2> QED
    BY <2>1
<1>3. \A g, k : Char(g, k) = CharAt(der, g, k)
  BY Zenon DEF CharAt, Sextet, ByteAt
<1> HIDE DEF Char, M
<1>4. Len(Encoded(der)) = M /\ \A j \in 1 .. M : Encoded(der)[j] = Char((j - 1) \div 4, ((j - 1) % 4) + 1)
  BY <1>1, <1>2
<1>5. ASSUME NEW g \in Nat, NEW k \in 1 .. 4, 4 * g + k <= M
      PROVE  Encoded(der)[4 * g + k] = CharAt(der, g, k)
  <2>1. PICK j : j = 4 * g + k
    OBVIOUS
  <2>2. j \in 1 .. M /\ (j - 1) \div 4 = g /\ ((j - 1) % 4) + 1 = k
    BY <1>2, <1>5, <2>1
  <2>3. Encoded(der)[j] = Char(g, k)
    BY <1>4, <2>2
  <2> QED
    BY <1>3, <2>1, <2>3
<1> QED
  BY <1>4, <1>5 DEF M

(* What base64_update() makes of a group, or of its first characters: the  *)
(* bytes of the group, all of them when it has all of its characters.      *)
LEMMA GroupIs ==
  ASSUME NEW der \in Seq(0 .. 255), NEW g \in Nat, 3 * g < Len(der),
         NEW size \in 0 .. 4, NEW buf, Len(buf) = size,
         \A k \in 1 .. size : buf[k] = CharAt(der, g, k)
  PROVE  \E e : /\ IsPart(BytesOf(buf), der, 3 * g, e)
                /\ e <= 3 * g + 3 /\ (size = 4 => e = 3 * g + 3 \/ e = Len(der))
<1> DEFINE L == Len(der)
           a == ByteAt(der, 3 * g + 1)
           b == ByteAt(der, 3 * g + 2)
           c == ByteAt(der, 3 * g + 3)
<1>1. L \in Nat /\ \A i \in 1 .. L : der[i] \in 0 .. 255
  <2>1. \A i \in 1 .. L : der[i] \in 0 .. 255
    BY ElementOfSeq
  <2>2. L \in Nat
    OBVIOUS
  <2> QED
    BY <2>1, <2>2
<1>2. a \in 0 .. 255 /\ b \in 0 .. 255 /\ c \in 0 .. 255
  <2>1. \A i \in Nat \ {0} : ByteAt(der, i) \in 0 .. 255
    BY <1>1 DEF ByteAt
  <2>2. 3 * g + 1 \in Nat \ {0} /\ 3 * g + 2 \in Nat \ {0} /\ 3 * g + 3 \in Nat \ {0}
    OBVIOUS
  <2> QED
    BY <2>1, <2>2
<1>3. a = der[3 * g + 1] /\ (3 * g + 2 <= L => b = der[3 * g + 2]) /\ (3 * g + 3 <= L => c = der[3 * g + 3])
  <2>1. 3 * g + 1 <= L
    BY <1>1
  <2> QED
    BY <2>1 DEF ByteAt
<1>4. L > 3 * g /\ 3 * g \in Nat
  BY <1>1
<1> HIDE DEF a, b, c, L
<1>4a. Merged(Sextet(a, b, c, 1), Sextet(a, b, c, 2), 1) = a
  BY <1>2, FirstByte
<1>4b. Merged(Sextet(a, b, c, 2), Sextet(a, b, c, 3), 2) = b
  BY <1>2, SecondByte
<1>4c. Merged(Sextet(a, b, c, 3), Sextet(a, b, c, 4), 3) = c
  BY <1>2, ThirdByte
<1>5. \A k \in 1 .. 4 : CharAt(der, g, k) = IF 3 * g + k > L + 1 THEN Equal ELSE Alphabet(Sextet(a, b, c, k))
  BY Zenon DEF CharAt, a, b, c, L
<1>6. \A k \in 1 .. 4 : /\ Sextet(a, b, c, k) \in 0 .. 63
                        /\ base64_to_integer(Alphabet(Sextet(a, b, c, k))) = Sextet(a, b, c, k)
                        /\ Alphabet(Sextet(a, b, c, k)) # Equal
  <2>1. \A k \in 1 .. 4 : Sextet(a, b, c, k) \in 0 .. 63
    BY <1>2, SextetsFit
  <2> QED
    BY <2>1, AlphabetIs
<1>7. \A k \in 1 .. size : (buf[k] = Equal) <=> 3 * g + k > L + 1
  <2>1. \A k \in 1 .. size : k \in 1 .. 4
    OBVIOUS
  <2> QED
    BY <1>5, <1>6, <2>1
<1>8. \A k \in 1 .. size : buf[k] # Equal => base64_to_integer(buf[k]) = Sextet(a, b, c, k)
  <2>1. \A k \in 1 .. size : k \in 1 .. 4
    OBVIOUS
  <2> QED
    BY <1>5, <1>6, <1>7, <2>1
<1>9. /\ size < 2 => Converted(buf) = 0
      /\ size = 2 => Converted(buf) = 2
      /\ size > 2 /\ buf[3] = Equal => Converted(buf) = 2
      /\ size = 3 /\ buf[3] # Equal => Converted(buf) = 3
      /\ size = 4 /\ buf[3] # Equal => Converted(buf) = IF buf[4] = Equal THEN 3 ELSE 4
  BY DEF Converted
<1>10. ASSUME NEW m \in 0 .. 3, 3 * g + m <= L, size = 4 => m = 3 \/ 3 * g + m = L,
              BytesOf(buf) = [i \in 1 .. m |-> der[3 * g + i]]
       PROVE  \E e : /\ IsPart(BytesOf(buf), der, 3 * g, e)
                     /\ e <= 3 * g + 3 /\ (size = 4 => e = 3 * g + 3 \/ e = L)
  <2>1. PICK e : e = 3 * g + m
    OBVIOUS
  <2>2. e \in Nat /\ 3 * g <= e /\ e <= L /\ e - 3 * g = m /\ e <= 3 * g + 3
    BY <1>4, <1>10, <2>1
  <2>3. Len(BytesOf(buf)) = m /\ \A i \in 1 .. m : BytesOf(buf)[i] = der[3 * g + i]
    BY <1>10
  <2>4. IsPart(BytesOf(buf), der, 3 * g, e)
    BY <1>4, <2>2, <2>3, Zenon DEF IsPart, L
  <2> QED
    BY <1>10, <2>1, <2>2, <2>4
<1>10a. CASE size < 2
  <2>1. Converted(buf) = 0 /\ 1 .. 0 - 1 = {} /\ 1 .. 0 = {}
    BY <1>9, <1>10a
  <2>2. BytesOf(buf) = [i \in 1 .. 0 |-> der[3 * g + i]]
    BY <2>1 DEF BytesOf
  <2>3. 0 \in 0 .. 3 /\ 3 * g + 0 <= L /\ size # 4
    BY <1>1, <1>4, <1>10a
  <2> QED
    BY <1>10, <2>2, <2>3 DEF L
<1>11. CASE size >= 2
  <2>1. PICK m : m = Converted(buf) - 1
    OBVIOUS
  <2>2. /\ m \in 1 .. 3 /\ m + 1 <= size /\ 3 * g + m <= L
        /\ (size = 4 => m = 3 \/ 3 * g + m = L)
        /\ \A k \in 1 .. m + 1 : buf[k] # Equal
    <3>1. buf[1] # Equal /\ buf[2] # Equal
      <4>1. 1 \in 1 .. size /\ 2 \in 1 .. size /\ ~ (3 * g + 1 > L + 1) /\ ~ (3 * g + 2 > L + 1)
        BY <1>1, <1>4, <1>11
      <4> QED
        BY <1>7, <4>1
    <3>2. size >= 3 => ((buf[3] = Equal) <=> 3 * g + 3 > L + 1)
      BY <1>7
    <3>3. size = 4 => ((buf[4] = Equal) <=> 3 * g + 4 > L + 1)
      BY <1>7
    <3>4. CASE size = 2
      <4>1. m = 1 /\ \A k \in 1 .. m + 1 : k = 1 \/ k = 2
        BY <1>9, <2>1, <3>4
      <4> QED
        BY <1>1, <1>4, <3>1, <3>4, <4>1
    <3>5. CASE size > 2 /\ buf[3] = Equal
      <4>1. m = 1 /\ \A k \in 1 .. m + 1 : k = 1 \/ k = 2
        BY <1>9, <2>1, <3>5
      <4>2. 3 * g + 1 = L
        BY <1>1, <1>4, <3>2, <3>5
      <4> QED
        BY <1>1, <1>4, <3>1, <3>5, <4>1, <4>2
    <3>6. CASE size = 3 /\ buf[3] # Equal
      <4>1. m = 2 /\ \A k \in 1 .. m + 1 : k = 1 \/ k = 2 \/ k = 3
        BY <1>9, <2>1, <3>6
      <4> QED
        BY <1>1, <1>4, <3>1, <3>2, <3>6, <4>1
    <3>7. CASE size = 4 /\ buf[3] # Equal /\ buf[4] = Equal
      <4>1. m = 2 /\ \A k \in 1 .. m + 1 : k = 1 \/ k = 2 \/ k = 3
        BY <1>9, <2>1, <3>7
      <4>2. 3 * g + 2 = L
        BY <1>1, <1>4, <3>2, <3>3, <3>7
      <4> QED
        BY <1>1, <1>4, <3>1, <3>7, <4>1, <4>2
    <3>8. CASE size = 4 /\ buf[3] # Equal /\ buf[4] # Equal
      <4>1. m = 3 /\ \A k \in 1 .. m + 1 : k = 1 \/ k = 2 \/ k = 3 \/ k = 4
        BY <1>9, <2>1, <3>8
      <4> QED
        BY <1>1, <1>4, <3>1, <3>3, <3>8, <4>1
    <3> QED
      BY <1>11, <3>4, <3>5, <3>6, <3>7, <3>8
  <2> DEFINE r(i) == base64_to_integer(buf[i])
             Byte(i) == ((r(i) * Left[i]) % 256) + r(i + 1) \div Right[i]
  <2>3. BytesOf(buf) = [i \in 1 .. m |-> Byte(i)]
    BY <2>1, Zenon DEF BytesOf
  <2>4. ASSUME NEW i \in 1 .. m
        PROVE  Byte(i) = der[3 * g + i]
    <3>1. i \in 1 .. size /\ i + 1 \in 1 .. size /\ i \in 1 .. m + 1 /\ i + 1 \in 1 .. m + 1
      BY <2>2
    <3>2. r(i) = Sextet(a, b, c, i) /\ r(i + 1) = Sextet(a, b, c, i + 1)
      BY <1>8, <2>2, <3>1
    <3> DEFINE Back == Merged(Sextet(a, b, c, i), Sextet(a, b, c, i + 1), i)
    <3>3. Byte(i) = Back
      BY <3>2, Zenon DEF Merged
    <3> HIDE DEF r
    <3>4. Back = der[3 * g + i]
      <4>1. CASE i = 1
        <5>2. 1 + 1 = 2
          OBVIOUS
        <5> QED
          BY <1>3, <4>1, <1>4a, <5>2, Zenon
      <4>2. CASE i = 2
        <5>2. 2 + 1 = 3 /\ 3 * g + 2 <= L
          BY <1>1, <1>4, <2>2, <4>2
        <5> QED
          BY <1>3, <4>2, <1>4b, <5>2, Zenon
      <4>3. CASE i = 3
        <5>2. 3 + 1 = 4 /\ 3 * g + 3 <= L
          BY <1>1, <1>4, <2>2, <4>3
        <5> QED
          BY <1>3, <4>3, <1>4c, <5>2, Zenon
      <4> QED
        BY <2>2, <4>1, <4>2, <4>3
    <3> QED
      BY <3>3, <3>4
  <2> HIDE DEF Byte
  <2>5. BytesOf(buf) = [i \in 1 .. m |-> der[3 * g + i]]
    BY <2>3, <2>4
  <2>6. m \in 0 .. 3 /\ 3 * g + m <= L /\ (size = 4 => m = 3 \/ 3 * g + m = L)
    BY <2>2
  <2> QED
    BY <1>10, <2>5, <2>6 DEF L
<1> QED
  BY <1>10a, <1>11

-----------------------------------------------------------------------------
(* Characters which are not spaces, counted. *)

(* There is one more of them after a place, when there is one at the next. *)
LEMMA RankNext ==
  ASSUME NEW pem, NEW h \in Nat, NEW i \in Nat, h <= i
  PROVE  /\ Rank(pem, h, h) = 0 /\ Rank(pem, h, i) \in Nat
         /\ Rank(pem, h, i + 1) = Rank(pem, h, i) + (IF IsSpace(pem[i + 1]) THEN 0 ELSE 1)
<1> DEFINE Found(m) == {j \in h + 1 .. m : ~ IsSpace(pem[j])}
<1>1. Found(h) = {}
  OBVIOUS
<1>2. IsFiniteSet(Found(i))
  <2>1. IsFiniteSet(h + 1 .. i) /\ Found(i) \subseteq h + 1 .. i
    BY FS_Interval
  <2> QED
    BY <2>1, FS_Subset
<1>3. Cardinality(Found(i)) \in Nat
  BY <1>2, FS_CardinalityType
<1>4. i + 1 \notin Found(i)
  OBVIOUS
<1>5. \A j \in h + 1 .. i + 1 : j = i + 1 \/ j \in h + 1 .. i
  OBVIOUS
<1>5a. i + 1 \in h + 1 .. i + 1 /\ h + 1 .. i \subseteq h + 1 .. i + 1
  OBVIOUS
<1>6. IF IsSpace(pem[i + 1]) THEN Found(i + 1) = Found(i) ELSE Found(i + 1) = Found(i) \cup {i + 1}
  BY <1>5, <1>5a
<1> HIDE DEF Found
<1>7. Cardinality(Found(i) \cup {i + 1}) = Cardinality(Found(i)) + 1
  BY <1>2, <1>4, FS_AddElement
<1>8. Cardinality(Found(i + 1)) = Cardinality(Found(i)) + (IF IsSpace(pem[i + 1]) THEN 0 ELSE 1)
  BY <1>3, <1>6, <1>7
<1>9. Cardinality(Found(h)) = 0
  BY <1>1, FS_EmptySet
<1> QED
  BY <1>3, <1>8, <1>9 DEF Rank, Found

(* The rank of a character: one more than before, but for a space.         *)
LEMMA BeforeNext ==
  ASSUME Len(b64) \in Nat, NEW i \in 1 .. Len(b64)
  PROVE  Cardinality({j \in Significant : j <= i}) =
           Cardinality({j \in Significant : j <= i - 1}) + (IF IsSpace(b64[i]) THEN 0 ELSE 1)
<1> DEFINE Before(m) == {j \in Significant : j <= m}
<1>1. Significant \subseteq 1 .. Len(b64) /\ ((i \in Significant) <=> ~ IsSpace(b64[i]))
  BY DEF Significant
<1>2. IsFiniteSet(Before(i - 1))
  <2>1. Before(i - 1) \subseteq 1 .. Len(b64)
    BY <1>1
  <2>2. IsFiniteSet(1 .. Len(b64))
    BY FS_Interval
  <2> QED
    BY <2>1, <2>2, FS_Subset
<1>3. Cardinality(Before(i - 1)) \in Nat
  BY <1>2, FS_CardinalityType
<1>4. \A j \in Significant : (j <= i) <=> (j <= i - 1 \/ j = i)
  BY <1>1
<1>5. i \notin Before(i - 1)
  OBVIOUS
<1>6. IF IsSpace(b64[i]) THEN Before(i) = Before(i - 1) ELSE Before(i) = Before(i - 1) \cup {i}
  BY <1>1, <1>4
<1> HIDE DEF Before
<1>7. Cardinality(Before(i - 1) \cup {i}) = Cardinality(Before(i - 1)) + 1
  BY <1>2, <1>5, FS_AddElement
<1>8. Cardinality(Before(i)) = Cardinality(Before(i - 1)) + (IF IsSpace(b64[i]) THEN 0 ELSE 1)
  <2>1. CASE IsSpace(b64[i])
    BY <1>3, <1>6, <2>1
  <2>2. CASE ~ IsSpace(b64[i])
    BY <1>6, <1>7, <2>2
  <2> QED
    BY <2>1, <2>2
<1> QED
  BY <1>8 DEF Before

(* The rank in the file of a character of the text: what was before the    *)
(* text, and what is before it there.                                      *)
LEMMA RankAdds ==
  ASSUME NEW pem, NEW h \in Nat, NEW p, NEW q, h <= p, Len(b64) \in Nat, IsPart(b64, pem, p, q)
  PROVE  \A i \in 0 .. Len(b64) :
           Rank(pem, h, p + i) = Rank(pem, h, p) + Cardinality({j \in Significant : j <= i})
<1> DEFINE N == Len(b64)
           Before(i) == Cardinality({j \in Significant : j <= i})
           S == {i \in 0 .. N : Rank(pem, h, p + i) = Rank(pem, h, p) + Before(i)}
<1>1. p \in Nat /\ N = q - p /\ \A i \in 1 .. N : b64[i] = pem[p + i]
  BY DEF IsPart
<1>2. Rank(pem, h, p) \in Nat
  BY <1>1, RankNext
<1>3. 0 \in S
  <2>1. {j \in Significant : j <= 0} = {}
    BY DEF Significant
  <2>2. Before(0) = 0
    BY <2>1, FS_EmptySet
  <2>3. p + 0 = p /\ 0 \in 0 .. N
    BY <1>1
  <2> HIDE DEF Before
  <2> QED
    BY <1>2, <2>2, <2>3
<1>4. ASSUME NEW i \in 1 .. N, i - 1 \in S
      PROVE  i \in S
  <2>1. PICK m : m = p + (i - 1)
    OBVIOUS
  <2>2. m \in Nat /\ h <= m /\ m + 1 = p + i
    BY <1>1, <2>1
  <2>3. Rank(pem, h, m + 1) = Rank(pem, h, m) + (IF IsSpace(pem[m + 1]) THEN 0 ELSE 1)
    BY <2>2, RankNext
  <2>4. pem[m + 1] = b64[i]
    BY <1>1, <2>2
  <2>5. Before(i) = Before(i - 1) + (IF IsSpace(b64[i]) THEN 0 ELSE 1)
    BY BeforeNext
  <2>6. Before(i - 1) \in Nat
    <3>1. {j \in Significant : j <= i - 1} \subseteq 1 .. N /\ IsFiniteSet(1 .. N)
      BY FS_Interval DEF Significant
    <3>2. IsFiniteSet({j \in Significant : j <= i - 1})
      BY <3>1, FS_Subset
    <3> QED
      BY <3>2, FS_CardinalityType
  <2> HIDE DEF Before
  <2>7. Rank(pem, h, m) = Rank(pem, h, p) + Before(i - 1)
    BY <1>4, <2>1
  <2>8. Rank(pem, h, p + i) = Rank(pem, h, p) + Before(i)
    BY <1>2, <2>2, <2>3, <2>4, <2>5, <2>6, <2>7
  <2> QED
    BY <2>8
<1> HIDE DEF S, N
<1>5. \A i \in 0 .. N : i \in S
  <2>1. N \in Nat
    BY DEF N
  <2> QED
    BY <1>3, <1>4, <2>1, UpTo
<1> QED
  BY <1>5 DEF S, N

(* The place of the k-th character which is not a space.                   *)
LEMMA PlaceIs ==
  ASSUME Len(b64) \in Nat, NEW k \in 1 .. Cardinality(Significant)
  PROVE  Place(k) \in Significant /\ Cardinality({j \in Significant : j <= Place(k)}) = k
<1> DEFINE N == Len(b64)
           Before(m) == {j \in Significant : j <= m}
           Full == {m \in 0 .. N : Cardinality(Before(m)) >= k}
<1>1. Significant \subseteq 1 .. N /\ IsFiniteSet(Significant)
  <2>1. Significant \subseteq 1 .. N
    BY DEF Significant
  <2>2. IsFiniteSet(1 .. N)
    BY FS_Interval
  <2> QED
    BY <2>1, <2>2, FS_Subset
<1>1a. \A j \in Significant : j \in 1 .. N /\ j \in Int
  BY <1>1
<1>2. Cardinality(Significant) \in Nat /\ k \in Nat /\ k > 0 /\ k <= Cardinality(Significant)
  BY <1>1, FS_CardinalityType
<1>3. ASSUME NEW m
      PROVE  IsFiniteSet(Before(m)) /\ Cardinality(Before(m)) \in Nat
  <2>1. Before(m) \subseteq Significant
    OBVIOUS
  <2>2. IsFiniteSet(Before(m))
    BY <1>1, <2>1, FS_Subset
  <2> QED
    BY <2>2, FS_CardinalityType
<1>4. Before(N) = Significant
  BY <1>1a
<1>5. Before(0) = {}
  BY <1>1a
<1>6. N \in Full
  <2>1. N \in 0 .. N
    OBVIOUS
  <2> HIDE DEF Before, N
  <2> QED
    BY <1>2, <1>4, <2>1
<1>7. PICK m : m = Min(Full)
  OBVIOUS
<1>8. m \in Full /\ \A y \in Full : m <= y
  <2>1. Full \subseteq Nat /\ Full # {}
    <3>1. Full \subseteq 0 .. N
      OBVIOUS
    <3>2. 0 .. N \subseteq Nat
      OBVIOUS
    <3> HIDE DEF Full
    <3> QED
      BY <1>6, <3>1, <3>2
  <2> HIDE DEF Full
  <2> QED
    BY <1>7, <2>1, LeastNat
<1>9. m \in 0 .. N /\ Cardinality(Before(m)) >= k
  BY <1>8
<1>10. m # 0
  <2>1. Cardinality({}) = 0
    BY FS_EmptySet
  <2>2. ASSUME m = 0
        PROVE  Cardinality(Before(m)) = 0
    BY <1>5, <2>1, <2>2
  <2> HIDE DEF Before
  <2> QED
    BY <1>2, <1>9, <2>2
<1>11. m - 1 \in 0 .. N /\ m - 1 \notin Full
  BY <1>8, <1>9, <1>10
<1>12. Cardinality(Before(m - 1)) < k
  <2>1. ~ Cardinality(Before(m - 1)) >= k
    BY <1>11
  <2>2. Cardinality(Before(m - 1)) \in Nat
    BY <1>3
  <2> HIDE DEF Before
  <2> QED
    BY <1>2, <2>1, <2>2
<1>13. m \in Significant
  <2>1. SUFFICES ASSUME m \notin Significant
                 PROVE  FALSE
    OBVIOUS
  <2>2. Before(m) = Before(m - 1)
    BY <1>1a, <1>9, <2>1
  <2> HIDE DEF Before
  <2> QED
    BY <1>2, <1>3, <1>9, <1>12, <2>2
<1>14. Before(m) = Before(m - 1) \cup {m} /\ m \notin Before(m - 1)
  <2>1. \A j \in Significant : j <= m <=> j <= m - 1 \/ j = m
    BY <1>1a, <1>9
  <2>2. ~ m <= m - 1
    BY <1>9
  <2> QED
    BY <1>13, <2>1, <2>2
<1>15. Cardinality(Before(m)) = Cardinality(Before(m - 1)) + 1
  <2> HIDE DEF Before
  <2> QED
    BY <1>3, <1>14, FS_AddElement
<1>16. Cardinality(Before(m)) = k
  <2> HIDE DEF Before
  <2> QED
    BY <1>2, <1>3, <1>9, <1>12, <1>15
<1> QED
  BY <1>13, <1>16, Zenon DEF Place

-----------------------------------------------------------------------------
(* While the key file is read: the bytes which are decoded are the first   *)
(* ones of the key.                                                        *)

StartsWith(t, s) == Len(t) <= Len(s) /\ \A i \in 1 .. Len(t) : t[i] = s[i]

(* What is left is a part of the file, after a first line, and the bytes   *)
(* are those of the groups of characters before it.                        *)
InGroups(pem, der, h, p, q, g) ==
  /\ h \in Nat /\ g \in Nat /\ h <= p /\ IsFirstLine(pem, h) /\ h \in 1 .. Len(pem)
  /\ IsPart(b64, pem, p, q)
  /\ Rank(pem, h, p) = 4 * g /\ 4 * g <= Len(Encoded(der))
  /\ Len(data) = IF 3 * g <= Len(der) THEN 3 * g ELSE Len(der)

(* The file is read: to its end, or from its first line, or after it.      *)
Reading(pem, der) ==
  /\ StartsWith(data, der)
  /\ \/ b64 = <<>>
     \/ data = <<>> /\ \E q : IsPart(b64, pem, 0, q)
     \/ \E h, p, q, g : InGroups(pem, der, h, p, q, g)

(* The text starts before or in the first line, nothing is decoded.        *)
LEMMA ReadingInit ==
  ASSUME NEW der \in Seq(0 .. 255), NEW pem \in Seq(0 .. 255), StartsPemFile(der, pem), InitText(pem)
  PROVE  Reading(pem, der)
<1>1. b64 = Base64Part(pem) /\ data = <<>> /\ Len(data) = 0
  BY DEF InitText
<1>2. StartsWith(data, der)
  BY <1>1 DEF StartsWith
<1>3. PICK a, q : /\ IsPart(b64, pem, a, q)
                  /\ \/ a = 0 \/ a = q
                     \/ a \in 1 .. Len(pem) /\ IsFirstLine(pem, a)
  BY <1>1, DecodedPart
<1>4. CASE a = 0
  BY <1>1, <1>2, <1>3, <1>4 DEF Reading
<1>5. CASE a = q
  <2>1. b64 \in Seq(0 .. 255)
    BY <1>1, Base64PartIs
  <2>2. Len(b64) = 0
    BY <1>3, <1>5 DEF IsPart
  <2>3. b64 = <<>>
    BY <2>1, <2>2
  <2> QED
    BY <1>2, <2>3 DEF Reading
<1>6. CASE a \in 1 .. Len(pem) /\ IsFirstLine(pem, a)
  <2>1. a \in Nat /\ a <= a
    BY <1>6
  <2>2. Rank(pem, a, a) = 0
    BY <2>1, RankNext
  <2>3. Len(Encoded(der)) = 4 * ((Len(der) + 2) \div 3)
    BY EncodedIs
  <2>4. Len(der) \in Nat /\ 0 <= Len(der)
    OBVIOUS
  <2>5. 0 <= Len(Encoded(der)) /\ 3 * 0 <= Len(der)
    BY <2>3, <2>4
  <2>6. InGroups(pem, der, a, a, q, 0)
    <3>1. 4 * 0 = 0 /\ 3 * 0 = 0 /\ 0 \in Nat
      OBVIOUS
    <3> QED
      BY <1>1, <1>3, <1>6, <2>1, <2>2, <2>5, <3>1 DEF InGroups
  <2> QED
    BY <1>2, <2>6 DEF Reading
<1> QED
  BY <1>3, <1>4, <1>5, <1>6

(* The bytes of the key from one place to another come after those which   *)
(* are decoded.                                                            *)
LEMMA MoreBytes ==
  ASSUME NEW der, Len(der) \in Nat, NEW t \in Seq(0 .. 255), StartsWith(t, der),
         NEW u \in Seq(0 .. 255), NEW e, IsPart(u, der, Len(t), e)
  PROVE  StartsWith(t \o u, der) /\ Len(t \o u) = e
<1> DEFINE n == Len(t)
<1>1. n \in Nat /\ e \in Nat /\ n <= e /\ e <= Len(der) /\ Len(u) = e - n
  BY DEF IsPart
<1>2. \A i \in 1 .. e - n : u[i] = der[n + i]
  BY DEF IsPart
<1>3. /\ Len(t \o u) = Len(t) + Len(u)
      /\ \A i \in 1 .. Len(t) + Len(u) : (t \o u)[i] = IF i <= Len(t) THEN t[i] ELSE u[i - Len(t)]
  BY ConcatProperties
<1>4. Len(t) + Len(u) = e
  BY <1>1
<1>5. ASSUME NEW i \in 1 .. e
      PROVE  (t \o u)[i] = der[i]
  <2>1. CASE i <= n
    <3>1. (t \o u)[i] = t[i] /\ i \in 1 .. n
      BY <1>1, <1>3, <1>4, <2>1
    <3> QED
      BY <3>1 DEF StartsWith
  <2>2. CASE ~ (i <= n)
    <3>1. PICK j : j = i - n
      OBVIOUS
    <3>2. j \in 1 .. e - n /\ n + j = i
      BY <1>1, <2>2, <3>1
    <3>3. (t \o u)[i] = u[j]
      BY <1>3, <1>4, <2>2, <3>1
    <3> QED
      BY <1>2, <3>2, <3>3
  <2> QED
    BY <2>1, <2>2
<1> QED
  BY <1>1, <1>3, <1>4, <1>5 DEF StartsWith

(* A group which starts with a dash is fatal, or a lone dash at the end of *)
(* the file.                                                               *)
LEMMA DashIs ==
  ASSUME NEW size \in 0 .. 4, NEW buf, Len(buf) = size, size > 0 => buf[1] = Dash, Valid(buf)
  PROVE  size <= 1 /\ BytesOf(buf) = <<>>
<1>1. size < 2
  <2>1. SUFFICES ASSUME size >= 2
                 PROVE  FALSE
    OBVIOUS
  <2>2. Converted(buf) >= 2
    BY <2>1 DEF Converted
  <2>3. Converted(buf) \in {2, 3, 4}
    BY <2>1 DEF Converted
  <2>4. 1 \in 1 .. Converted(buf)
    BY <2>3
  <2>5. base64_to_integer(buf[1]) # NotBase64
    BY <2>4 DEF Valid
  <2>6. base64_to_integer(45) = 64
    BY DEF base64_to_integer, NotBase64
  <2> QED
    BY <2>1, <2>5, <2>6 DEF Dash, NotBase64
<1>2. Converted(buf) = 0
  BY <1>1 DEF Converted
<1>3. 1 .. 0 - 1 = {}
  OBVIOUS
<1>4. BytesOf(buf) = <<>>
  BY <1>2, <1>3 DEF BytesOf
<1> QED
  BY <1>1, <1>4

(* What is left of a text after its n first characters.                    *)
LEMMA TailIsPart ==
  ASSUME NEW T, NEW s \in Seq(T), NEW n \in 0 .. Len(s), NEW t, t = SubSeq(s, n + 1, Len(s))
  PROVE  IsPart(t, s, n, Len(s)) /\ (n = Len(s) => t = <<>>)
<1> DEFINE N == Len(s)
<1>1. N \in Nat /\ n \in Nat /\ n <= N
  OBVIOUS
<1>2. \A i \in n + 1 .. N : s[i] \in T
  <2>1. \A i \in n + 1 .. N : i \in 1 .. N
    BY <1>1
  <2> QED
    BY <2>1, ElementOfSeq
<1>3. /\ t \in Seq(T) /\ Len(t) = IF n + 1 <= N THEN N - (n + 1) + 1 ELSE 0
      /\ \A i \in 1 .. N - (n + 1) + 1 : t[i] = s[n + 1 + i - 1]
  <2>1. n + 1 \in Int /\ N \in Int
    BY <1>1
  <2> QED
    BY <1>2, <2>1, SubSeqProperties
<1> HIDE DEF N
<1>4. N - (n + 1) + 1 = N - n /\ \A i \in 1 .. N - n : n + 1 + i - 1 = n + i
  BY <1>1
<1>5. Len(t) = N - n /\ \A i \in 1 .. N - n : t[i] = s[n + i]
  BY <1>1, <1>3, <1>4
<1>6. IsPart(t, s, n, N)
  BY <1>1, <1>5 DEF IsPart, N
<1>7. n = N => t = <<>>
  BY <1>1, <1>3, <1>5
<1> QED
  BY <1>6, <1>7 DEF N

(* The characters of a group have the ranks which follow those before the  *)
(* text: they are those of the base64 of the key, then a dash.             *)
LEMMA RanksInGroups ==
  ASSUME NEW der \in Seq(0 .. 255), NEW pem \in Seq(0 .. 255), StartsPemFile(der, pem),
         b64 \in Seq(0 .. 255), NEW h, NEW p, NEW q, NEW g, InGroups(pem, der, h, p, q, g),
         NEW k \in 1 .. Cardinality(Significant)
  PROVE  /\ Rank(pem, h, p + Place(k)) = 4 * g + k
         /\ 4 * g + k <= Len(Encoded(der)) => b64[Place(k)] = Encoded(der)[4 * g + k]
         /\ 4 * g + k = Len(Encoded(der)) + 1 => b64[Place(k)] = Dash
<1> DEFINE N == Len(b64)
<1>1. N \in Nat
  OBVIOUS
<1>2. PICK i : i = Place(k)
  OBVIOUS
<1>3. i \in Significant /\ Cardinality({j \in Significant : j <= i}) = k
  BY <1>1, <1>2, PlaceIs
<1>4. i \in 1 .. N /\ ~ IsSpace(b64[i])
  BY <1>3 DEF Significant
<1>5. /\ h \in Nat /\ h <= p /\ IsFirstLine(pem, h) /\ h \in 1 .. Len(pem)
      /\ IsPart(b64, pem, p, q) /\ Rank(pem, h, p) = 4 * g /\ g \in Nat
  BY DEF InGroups
<1>6. p \in Nat /\ q <= Len(pem) /\ q \in Nat /\ N = q - p /\ b64[i] = pem[p + i]
  BY <1>4, <1>5 DEF IsPart
<1>7. i \in 0 .. N
  BY <1>4
<1>8. Rank(pem, h, p + i) = 4 * g + k
  <2>1. \A x \in 0 .. N : Rank(pem, h, p + x) =
                            Rank(pem, h, p) + Cardinality({j \in Significant : j <= x})
    BY <1>1, <1>5, RankAdds
  <2>2. Rank(pem, h, p + i) = Rank(pem, h, p) + Cardinality({j \in Significant : j <= i})
    BY <1>7, <2>1, Zenon
  <2> QED
    BY <1>3, <1>5, <2>2
<1>9. PICK j : j = p + i
  OBVIOUS
<1>10. j \in h + 1 .. Len(pem)
  <2>1. Len(pem) \in Nat
    OBVIOUS
  <2> QED
    BY <1>4, <1>5, <1>6, <1>9, <2>1
<1>11. ~ IsSpace(pem[j])
  BY <1>4, <1>6, <1>9
<1>12. /\ Rank(pem, h, j) <= Len(Encoded(der)) => pem[j] = Encoded(der)[Rank(pem, h, j)]
       /\ Rank(pem, h, j) = Len(Encoded(der)) + 1 => pem[j] = Dash
  BY <1>5, <1>10, <1>11, Zenon DEF StartsPemFile
<1> QED
  BY <1>2, <1>6, <1>8, <1>9, <1>12

(* Before the first line ends, the first character is a dash.              *)
LEMMA DashFirst ==
  ASSUME NEW der, NEW pem \in Seq(0 .. 255), StartsPemFile(der, pem),
         b64 \in Seq(0 .. 255), b64 # <<>>, NEW q, IsPart(b64, pem, 0, q)
  PROVE  Cardinality(Significant) >= 1 /\ Cardinality(Significant) \in Nat /\ b64[Place(1)] = Dash
<1>1. Len(b64) \in Nat /\ 1 \in 1 .. Len(b64)
  OBVIOUS
<1>2. Len(b64) = q - 0 /\ q <= Len(pem) /\ q \in Nat /\ \A i \in 1 .. q - 0 : b64[i] = pem[0 + i]
  BY DEF IsPart
<1>3. 1 \in 1 .. q - 0 /\ 0 + 1 = 1 /\ 1 \in 1 .. Len(pem)
  <2>1. Len(pem) \in Nat
    OBVIOUS
  <2> QED
    BY <1>1, <1>2, <2>1
<1>4. b64[1] = pem[1]
  BY <1>2, <1>3
<1>5. pem[1] = Dash
  BY <1>3 DEF StartsPemFile
<1>6. 1 \in Significant
  BY <1>1, <1>4, <1>5 DEF Significant, IsSpace, Dash
<1>7. IsFiniteSet(Significant) /\ Significant \subseteq 1 .. Len(b64)
  <2>1. Significant \subseteq 1 .. Len(b64)
    BY DEF Significant
  <2>2. IsFiniteSet(1 .. Len(b64))
    BY <1>1, FS_Interval
  <2> QED
    BY <2>1, <2>2, FS_Subset
<1>8. Cardinality(Significant) \in Nat
  BY <1>7, FS_CardinalityType
<1>9. Cardinality(Significant) # 0
  BY <1>6, <1>7, FS_EmptySet
<1>10. 1 \in 1 .. Cardinality(Significant)
  BY <1>8, <1>9
<1>11. PICK i : i = Place(1)
  OBVIOUS
<1> DEFINE Before == {j \in Significant : j <= i}
<1>12. i \in Significant /\ Cardinality(Before) = 1
  BY <1>1, <1>10, <1>11, PlaceIs
<1>13. i \in Before /\ 1 \in Before
  BY <1>6, <1>7, <1>12
<1>14. IsFiniteSet(Before)
  BY <1>7, FS_Subset
<1> HIDE DEF Before
<1>15. \E x : Before = {x}
  BY <1>12, <1>14, FS_Singleton
<1>16. i = 1
  BY <1>13, <1>15
<1> QED
  BY <1>4, <1>5, <1>8, <1>10, <1>11, <1>16

(* One pass of the loop: the next bytes of the key, or nothing more.       *)
LEMMA ReadingNext ==
  ASSUME NEW der \in Seq(0 .. 255), NEW pem \in Seq(0 .. 255), StartsPemFile(der, pem),
         b64 \in Seq(0 .. 255), data \in Seq(0 .. 255), Reading(pem, der), DecodeGroup
  PROVE  Reading(pem, der)'
<1> DEFINE count == Cardinality(Significant)
           buf_size == IF count >= 4 THEN 4 ELSE count
           n == IF buf_size = 4 THEN Place(4) ELSE Len(b64)
           buf == [k \in 1 .. buf_size |-> b64[Place(k)]]
           text == Encoded(der)
<1>1. /\ b64 # <<>>
      /\ IF Valid(buf)
           THEN /\ data' = data \o BytesOf(buf)
                /\ b64' = SubSeq(b64, n + 1, Len(b64))
                /\ bad' = FALSE
           ELSE bad' = TRUE /\ UNCHANGED <<b64, data>>
  BY Zenon DEF DecodeGroup
<1>2. count \in Nat /\ Significant \subseteq 1 .. Len(b64) /\ Len(b64) \in Nat
  <2>1. Significant \subseteq 1 .. Len(b64)
    BY DEF Significant
  <2>2. IsFiniteSet(1 .. Len(b64))
    BY FS_Interval
  <2>3. IsFiniteSet(Significant)
    BY <2>1, <2>2, FS_Subset
  <2>4. Len(b64) \in Nat
    OBVIOUS
  <2> QED
    BY <2>1, <2>3, <2>4, FS_CardinalityType
<1> HIDE DEF count
<1>3. buf_size \in 0 .. 4 /\ buf_size <= count /\ (buf_size < 4 => buf_size = count)
  BY <1>2
<1>4. n \in 0 .. Len(b64) /\ (buf_size < 4 => n = Len(b64)) /\ (buf_size = 4 => n = Place(4))
  <2>1. CASE buf_size = 4
    <3>1. 4 \in 1 .. count
      BY <1>2, <1>3, <2>1
    <3>2. Place(4) \in Significant
      BY <1>2, <3>1, PlaceIs DEF count
    <3>3. n = Place(4) /\ ~ buf_size < 4
      BY <2>1
    <3>4. n \in 1 .. Len(b64)
      BY <1>2, <3>2, <3>3
    <3> HIDE DEF n, buf_size
    <3> QED
      BY <1>2, <3>3, <3>4
  <2>2. CASE buf_size # 4
    BY <1>2, <1>3, <2>2
  <2> QED
    BY <2>1, <2>2
<1> HIDE DEF n, buf_size
<1>5. Len(buf) = buf_size /\ \A k \in 1 .. buf_size : buf[k] = b64[Place(k)]
  BY <1>3
<1> HIDE DEF buf, text
<1>6. CASE ~ Valid(buf)
  <2>1. b64' = b64 /\ data' = data
    BY <1>1, <1>6
  <2> QED
    BY <2>1 DEF Reading, InGroups
<1>7. CASE Valid(buf)
  <2>1. data' = data \o BytesOf(buf) /\ b64' = SubSeq(b64, n + 1, Len(b64))
    BY <1>1, <1>7
  <2>2. IsPart(b64', b64, n, Len(b64)) /\ (n = Len(b64) => b64' = <<>>)
    <3>1. \A t : t = SubSeq(b64, n + 1, Len(b64)) =>
            IsPart(t, b64, n, Len(b64)) /\ (n = Len(b64) => t = <<>>)
      BY <1>4, TailIsPart
    <3> QED
      BY <2>1, <3>1
  <2>3. buf_size < 4 => b64' = <<>>
    BY <1>4, <2>2
  <2>4. ASSUME buf_size > 0 => buf[1] = Dash
        PROVE  Reading(pem, der)'
    <3>1. buf_size <= 1 /\ BytesOf(buf) = <<>>
      BY <1>3, <1>5, <1>7, <2>4, DashIs
    <3>2. data' = data /\ b64' = <<>>
      <4>1. buf_size < 4
        BY <1>3, <3>1
      <4>2. data \o <<>> = data
        OBVIOUS
      <4> QED
        BY <2>1, <2>3, <3>1, <4>1, <4>2
    <3> QED
      BY <3>2 DEF Reading
  <2>5. CASE data = <<>> /\ \E q : IsPart(b64, pem, 0, q)
    <3>1. count >= 1 /\ b64[Place(1)] = Dash
      BY <1>1, <2>5, DashFirst DEF count
    <3>2. 1 \in 1 .. buf_size
      BY <1>2, <1>3, <3>1
    <3> QED
      BY <1>5, <2>4, <3>1, <3>2
  <2>6. ASSUME NEW h, NEW p, NEW q, NEW g, InGroups(pem, der, h, p, q, g)
        PROVE  Reading(pem, der)'
    <3>1. /\ Len(text) = 4 * ((Len(der) + 2) \div 3)
          /\ \A k \in 1 .. 4 : 4 * g + k <= Len(text) => text[4 * g + k] = CharAt(der, g, k)
      <4>1. g \in Nat
        BY <2>6 DEF InGroups
      <4> QED
        BY <4>1, EncodedIs DEF text
    <3>2. g \in Nat /\ 4 * g <= Len(text) /\ Len(data) = IF 3 * g <= Len(der) THEN 3 * g ELSE Len(der)
      BY <2>6 DEF InGroups, text
    <3>3. ASSUME NEW k \in 1 .. buf_size
          PROVE  /\ Rank(pem, h, p + Place(k)) = 4 * g + k
                 /\ 4 * g + k <= Len(text) => buf[k] = text[4 * g + k]
                 /\ 4 * g + k = Len(text) + 1 => buf[k] = Dash
      <4>1. k \in 1 .. count
        BY <1>2, <1>3
      <4>2. /\ Rank(pem, h, p + Place(k)) = 4 * g + k
            /\ 4 * g + k <= Len(text) => b64[Place(k)] = text[4 * g + k]
            /\ 4 * g + k = Len(text) + 1 => b64[Place(k)] = Dash
        BY <2>6, <4>1, RanksInGroups DEF count, text
      <4> QED
        BY <1>5, <4>2
    <3>4. Len(der) \in Nat /\ Len(data) \in Nat /\ StartsWith(data, der)
      BY DEF Reading
    <3>5. CASE 4 * g = Len(text)
      <4>1. buf_size > 0 => 1 \in 1 .. buf_size /\ 4 * g + 1 = Len(text) + 1
        BY <1>3, <3>2, <3>5
      <4> QED
        BY <2>4, <3>3, <4>1
    <3>6. CASE 4 * g # Len(text)
      <4>1. 3 * g < Len(der) /\ 4 * (g + 1) <= Len(text) /\ Len(data) = 3 * g
        <5>1. PICK d : d = (Len(der) + 2) \div 3
          OBVIOUS
        <5>2. d \in Nat /\ 3 * d <= Len(der) + 2 /\ Len(text) = 4 * d
          BY <3>1, <3>4, <5>1
        <5>3. g + 1 <= d
          BY <3>2, <3>6, <5>2
        <5> QED
          BY <3>2, <3>4, <5>2, <5>3
      <4>2. \A k \in 1 .. buf_size : buf[k] = CharAt(der, g, k)
        <5>1. ASSUME NEW k \in 1 .. buf_size
              PROVE  buf[k] = CharAt(der, g, k)
          <6>1. k \in 1 .. 4 /\ 4 * g + k <= Len(text)
            BY <1>3, <3>1, <3>2, <3>4, <4>1
          <6> QED
            BY <3>1, <3>3, <6>1
        <5> QED
          BY <5>1
      <4>3. PICK e : /\ IsPart(BytesOf(buf), der, 3 * g, e)
                     /\ e <= 3 * g + 3 /\ (buf_size = 4 => e = 3 * g + 3 \/ e = Len(der))
        <5>1. Len(buf) = buf_size /\ 3 * g < Len(der) /\ g \in Nat /\ buf_size \in 0 .. 4
          BY <1>3, <1>5, <3>2, <4>1
        <5> QED
          BY <4>2, <5>1, GroupIs
      <4>4. StartsWith(data', der) /\ Len(data') = e
        <5>1. BytesOf(buf) \in Seq(0 .. 255)
          BY <1>3, <1>5, <1>7, BytesOfIs
        <5>2. IsPart(BytesOf(buf), der, Len(data), e)
          BY <4>1, <4>3
        <5>3. StartsWith(data \o BytesOf(buf), der) /\ Len(data \o BytesOf(buf)) = e
          BY <3>4, <5>1, <5>2, MoreBytes
        <5> QED
          BY <2>1, <5>3
      <4>5. CASE buf_size < 4
        BY <2>3, <4>4, <4>5 DEF Reading
      <4>6. CASE buf_size = 4
        <5>1. 4 \in 1 .. buf_size /\ n = Place(4)
          BY <1>4, <4>6
        <5>2. PICK p1, q1 : p1 = p + n /\ q1 = p + Len(b64)
          OBVIOUS
        <5>3. Rank(pem, h, p1) = 4 * (g + 1)
          BY <3>2, <3>3, <5>1, <5>2
        <5>4. /\ h \in Nat /\ h <= p /\ IsFirstLine(pem, h) /\ h \in 1 .. Len(pem)
              /\ IsPart(b64, pem, p, q)
          BY <2>6 DEF InGroups
        <5>5. h <= p1 /\ g + 1 \in Nat
          BY <1>2, <1>4, <3>2, <5>2, <5>4 DEF IsPart
        <5>6. IsPart(b64', pem, p1, q1)
          <6>1. Len(pem) \in Nat
            OBVIOUS
          <6> QED
            BY <2>2, <5>2, <5>4, <6>1, PartOfPart
        <5>7. Len(data') = IF 3 * (g + 1) <= Len(der) THEN 3 * (g + 1) ELSE Len(der)
          <6>1. e \in Nat /\ e <= Len(der) /\ (e = 3 * g + 3 \/ e = Len(der))
            BY <4>3, <4>6 DEF IsPart
          <6>2. 3 * (g + 1) = 3 * g + 3
            BY <3>2
          <6>3. e = IF 3 * g + 3 <= Len(der) THEN 3 * g + 3 ELSE Len(der)
            BY <3>2, <3>4, <4>3, <6>1
          <6> QED
            BY <4>4, <6>2, <6>3
        <5>8. 4 * (g + 1) <= Len(Encoded(der))
          BY <4>1 DEF text
        <5>9. PICK g1 : g1 = g + 1
          OBVIOUS
        <5>10. InGroups(pem, der, h, p1, q1, g1)'
          BY <5>3, <5>4, <5>5, <5>6, <5>7, <5>8, <5>9, Zenon DEF InGroups
        <5> QED
          BY <4>4, <5>10 DEF Reading
      <4> QED
        BY <1>3, <4>5, <4>6
    <3> QED
      BY <3>5, <3>6
  <2> QED
    BY <1>1, <2>5, <2>6 DEF Reading
<1> QED
  BY <1>6, <1>7

-----------------------------------------------------------------------------
(* The state, between the calls of the library.                            *)
Sizes == 0 .. KeyBits
TypeInv ==
  /\ b64 \in Seq(0 .. 255) /\ data \in Seq(0 .. 255) /\ bad \in BOOLEAN
  /\ phase \in {"load", "next", "bench", "done", "fatal"}
  /\ item \in 1 .. 19 /\ (phase = "bench" => item <= 18)
  /\ mod1 \in Sizes \cup {None} /\ root1 \in Sizes \cup {None}
  /\ mod1 # None => root1 \in Sizes
  /\ bn_mont_ctx \in {"unset", "n", "mod1", "junk"}
  /\ bn_recp_ctx \in {"unset", "n", "mod1", "junk"}
  /\ bench # None => bench.op1 \in Sizes

(* The types hold at the start.                                            *)
LEMMA TypeInit == Init => TypeInv
<1> SUFFICES ASSUME Init
             PROVE  TypeInv
  OBVIOUS
<1>1. PICK f \in PemFiles : InitMath(f)
  BY DEF Init
<1>2. b64 \in Seq(0 .. 255)
  BY <1>1, MathAssumption, Base64PartIs DEF InitMath, InitText
<1>3. data \in Seq(0 .. 255) /\ bad \in BOOLEAN
  <2>1. data = <<>> /\ bad = FALSE
    BY <1>1 DEF InitMath, InitText
  <2>2. <<>> \in Seq(0 .. 255)
    OBVIOUS
  <2> QED
    BY <2>1, <2>2, Zenon
<1>4. /\ phase = "load" /\ item = 1 /\ mod1 = None /\ root1 = None
      /\ bn_mont_ctx = "unset" /\ bn_recp_ctx = "unset" /\ bench = None
  BY <1>1 DEF InitMath
<1> QED
  BY <1>2, <1>3, <1>4 DEF TypeInv

(* Each pass of the loop takes characters and adds bytes.                  *)
LEMMA DecodeTypes ==
  ASSUME TypeInv, DecodeGroup
  PROVE  b64' \in Seq(0 .. 255) /\ data' \in Seq(0 .. 255) /\ bad' \in BOOLEAN
<1> DEFINE buf_size == IF Cardinality(Significant) >= 4 THEN 4 ELSE Cardinality(Significant)
           n == IF buf_size = 4 THEN Place(4) ELSE Len(b64)
           buf == [k \in 1 .. buf_size |-> b64[Place(k)]]
<1>1. IF Valid(buf)
        THEN /\ data' = data \o BytesOf(buf)
             /\ b64' = SubSeq(b64, n + 1, Len(b64))
             /\ bad' = FALSE
        ELSE bad' = TRUE /\ UNCHANGED <<b64, data>>
  BY Zenon DEF DecodeGroup
<1>2. b64 \in Seq(0 .. 255) /\ data \in Seq(0 .. 255) /\ Len(b64) \in Nat
  BY DEF TypeInv
<1>3. IsFiniteSet(Significant) /\ Significant \subseteq 1 .. Len(b64)
  <2>1. Significant \subseteq 1 .. Len(b64)
    BY DEF Significant
  <2>2. IsFiniteSet(1 .. Len(b64))
    BY <1>2, FS_Interval
  <2> QED
    BY <2>1, <2>2, FS_Subset
<1>4. Cardinality(Significant) \in Nat
  BY <1>3, FS_CardinalityType
<1>5. buf_size \in 0 .. 4
  BY <1>4
<1>6. n \in Nat
  <2>1. CASE buf_size = 4
    <3>1. 4 \in 1 .. Cardinality(Significant)
      BY <1>4, <2>1
    <3>2. Place(4) \in 1 .. Len(b64)
      BY <1>2, <1>3, <3>1, PlaceIs
    <3> QED
      BY <1>2, <2>1, <3>2
  <2>2. CASE buf_size # 4
    BY <1>2, <2>2
  <2> QED
    BY <2>1, <2>2
<1> HIDE DEF n
<1>7. SubSeq(b64, n + 1, Len(b64)) \in Seq(0 .. 255)
  <2>1. n + 1 \in Int /\ Len(b64) \in Int /\ \A i \in n + 1 .. Len(b64) : b64[i] \in 0 .. 255
    <3>1. \A i \in n + 1 .. Len(b64) : i \in 1 .. Len(b64)
      BY <1>2, <1>6
    <3>2. \A i \in 1 .. Len(b64) : b64[i] \in 0 .. 255
      BY <1>2, ElementOfSeq
    <3>3. n + 1 \in Int /\ Len(b64) \in Int
      BY <1>2, <1>6
    <3> QED
      BY <3>1, <3>2, <3>3
  <2> QED
    BY <2>1, SubSeqProperties
<1> HIDE DEF buf_size
<1>8. Len(buf) = buf_size
  BY <1>5
<1> HIDE DEF buf
<1>9. Valid(buf) => BytesOf(buf) \in Seq(0 .. 255)
  BY <1>5, <1>8, BytesOfIs
<1>10. Valid(buf) => data \o BytesOf(buf) \in Seq(0 .. 255)
  BY <1>2, <1>9, ConcatProperties
<1> QED
  BY <1>1, <1>2, <1>7, <1>10

(* The types are kept by each step.                                        *)
LEMMA TypeNext == Inv /\ TypeInv /\ [Next]_vars => TypeInv'
<1> SUFFICES ASSUME Inv, TypeInv, [Next]_vars
             PROVE  TypeInv'
  OBVIOUS
<1> DEFINE Kept == /\ mod1' = mod1 /\ root1' = root1 /\ bn_mont_ctx' = bn_mont_ctx
                   /\ bn_recp_ctx' = bn_recp_ctx
           Text == b64' = b64 /\ data' = data /\ bad' = bad
<1>1. CASE Decode
  <2>1. b64' \in Seq(0 .. 255) /\ data' \in Seq(0 .. 255) /\ bad' \in BOOLEAN
    BY <1>1, DecodeTypes DEF Decode
  <2>2. Kept /\ item' = item /\ bench' = bench /\ phase' \in {"load", "fatal"}
    BY <1>1 DEF Decode, primes, contexts
  <2> QED
    BY <2>1, <2>2 DEF TypeInv
<1>2. CASE LoadKeyValues
  <2>1. Kept /\ item' = item /\ bench' = bench /\ phase' \in {"next", "fatal"}
    BY <1>2 DEF LoadKeyValues, Fatal, primes, contexts
  <2>2. b64' = b64 /\ bad' = bad /\ (data' = data \/ data' = <<>>)
    BY <1>2 DEF LoadKeyValues, Fatal, textvars
  <2>3. <<>> \in Seq(0 .. 255)
    OBVIOUS
  <2>4. b64' \in Seq(0 .. 255) /\ data' \in Seq(0 .. 255) /\ bad' \in BOOLEAN
    BY <2>2, <2>3, Zenon DEF TypeInv
  <2> QED
    BY <2>1, <2>4 DEF TypeInv
<1>3. CASE MakePrime
  <2>1. Text /\ item' = item /\ bench' = bench /\ bn_mont_ctx' = bn_mont_ctx
        /\ bn_recp_ctx' = bn_recp_ctx /\ phase' \in {"next", "fatal"}
    BY <1>3 DEF MakePrime, Fatal, textvars, contexts
  <2>2. (mod1' = mod1 /\ root1' = root1) \/ (mod1' \in Sizes /\ root1' \in Sizes)
    <3>1. PICK m \in random(KeyBits), returned \in Returned :
            IF ~ square_mod(returned) THEN Fatal
            ELSE /\ mod1' = m
                 /\ \E r \in random(m - 1) : root1' \in IF r = 0 THEN {0} ELSE 1 .. m
      BY <1>3 DEF MakePrime
    <3>2. m \in Sizes
      BY <3>1, MathAssumption DEF random, Sizes
    <3>3. 0 \in Sizes /\ 1 .. m \subseteq Sizes
      BY <3>2, MathAssumption DEF Sizes
    <3>4. CASE Fatal
      <4>1. mod1' = mod1 /\ root1' = root1
        BY <3>4, Zenon DEF Fatal, primes
      <4> QED
        BY <4>1
    <3>5. CASE ~ Fatal
      BY <3>1, <3>2, <3>3, <3>5
    <3> QED
      BY <3>4, <3>5
  <2> QED
    BY <2>1, <2>2 DEF TypeInv
<1>4. CASE NewBench
  <2> DEFINE do == RunMath[item]
  <2>1. item \in 1 .. 18 /\ do.mod \in {"n", "mod1"} /\ (item = SqrtItem => mod1 # None)
        /\ (do.op1 = "root1" => item = SqrtItem)
    BY <1>4, RunMathItems DEF TypeInv, NewBench
  <2>2. PICK size \in Operands(do.op1), returned \in Returned :
          /\ bench' = [op |-> do.op, kind |-> do.kind, op1 |-> size, mod |-> do.mod,
                       isSet |-> returned = 1]
          /\ bn_mont_ctx' \in IF do.kind \in MontgomeryKinds
                                THEN SetContext(bn_mont_ctx, do.mod, returned = 1) ELSE {bn_mont_ctx}
          /\ bn_recp_ctx' \in IF do.kind \in ReciprocalKinds
                                THEN SetContext(bn_recp_ctx, do.mod, returned = 1) ELSE {bn_recp_ctx}
    BY <1>4 DEF NewBench
  <2>3. Text /\ item' = item /\ mod1' = mod1 /\ root1' = root1 /\ phase' = "bench"
    BY <1>4 DEF NewBench, textvars, primes
  <2> HIDE DEF do
  <2>4. size \in Sizes
    <3>1. CASE do.op1 = "random"
      BY <2>2, <3>1, MathAssumption DEF Operands, RandomOperand, random, Sizes
    <3>2. CASE do.op1 = "root1"
      <4>1. size = root1
        BY <2>2, <3>2 DEF Operands
      <4> QED
        BY <2>1, <3>2, <4>1 DEF TypeInv
    <3>3. CASE do.op1 \notin {"random", "root1"}
      BY <2>2, <3>3, MathAssumption DEF Operands, Sizes
    <3> QED
      BY <3>1, <3>2, <3>3
  <2>5. {bn_mont_ctx', bn_recp_ctx'} \subseteq {"unset", "n", "mod1", "junk"}
    BY <2>1, <2>2 DEF SetContext, TypeInv
  <2>6. bench'.op1 = size
    BY <2>2
  <2> QED
    BY <2>1, <2>3, <2>4, <2>5, <2>6 DEF TypeInv
<1>5. CASE OneIteration
  <2>1. Text /\ Kept /\ item' = item /\ bench' = bench /\ phase' \in {"bench", "fatal"} /\ phase = "bench"
    BY <1>5 DEF OneIteration, Fatal, textvars, primes, contexts
  <2> QED
    BY <2>1 DEF TypeInv
<1>6. CASE EndBench
  <2>1. Text /\ Kept /\ bench' = None /\ phase' \in {"next", "done"} /\ phase = "bench" /\ item' = item + 1
    BY <1>6 DEF EndBench, textvars, primes, contexts
  <2> QED
    BY <2>1 DEF TypeInv
<1>7. CASE UNCHANGED vars
  BY <1>7 DEF vars, mathvars, textvars, TypeInv
<1> QED
  BY <1>1, <1>2, <1>3, <1>4, <1>5, <1>6, <1>7 DEF Next

(* The decoded key is made of bytes, whatever the file; the sizes of the   *)
(* numbers do not exceed that of the key; the benches are at most 18.      *)
THEOREM TypeCorrect == Spec => []TypeOK
<1>1. TypeInv => TypeOK
  <2> SUFFICES ASSUME TypeInv
               PROVE  TypeOK
    OBVIOUS
  <2>1. \A i \in DOMAIN data : data[i] \in 0 .. 255
    <3>1. data \in Seq(0 .. 255) /\ DOMAIN data = 1 .. Len(data)
      BY DEF TypeInv
    <3> QED
      BY <3>1, ElementOfSeq
  <2>2. item \in 1 .. Len(RunMath) + 1
    BY RunMathItems DEF TypeInv
  <2> QED
    BY <2>1, <2>2 DEF TypeInv, TypeOK, Sizes
<1>2. Spec => []TypeInv
  BY TypeInit, TypeNext, InvHolds, PTL DEF Spec
<1> QED
  BY <1>1, <1>2, PTL

-----------------------------------------------------------------------------
(* The key which was read. *)

(* While the file is read, its bytes are those of a key; then, the values  *)
(* were taken from this key.                                               *)
KeyInv ==
  /\ file.der \in Seq(0 .. 255) /\ file.der # <<>> /\ file.der[1] = Len(file.der) - 1
  /\ phase = "load" => /\ file.pem \in Seq(0 .. 255) /\ StartsPemFile(file.der, file.pem)
                       /\ Reading(file.pem, file.der)
  /\ phase \in {"next", "bench", "done"} => key = file.der

(* At the start the text of the file is to be read.                        *)
LEMMA KeyInit == Init => KeyInv
<1> SUFFICES ASSUME Init
             PROVE  KeyInv
  OBVIOUS
<1>1. PICK f \in PemFiles : InitMath(f)
  BY DEF Init
<1>2. file = f /\ phase = "load" /\ InitText(f.pem)
  BY <1>1 DEF InitMath
<1>3. f \in [der : Seq(0 .. 255), pem : Seq(0 .. 255)]
  BY MathAssumption
<1>4. f.der \in Seq(0 .. 255) /\ f.pem \in Seq(0 .. 255)
  BY <1>3
<1>5. f.der # <<>> /\ f.der[1] = Len(f.der) - 1 /\ StartsPemFile(f.der, f.pem)
  BY MathAssumption
<1>6. Reading(f.pem, f.der)
  BY <1>2, <1>4, <1>5, ReadingInit
<1> QED
  BY <1>2, <1>4, <1>5, <1>6 DEF KeyInv

(* Bytes with which the key starts are a structure when they are all of it.*)
LEMMA DerIsKey ==
  ASSUME NEW der \in Seq(0 .. 255), der # <<>>, der[1] = Len(der) - 1,
         NEW bytes \in Seq(0 .. 255), StartsWith(bytes, der), DerOf(bytes) # <<>>
  PROVE  DerOf(bytes) = der
<1> DEFINE n == Len(der)
           part == SubSeq(bytes, 1, n)
<1>1. bytes # <<>> /\ Len(bytes) > bytes[1] /\ DerOf(bytes) = SubSeq(bytes, 1, bytes[1] + 1)
  BY DEF DerOf
<1>2. n \in Nat /\ n > 0 /\ Len(bytes) \in Nat /\ Len(bytes) > 0
  BY <1>1
<1>3. Len(bytes) <= n /\ \A i \in 1 .. Len(bytes) : bytes[i] = der[i]
  BY DEF StartsWith
<1>4. bytes[1] = n - 1
  <2>1. 1 \in 1 .. Len(bytes)
    BY <1>2
  <2> QED
    BY <1>3, <2>1
<1>5. Len(bytes) = n /\ bytes[1] + 1 = n
  BY <1>1, <1>2, <1>3, <1>4
<1>6. DerOf(bytes) = part
  BY <1>1, <1>5
<1>7. \A i \in 1 .. n : bytes[i] \in 0 .. 255
  BY <1>5, ElementOfSeq
<1>8. /\ part \in Seq(0 .. 255) /\ Len(part) = IF 1 <= n THEN n - 1 + 1 ELSE 0
      /\ \A i \in 1 .. n - 1 + 1 : part[i] = bytes[1 + i - 1]
  <2>1. 1 \in Int /\ n \in Int
    BY <1>2
  <2> HIDE DEF n
  <2> QED
    BY <1>7, <2>1, SubSeqProperties
<1> HIDE DEF part, n
<1>9. Len(part) = n /\ \A i \in 1 .. n : part[i] = der[i]
  <2>1. n - 1 + 1 = n /\ \A i \in 1 .. n : 1 + i - 1 = i
    BY <1>2
  <2> QED
    BY <1>2, <1>3, <1>5, <1>8, <2>1
<1>10. part = der
  <2>1. Len(part) = Len(der) /\ \A i \in 1 .. Len(part) : part[i] = der[i]
    BY <1>9 DEF n
  <2> QED
    BY <1>8, <2>1, SeqEqual
<1> QED
  BY <1>6, <1>10

(* A group decoded is one more group of the key; a key kept is whole.      *)
LEMMA KeyNext == TypeInv /\ KeyInv /\ [Next]_vars => KeyInv'
<1> SUFFICES ASSUME TypeInv, KeyInv, [Next]_vars
             PROVE  KeyInv'
  OBVIOUS
<1>0. b64 \in Seq(0 .. 255) /\ data \in Seq(0 .. 255)
  BY DEF TypeInv
<1>1. CASE Decode
  <2>1. phase = "load" /\ DecodeGroup /\ phase' \in {"load", "fatal"} /\ file' = file
    BY <1>1 DEF Decode
  <2>2. PICK der, pem : der = file.der /\ pem = file.pem
    OBVIOUS
  <2>3. /\ der \in Seq(0 .. 255) /\ pem \in Seq(0 .. 255) /\ StartsPemFile(der, pem)
        /\ Reading(pem, der) /\ der # <<>> /\ der[1] = Len(der) - 1
    BY <2>1, <2>2 DEF KeyInv
  <2>4. Reading(pem, der)'
    BY <1>0, <2>1, <2>3, ReadingNext
  <2>5. file'.der = der /\ file'.pem = pem
    BY <2>1, <2>2
  <2>6. Reading(file.pem, file.der)'
    BY <2>4, <2>5 DEF Reading, InGroups
  <2> QED
    BY <2>1, <2>3, <2>5, <2>6, Zenon DEF KeyInv
<1>2. CASE LoadKeyValues
  <2>1. CASE Fatal
    BY <2>1 DEF Fatal, KeyInv
  <2>2. CASE /\ DerOf(data) # <<>> /\ key' = DerOf(data)
             /\ file' = [file EXCEPT !.pem = <<>>] /\ phase' = "next"
    <3>1. phase = "load"
      BY <1>2 DEF LoadKeyValues
    <3>2. StartsWith(data, file.der)
      BY <3>1 DEF KeyInv, Reading
    <3>3. DerOf(data) = file.der
      BY <1>0, <2>2, <3>2, DerIsKey DEF KeyInv
    <3>4. file'.der = file.der
      BY <2>2
    <3> QED
      BY <2>2, <3>3, <3>4 DEF KeyInv
  <2> QED
    BY <1>2, <2>1, <2>2 DEF LoadKeyValues
<1>3. CASE MakePrime
  <2>1. phase = "next" /\ key' = key /\ file' = file /\ phase' \in {"next", "fatal"}
    BY <1>3 DEF MakePrime, Fatal
  <2> QED
    BY <2>1 DEF KeyInv
<1>4. CASE NewBench
  <2>1. phase = "next" /\ key' = key /\ file' = file /\ phase' = "bench"
    BY <1>4 DEF NewBench
  <2> QED
    BY <2>1 DEF KeyInv
<1>5. CASE OneIteration
  <2>1. phase = "bench" /\ key' = key /\ file' = file /\ phase' \in {"bench", "fatal"}
    BY <1>5 DEF OneIteration, Fatal
  <2> QED
    BY <2>1 DEF KeyInv
<1>6. CASE EndBench
  <2>1. phase = "bench" /\ key' = key /\ file' = file /\ phase' \in {"next", "done"}
    BY <1>6 DEF EndBench
  <2> QED
    BY <2>1 DEF KeyInv
<1>7. CASE UNCHANGED vars
  BY <1>7 DEF vars, mathvars, textvars, KeyInv, Reading, InGroups
<1> QED
  BY <1>1, <1>2, <1>3, <1>4, <1>5, <1>6, <1>7 DEF Next

(* Wherever the file is cut, the benches run with the values of the key    *)
(* which was written in it, or not at all: for any lines and spaces in it. *)
THEOREM KeyIsRight == Spec => []RightKey
<1>1. KeyInv => RightKey
  BY DEF KeyInv, RightKey
<1>2. Spec => []TypeInv
  BY TypeInit, TypeNext, InvHolds, PTL DEF Spec
<1> QED
  BY <1>1, <1>2, KeyInit, KeyNext, PTL DEF Spec

(* The number of bits of a number of the key is what its value needs,      *)
(* whatever zeroes lead it, for any bytes.                                 *)
THEOREM SizesAreExact == Spec => []BitsExact
<1>1. TypeInv => BitsExact
  <2> SUFFICES ASSUME TypeInv
               PROVE  BitsExact
    OBVIOUS
  <2> DEFINE num == SubSeq(data, 2, Len(data))
  <2>1. data \in Seq(0 .. 255)
    BY DEF TypeInv
  <2>2. num \in Seq(0 .. 255)
    <3>1. Len(data) \in Int /\ 2 \in Int
      BY <2>1
    <3>2. \A i \in 2 .. Len(data) : data[i] \in 0 .. 255
      <4>1. \A i \in 2 .. Len(data) : i \in 1 .. Len(data)
        BY <3>1
      <4> QED
        BY <2>1, <4>1, ElementOfSeq
    <3> QED
      BY <3>1, <3>2, SubSeqProperties
  <2> HIDE DEF num
  <2>3. /\ NumberOf(num) < PowerOf2(large_number_bits(num))
        /\ large_number_bits(num) > 0 => NumberOf(num) >= PowerOf2(large_number_bits(num) - 1)
    BY <2>2, SizeIsExact
  <2> QED
    BY <2>3, Zenon DEF BitsExact, num
<1>2. Spec => []TypeInv
  BY TypeInit, TypeNext, InvHolds, PTL DEF Spec
<1> QED
  BY <1>1, <1>2, PTL

=============================================================================
