--------------------------- MODULE Arm64AesProofs ---------------------------
(***************************************************************************)
(* Proofs about class arm64::aes: for the three key sizes, whatever keys   *)
(* the object had before, the key expansion gives the words of FIPS 197,   *)
(* encryption is the cipher of FIPS 197 and decryption undoes it.          *)
(*                                                                         *)
(* What a recursive function computes is proved without induction over the *)
(* data: a function which satisfies the recursion is exhibited, and two of *)
(* them cannot differ, since there would be a first place where they do.   *)
(***************************************************************************)
EXTENDS Arm64Aes, SequenceTheorems, TLAPS, WellFoundedInduction

(* A set of naturals has a least element, unless it is empty.              *)
LEMMA LeastNat ==
  ASSUME NEW T, T \subseteq Nat, T # {}
  PROVE  \E x \in T : \A y \in T : x <= y
<1>1. IsWellFoundedOn(OpToRel(<, Nat), Nat)
  BY NatLessThanWellFounded
<1> DEFINE R == {ss \in Nat \X Nat : ss[1] < ss[2]}
<1>2. OpToRel(<, Nat) = R
  BY DEF OpToRel
<1>3. IsWellFoundedOn(R, Nat)
  BY <1>1, <1>2
<1>4. \E x \in T : \A y \in T : ~ (<<y, x>> \in R)
  <2> HIDE DEF R
  <2> QED
    BY <1>3, WFMin
<1>5. \A x, y \in Nat : <<y, x>> \notin R => x <= y
  OBVIOUS
<1> QED
  BY <1>4, <1>5

-----------------------------------------------------------------------------
(* The numbers of the three key sizes.                                     *)
LEMMA KeySizes ==
  ASSUME NEW bits \in KeyBits
  PROVE  /\ Rounds(bits) = CASE bits = 128 -> 10 [] bits = 192 -> 12 [] bits = 256 -> 14
         /\ FipsRounds(bits) = Rounds(bits)
         /\ LastRound(bits) = Rounds(bits)
         /\ EndOfKey(bits) = 4 * Rounds(bits) + 4
         /\ bits \div 32 \in {4, 6, 8}
         /\ EndOfKey(bits) = (bits \div 32) * LoopEnd(bits) + 4
         /\ Rounds(bits) \in 10 .. 14
<1>1. CASE bits = 128
  BY <1>1 DEF Rounds, FipsRounds, LastRound, EndOfKey, LoopEnd
<1>2. CASE bits = 192
  BY <1>2 DEF Rounds, FipsRounds, LastRound, EndOfKey, LoopEnd
<1>3. CASE bits = 256
  BY <1>3 DEF Rounds, FipsRounds, LastRound, EndOfKey, LoopEnd
<1> QED
  BY <1>1, <1>2, <1>3 DEF KeyBits

(* Every word is derived as FIPS 197 derives it from words which are right.*)
LEMMA WordIsRight ==
  ASSUME NEW bits \in KeyBits, NEW w, NEW n \in 0 .. EndOfKey(bits) - 1,
         \A m \in 0 .. n - 1 : w[m] = m
  PROVE  Word(bits, w, n) = n
<1> DEFINE Nk == bits \div 32
<1>1. /\ Nk \in {4, 6, 8} /\ EndOfKey(bits) = Nk * LoopEnd(bits) + 4
      /\ EndOfKey(bits) \in Nat
  BY KeySizes
<1> HIDE DEF Nk
<1>2. CASE n < Nk
  BY <1>2 DEF Word, Nk
<1>3. CASE ~ (n < Nk)
  <2>1. w[n - Nk] = n - Nk /\ w[n - 1] = n - 1
    BY <1>1, <1>3
  <2>2. Word(bits, w, n) = Derived(Nk, n - Nk, n - 1, Transform(Nk, n % Nk), n \div Nk - 1)
    BY <1>1, <1>3, <2>1 DEF Word, Nk
  <2>3. Transform(Nk, n % Nk) = FipsTransform(Nk, n)
    BY DEF Transform, FipsTransform
  <2> DEFINE x == n - Nk
             y == n - 1
             rc == n \div Nk - 1
  <2>4. y + 1 = n /\ x + Nk = y + 1 /\ rc + 1 = n \div Nk /\ Junk \notin {x, y}
    BY <1>1, <1>3, KeySizes DEF Junk
  <2>5. Word(bits, w, n) = Derived(Nk, x, y, FipsTransform(Nk, n), rc)
    BY <2>2, <2>3
  <2> HIDE DEF x, y, rc
  <2> QED
    BY <2>4, <2>5 DEF Derived
<1> QED
  BY <1>2, <1>3

(* No word is computed past those which are used.                          *)
LEMMA WordPastEnd ==
  ASSUME NEW bits \in KeyBits, NEW w, NEW n \in EndOfKey(bits) .. 59
  PROVE  Word(bits, w, n) = Junk
<1> DEFINE Nk == bits \div 32
<1>1. /\ Nk \in {4, 6, 8} /\ EndOfKey(bits) = Nk * LoopEnd(bits) + 4
      /\ EndOfKey(bits) \in 44 .. 60
  BY KeySizes
<1> HIDE DEF Nk
<1>2. ~ (n < Nk) /\ ~ (n < Nk * LoopEnd(bits) + 4)
  BY <1>1
<1> QED
  BY <1>2 DEF Word, Nk

(* The expanded key is that of FIPS 197.                                   *)
LEMMA ExpandedIsFips ==
  ASSUME NEW bits \in KeyBits
  PROVE  \A n \in 0 .. EndOfKey(bits) - 1 : ekey[bits][n] = n
<1> DEFINE E == Expanded(bits)
           W == [n \in 0 .. 59 |-> IF n < EndOfKey(bits) THEN n ELSE Junk]
<1>1. EndOfKey(bits) \in 44 .. 60
  BY KeySizes
<1>2. W = [n \in 0 .. 59 |-> Word(bits, W, n)]
  <2> SUFFICES ASSUME NEW n \in 0 .. 59 PROVE W[n] = Word(bits, W, n)
    BY Zenon
  <2>1. CASE n < EndOfKey(bits)
    BY <1>1, <2>1, WordIsRight
  <2>2. CASE ~ (n < EndOfKey(bits))
    BY <1>1, <2>2, WordPastEnd
  <2> QED
    BY <2>1, <2>2
<1>3. E = [n \in 0 .. 59 |-> Word(bits, E, n)]
  <2> DEFINE F == CHOOSE w : w = [n \in 0 .. 59 |-> Word(bits, w, n)]
  <2>1. F = [n \in 0 .. 59 |-> Word(bits, F, n)]
    <3> HIDE DEF W
    <3> QED
      BY <1>2
  <2>2. E = F
    BY DEF Expanded
  <2> QED
    BY <2>1, <2>2
<1> HIDE DEF E, W
<1> DEFINE wrong == {n \in 0 .. EndOfKey(bits) - 1 : E[n] # n}
<1>4. wrong = {}
  <2> SUFFICES ASSUME wrong # {} PROVE FALSE
    OBVIOUS
  <2>1. wrong \subseteq Nat
    BY <1>1
  <2>2. PICK n \in wrong : \A m \in wrong : n <= m
    <3> HIDE DEF wrong
    <3> QED
      BY <2>1, LeastNat
  <2>3. \A m \in 0 .. n - 1 : E[m] = m
    BY <1>1, <2>2
  <2>4. Word(bits, E, n) = n
    BY <2>2, <2>3, WordIsRight
  <2> QED
    BY <1>1, <1>3, <2>2, <2>4
<1> QED
  BY <1>4 DEF ekey, E

-----------------------------------------------------------------------------
(* The round keys of FIPS 197, forwards and backwards.                     *)
LEMMA ScheduleIsFips ==
  ASSUME NEW bits \in KeyBits, NEW i \in 0 .. Rounds(bits)
  PROVE  /\ Schedule[bits].encrypt[i] = [round |-> i, imc |-> FALSE]
         /\ Schedule[bits].decrypt[i] =
              IF i \in 1 .. Rounds(bits) - 1
                THEN [round |-> Rounds(bits) - i, imc |-> TRUE]
                ELSE [round |-> Rounds(bits) - i, imc |-> FALSE]
<1>1. Rounds(bits) \in 10 .. 14 /\ EndOfKey(bits) = 4 * Rounds(bits) + 4
  BY KeySizes
<1>2. ASSUME NEW r \in 0 .. Rounds(bits), NEW imc
      PROVE  FourWords(bits, 4 * r, imc) = [round |-> r, imc |-> imc]
  <2> DEFINE w == ekey[bits]
  <2>1. \A m \in 0 .. 3 : w[4 * r + m] = 4 * r + m
    BY <1>1, ExpandedIsFips
  <2>2. w[4 * r] = 4 * r /\ 4 * r # Junk
    BY <1>1, <2>1 DEF Junk
  <2>3. (4 * r) % 4 = 0 /\ (4 * r) \div 4 = r
    BY <1>1
  <2>4. \A m \in 1 .. 3 : w[4 * r + m] = w[4 * r] + m
    BY <1>1, <2>1, <2>2
  <2> QED
    BY <2>2, <2>3, <2>4 DEF FourWords
<1>3. EndOfKey(bits) - 4 - 4 * i = 4 * (Rounds(bits) - i) /\ Rounds(bits) - i \in 0 .. Rounds(bits)
  BY <1>1
<1>4. Schedule[bits].encrypt[i] = FourWords(bits, 4 * i, FALSE)
  BY DEF Schedule
<1>5. Schedule[bits].decrypt[i]
        = FourWords(bits, EndOfKey(bits) - 4 - 4 * i, i \in 1 .. Rounds(bits) - 1)
  BY DEF Schedule
<1>6. CASE i \in 1 .. Rounds(bits) - 1
  <2>1. (i \in 1 .. Rounds(bits) - 1) = TRUE
    BY <1>6
  <2>2. Schedule[bits].decrypt[i] = FourWords(bits, EndOfKey(bits) - 4 - 4 * i, TRUE)
    BY <1>5, <2>1, Zenon
  <2> QED
    BY <1>2, <1>3, <1>4, <1>6, <2>2
<1>7. CASE ~ (i \in 1 .. Rounds(bits) - 1)
  <2>1. (i \in 1 .. Rounds(bits) - 1) = FALSE
    BY <1>7
  <2>2. Schedule[bits].decrypt[i] = FourWords(bits, EndOfKey(bits) - 4 - 4 * i, FALSE)
    BY <1>5, <2>1, Zenon
  <2> QED
    BY <1>2, <1>3, <1>4, <1>7, <2>2
<1> QED
  BY <1>6, <1>7

(* The object has the round keys of a key, and perhaps those of other keys *)
(* after them.                                                             *)
InvMixedKey(k, r) == [key |-> k, round |-> r, imc |-> TRUE]
DecryptKey(k, bits, i) ==
  IF i \in 1 .. Rounds(bits) - 1
    THEN InvMixedKey(k, Rounds(bits) - i)
    ELSE RoundKey(k, Rounds(bits) - i)
Keyed(k, bits) ==
  /\ arm64.kbits = bits
  /\ \A i \in 0 .. Rounds(bits) : arm64.aekey[i] = RoundKey(k, i)
  /\ \A i \in 0 .. Rounds(bits) : arm64.adkey[i] = DecryptKey(k, bits, i)

(* set_key() stores them, whatever the object had before.                  *)
LEMMA SetKeyKeys ==
  ASSUME NEW k, NEW bits \in KeyBits, set_key(k, bits)
  PROVE  Keyed(k, bits)'
<1>1. ASSUME NEW i \in 0 .. Rounds(bits)
      PROVE  arm64'.aekey[i] = RoundKey(k, i) /\ arm64'.adkey[i] = DecryptKey(k, bits, i)
  <2>1. i \in Slots
    BY KeySizes DEF Slots
  <2>2. i \in DOMAIN Schedule[bits].encrypt /\ i \in DOMAIN Schedule[bits].decrypt
    BY DEF Schedule
  <2>3. arm64'.aekey[i] = [key |-> k, round |-> Schedule[bits].encrypt[i].round,
                           imc |-> Schedule[bits].encrypt[i].imc]
    BY <2>1, <2>2 DEF set_key
  <2>4. arm64'.adkey[i] = [key |-> k, round |-> Schedule[bits].decrypt[i].round,
                           imc |-> Schedule[bits].decrypt[i].imc]
    BY <2>1, <2>2 DEF set_key
  <2> DEFINE middle == i \in 1 .. Rounds(bits) - 1
  <2>5. /\ Schedule[bits].encrypt[i] = [round |-> i, imc |-> FALSE]
        /\ Schedule[bits].decrypt[i] = IF middle THEN [round |-> Rounds(bits) - i, imc |-> TRUE]
                                                 ELSE [round |-> Rounds(bits) - i, imc |-> FALSE]
    BY ScheduleIsFips
  <2>6. arm64'.aekey[i] = RoundKey(k, i)
    BY <2>3, <2>5 DEF RoundKey
  <2>7. CASE middle
    BY <2>4, <2>5, <2>6, <2>7 DEF DecryptKey, InvMixedKey
  <2>8. CASE ~ middle
    BY <2>4, <2>5, <2>6, <2>8 DEF DecryptKey, RoundKey
  <2> QED
    BY <2>7, <2>8
<1>2. arm64'.kbits = bits
  BY DEF set_key
<1> QED
  BY <1>1, <1>2 DEF Keyed

(* The slots only ever hold round keys.                                    *)
LEMMA SetKeyTypes ==
  ASSUME NEW k, NEW bits \in KeyBits, TypeOKArm64, set_key(k, bits)
  PROVE  TypeOKArm64'
<1>1. ASSUME NEW i \in Slots
      PROVE  arm64'.aekey[i].round \in 0 .. 14 \cup {Junk} /\ arm64'.adkey[i].round \in 0 .. 14 \cup {Junk}
  <2>1. DOMAIN Schedule[bits].encrypt = 0 .. Rounds(bits) /\ DOMAIN Schedule[bits].decrypt = 0 .. Rounds(bits)
    BY DEF Schedule
  <2>2. CASE i \in 0 .. Rounds(bits)
    <3>1. Rounds(bits) \in 10 .. 14
      BY KeySizes
    <3>2. arm64'.aekey[i] = RoundKey(k, i) /\ arm64'.adkey[i] = DecryptKey(k, bits, i)
      BY <2>2, SetKeyKeys DEF Keyed
    <3> QED
      BY <2>2, <3>1, <3>2 DEF RoundKey, InvMixedKey, DecryptKey
  <2>3. CASE i \notin 0 .. Rounds(bits)
    <3>1. arm64'.aekey[i] = arm64.aekey[i] /\ arm64'.adkey[i] = arm64.adkey[i]
      BY <2>1, <2>3 DEF set_key
    <3> QED
      BY <3>1 DEF TypeOKArm64
  <2> QED
    BY <2>2, <2>3
<1>2. arm64'.kbits \in KeyBits
  BY DEF set_key
<1> QED
  BY <1>1, <1>2 DEF TypeOKArm64

-----------------------------------------------------------------------------
(* Encryption is the cipher of FIPS 197.                                   *)
LEMMA EncryptIsCipher ==
  ASSUME NEW k, NEW bits \in KeyBits, Keyed(k, bits)
  PROVE  EncryptSteps = Cipher(k, bits)
<1> DEFINE n == Rounds(bits)
<1>1. /\ n \in 10 .. 14 /\ FipsRounds(bits) = n /\ LastRound(arm64.kbits) = n
  BY KeySizes DEF Keyed
<1> HIDE DEF n
<1>2. \A i \in 0 .. n : arm64.aekey[i] = RoundKey(k, i)
  BY DEF Keyed, n
<1>3. ASSUME NEW j \in 1 .. 3 * n PROVE EncryptSteps[j] = Cipher(k, bits)[j]
  <2> DEFINE i == (j - 1) \div 3
  <2>1. i \in 0 .. n - 1
    BY <1>1
  <2>2. CASE j % 3 = 1
    <3>1. EncryptSteps[j] = Add(arm64.aekey[i])
      BY <1>1, <2>2 DEF EncryptSteps, InstructionRounds
    <3>2. j = 1 => i = 0
      OBVIOUS
    <3>3. j # 1 => (j - 2) \div 3 + 1 = i
      BY <1>1, <2>2
    <3>4. Cipher(k, bits)[j] = IF j = 1 THEN Add(RoundKey(k, 0)) ELSE Add(RoundKey(k, (j - 2) \div 3 + 1))
      BY <1>1, <2>2 DEF Cipher
    <3> QED
      BY <1>1, <1>2, <2>1, <3>1, <3>2, <3>3, <3>4
  <2>3. CASE j % 3 = 2
    <3>1. j # 1
      BY <2>3
    <3> QED
      BY <1>1, <2>3, <3>1 DEF EncryptSteps, InstructionRounds, Cipher
  <2>4. CASE j % 3 = 0
    <3>1. j # 1 /\ ((j - 2) \div 3 + 1 = n <=> i = n - 1)
      BY <1>1, <2>4
    <3>2. EncryptSteps[j] = IF i = n - 1 THEN Add(arm64.aekey[n]) ELSE MixColumns
      BY <1>1, <2>4 DEF EncryptSteps, InstructionRounds
    <3>3. Cipher(k, bits)[j] = IF (j - 2) \div 3 + 1 = n THEN Add(RoundKey(k, n)) ELSE MixColumns
      BY <1>1, <2>4, <3>1 DEF Cipher
    <3> QED
      BY <1>1, <1>2, <3>1, <3>2, <3>3
  <2>5. j % 3 \in 0 .. 2
    BY <1>1
  <2> QED
    BY <2>2, <2>3, <2>4, <2>5
<1>4. DOMAIN EncryptSteps = 1 .. 3 * n /\ DOMAIN Cipher(k, bits) = 1 .. 3 * n
  BY <1>1 DEF EncryptSteps, InstructionRounds, Cipher
<1>5. /\ EncryptSteps = [j \in DOMAIN EncryptSteps |-> EncryptSteps[j]]
      /\ Cipher(k, bits) = [j \in DOMAIN Cipher(k, bits) |-> Cipher(k, bits)[j]]
  BY DEF EncryptSteps, InstructionRounds, Cipher
<1> QED
  BY <1>3, <1>4, <1>5

-----------------------------------------------------------------------------
(* What is left of a cipher after each step of a decryption, when it can   *)
(* be told: nothing in the end.                                            *)
LEMMA InvertsBy ==
  ASSUME NEW d, NEW e, NEW G, Len(d) \in Nat,
         G = [i \in 0 .. Len(d) |-> IF i = 0 THEN e ELSE After(G[i - 1], d[i])],
         G[Len(d)] = <<>>
  PROVE  Inverts(d, e)
<1> DEFINE F == CHOOSE f : f = [i \in 0 .. Len(d) |-> IF i = 0 THEN e ELSE After(f[i - 1], d[i])]
<1>1. F = [i \in 0 .. Len(d) |-> IF i = 0 THEN e ELSE After(F[i - 1], d[i])]
  BY Zenon
<1>2. Inverts(d, e) = (F[Len(d)] = <<>>)
  BY DEF Inverts
<1> HIDE DEF F
<1> DEFINE differ == {i \in 0 .. Len(d) : F[i] # G[i]}
<1>3. differ = {}
  <2> SUFFICES ASSUME differ # {} PROVE FALSE
    OBVIOUS
  <2>1. PICK i \in differ : \A m \in differ : i <= m
    <3>1. differ \subseteq Nat
      OBVIOUS
    <3> HIDE DEF differ
    <3> QED
      BY <3>1, LeastNat
  <2>2. CASE i = 0
    BY <1>1, <2>1, <2>2
  <2>3. CASE i # 0
    <3>1. F[i - 1] = G[i - 1]
      BY <2>1, <2>3
    <3>2. F[i] = After(F[i - 1], d[i]) /\ G[i] = After(G[i - 1], d[i])
      BY <1>1, <2>1, <2>3
    <3> QED
      BY <2>1, <3>1, <3>2
  <2> QED
    BY <2>2, <2>3
<1>4. Len(d) \in 0 .. Len(d)
  OBVIOUS
<1>5. F[Len(d)] = G[Len(d)]
  BY <1>3, <1>4, Zenon
<1> QED
  BY <1>2, <1>5

(* The last step of a beginning of a cipher, of one with a step added.     *)
Begin(c, m) == [j \in 1 .. m |-> c[j]]

(* The last block of a beginning, and what is before it.                   *)
LEMMA BeginEnd ==
  ASSUME NEW c, NEW m \in Nat \ {0}
  PROVE  Begin(c, m) # <<>> /\ Last(Begin(c, m)) = c[m] /\ Front(Begin(c, m)) = Begin(c, m - 1)
<1>1. Len(Begin(c, m)) = m
  BY DEF Begin
<1>2. Front(Begin(c, m)) = [j \in 1 .. m - 1 |-> c[j]]
  BY <1>1 DEF Front, Begin
<1> QED
  BY <1>1, <1>2 DEF Begin, Last

(* A beginning that is one block longer.                                   *)
LEMMA BeginAppend ==
  ASSUME NEW c, NEW m \in Nat, NEW x
  PROVE  LET s == Append(Begin(c, m), x)
         IN  s # <<>> /\ Last(s) = x /\ Front(s) = Begin(c, m)
<1> DEFINE S == {c[j] : j \in 1 .. m} \cup {x}
           s == Append(Begin(c, m), x)
<1>1. Begin(c, m) \in Seq(S) /\ Len(Begin(c, m)) = m
  BY DEF Begin
<1>2. /\ s \in Seq(S) /\ Len(s) = m + 1 /\ s[m + 1] = x
      /\ \A j \in 1 .. m : s[j] = c[j]
  BY <1>1 DEF Begin
<1> HIDE DEF s
<1>3. Front(s) = [j \in 1 .. m |-> c[j]]
  BY <1>2 DEF Front
<1>4. s # <<>> /\ Last(s) = x /\ Front(s) = Begin(c, m)
  BY <1>2, <1>3 DEF Last, Begin
<1> QED
  BY <1>4 DEF s

(* The steps of the cipher, and those of decryption.                       *)
LEMMA CipherSteps ==
  ASSUME NEW k, NEW bits \in KeyBits
  PROVE  LET n == Rounds(bits)
             c == Cipher(k, bits)
         IN  /\ c = Begin(c, 3 * n)
             /\ c[1] = Add(RoundKey(k, 0)) /\ c[3 * n] = Add(RoundKey(k, n))
             /\ \A m \in 1 .. n - 1 : c[3 * m] = MixColumns /\ c[3 * m + 1] = Add(RoundKey(k, m))
             /\ \A m \in 0 .. n - 1 : c[3 * m + 2] = SubShift
<1> DEFINE n == Rounds(bits)
           c == Cipher(k, bits)
<1>1. n \in 10 .. 14 /\ FipsRounds(bits) = n
  BY KeySizes
<1> HIDE DEF n
<1>2. c = [j \in 1 .. 3 * n |-> c[j]]
  BY <1>1 DEF Cipher
<1>3. c[1] = Add(RoundKey(k, 0))
  BY <1>1 DEF Cipher
<1>4. ASSUME NEW j \in 1 .. 3 * n, j % 3 = 0
      PROVE  c[j] = IF (j - 2) \div 3 + 1 = n THEN Add(RoundKey(k, n)) ELSE MixColumns
  <2>1. j # 1
    BY <1>4
  <2> QED
    BY <1>1, <1>4, <2>1 DEF Cipher
<1>5. ASSUME NEW j \in 2 .. 3 * n, j % 3 = 1
      PROVE  c[j] = Add(RoundKey(k, (j - 2) \div 3 + 1))
  BY <1>1, <1>5 DEF Cipher
<1>6. ASSUME NEW j \in 1 .. 3 * n, j % 3 = 2
      PROVE  c[j] = SubShift
  <2>1. j # 1
    BY <1>6
  <2> QED
    BY <1>1, <1>6, <2>1 DEF Cipher
<1> HIDE DEF c
<1>7. c[3 * n] = Add(RoundKey(k, n))
  <2>1. 3 * n \in 1 .. 3 * n /\ (3 * n) % 3 = 0 /\ (3 * n - 2) \div 3 + 1 = n
    BY <1>1
  <2> QED
    BY <1>4, <2>1
<1>8. ASSUME NEW m \in 1 .. n - 1
      PROVE  c[3 * m] = MixColumns /\ c[3 * m + 1] = Add(RoundKey(k, m))
  <2>1. /\ 3 * m \in 1 .. 3 * n /\ (3 * m) % 3 = 0 /\ (3 * m - 2) \div 3 + 1 = m
        /\ 3 * m + 1 \in 2 .. 3 * n /\ (3 * m + 1) % 3 = 1 /\ ((3 * m + 1) - 2) \div 3 + 1 = m
        /\ m # n
    BY <1>1
  <2> QED
    BY <1>4, <1>5, <2>1
<1>9. ASSUME NEW m \in 0 .. n - 1
      PROVE  c[3 * m + 2] = SubShift
  <2>1. 3 * m + 2 \in 1 .. 3 * n /\ (3 * m + 2) % 3 = 2
    BY <1>1
  <2> QED
    BY <1>6, <2>1
<1> QED
  BY <1>2, <1>3, <1>7, <1>8, <1>9 DEF Begin, c, n

(* Decryption undoes the cipher of FIPS 197, step after step.              *)
LEMMA DecryptInverts ==
  ASSUME NEW k, NEW bits \in KeyBits, Keyed(k, bits)
  PROVE  Inverts(DecryptSteps, Cipher(k, bits))
<1> DEFINE n == Rounds(bits)
           c == Cipher(k, bits)
           d == DecryptSteps
           Mixed(r) == Add(InvMixed(RoundKey(k, r)))
<1>1. n \in 10 .. 14 /\ LastRound(arm64.kbits) = n
  BY KeySizes DEF Keyed
<1>2. /\ c = Begin(c, 3 * n)
      /\ c[1] = Add(RoundKey(k, 0)) /\ c[3 * n] = Add(RoundKey(k, n))
      /\ \A m \in 1 .. n - 1 : c[3 * m] = MixColumns /\ c[3 * m + 1] = Add(RoundKey(k, m))
      /\ \A m \in 0 .. n - 1 : c[3 * m + 2] = SubShift
  BY CipherSteps
<1>3. /\ arm64.adkey[0] = RoundKey(k, n) /\ arm64.adkey[n] = RoundKey(k, 0)
      /\ \A m \in 1 .. n - 1 : arm64.adkey[m] = InvMixed(RoundKey(k, n - m))
  <2>1. \A m \in 0 .. n : arm64.adkey[m] = DecryptKey(k, bits, m)
    BY DEF Keyed
  <2>2. DecryptKey(k, bits, 0) = RoundKey(k, n) /\ DecryptKey(k, bits, n) = RoundKey(k, 0)
    <3>1. 0 \notin 1 .. n - 1 /\ n \notin 1 .. n - 1 /\ n - 0 = n /\ n - n = 0
      BY <1>1
    <3> QED
      BY <3>1 DEF DecryptKey
  <2>3. ASSUME NEW m \in 1 .. n - 1
        PROVE  DecryptKey(k, bits, m) = InvMixed(RoundKey(k, n - m))
    <3>1. DecryptKey(k, bits, m) = InvMixedKey(k, n - m)
      BY DEF DecryptKey
    <3> QED
      BY <3>1 DEF InvMixedKey, RoundKey, InvMixed
  <2> QED
    BY <1>1, <2>1, <2>2, <2>3
<1> HIDE DEF n, c
<1>4. /\ d = [j \in 1 .. 3 * n |-> d[j]] /\ Len(d) = 3 * n
      /\ \A m \in 0 .. n - 1 :
           /\ d[3 * m + 1] = Add(arm64.adkey[m])
           /\ d[3 * m + 2] = InvSubShift
           /\ d[3 * m + 3] = IF m = n - 1 THEN Add(arm64.adkey[n]) ELSE InvMixColumns
  <2>1. d = [j \in 1 .. 3 * n |-> d[j]]
    BY <1>1 DEF DecryptSteps, InstructionRounds
  <2>2. Len(d) = 3 * n
    BY <1>1, <2>1
  <2>3. ASSUME NEW m \in 0 .. n - 1
        PROVE  /\ d[3 * m + 1] = Add(arm64.adkey[m])
               /\ d[3 * m + 2] = InvSubShift
               /\ d[3 * m + 3] = IF m = n - 1 THEN Add(arm64.adkey[n]) ELSE InvMixColumns
    <3>1. /\ {3 * m + 1, 3 * m + 2, 3 * m + 3} \subseteq 1 .. 3 * n
          /\ (3 * m + 1) % 3 = 1 /\ (3 * m + 2) % 3 = 2 /\ (3 * m + 3) % 3 = 0
          /\ ((3 * m + 1) - 1) \div 3 = m /\ ((3 * m + 3) - 1) \div 3 = m
      BY <1>1
    <3>2. d[3 * m + 1] = Add(arm64.adkey[m])
      <4> DEFINE j == 3 * m + 1
      <4>1. j \in 1 .. 3 * n /\ j % 3 = 1 /\ (j - 1) \div 3 = m
        BY <3>1
      <4> HIDE DEF j
      <4>2. d[j] = Add(arm64.adkey[m])
        BY <1>1, <4>1 DEF DecryptSteps, InstructionRounds
      <4> QED
        BY <4>2 DEF j
    <3>3. d[3 * m + 2] = InvSubShift
      BY <1>1, <3>1 DEF DecryptSteps, InstructionRounds
    <3>4. d[3 * m + 3] = IF m = n - 1 THEN Add(arm64.adkey[n]) ELSE InvMixColumns
      BY <1>1, <3>1 DEF DecryptSteps, InstructionRounds
    <3> QED
      BY <3>2, <3>3, <3>4
  <2> QED
    BY <2>1, <2>2, <2>3
<1> HIDE DEF d, Mixed
<1>5. ASSUME NEW rk, NEW done, done # <<>>, Last(done) = Add(rk)
      PROVE  After(done, Add(rk)) = Front(done)
  <2>1. Add(rk).step = "add" /\ Add(rk) # InvSubShift /\ Add(rk) # InvMixColumns
    BY DEF Add, InvSubShift, InvMixColumns
  <2>2. After(done, Add(rk)) = Undo(done, Add(rk), Add(rk))
    BY <2>1 DEF After
  <2> QED
    BY <1>5, <2>2 DEF Undo
<1>6. ASSUME NEW m \in 0 .. n - 1
      PROVE  After(Begin(c, 3 * (n - m) - 1), InvSubShift) = Begin(c, 3 * (n - m) - 2)
  <2> DEFINE b == 3 * (n - m) - 1
  <2>1. b \in Nat \ {0} /\ c[b] = SubShift
    <3>1. b \in Nat \ {0} /\ b = 3 * (n - m - 1) + 2 /\ n - m - 1 \in 0 .. n - 1
      BY <1>1
    <3> QED
      BY <1>2, <3>1
  <2>2. b - 1 = 3 * (n - m) - 2
    BY <1>1
  <2> HIDE DEF b
  <2>3. InvSubShift.step # "add" /\ InvSubShift # InvMixColumns
    BY DEF InvSubShift, InvMixColumns
  <2>4. Begin(c, b) # <<>> /\ Last(Begin(c, b)) = SubShift /\ Front(Begin(c, b)) = Begin(c, b - 1)
    BY <2>1, BeginEnd
  <2>5. After(Begin(c, b), InvSubShift) = Begin(c, b - 1)
    BY <2>3, <2>4 DEF After, Undo
  <2> QED
    BY <2>2, <2>5 DEF b
<1>7. ASSUME NEW m \in 0 .. n - 2
      PROVE  After(Begin(c, 3 * (n - m) - 2), InvMixColumns)
               = Append(Begin(c, 3 * (n - m - 1) - 1), Mixed(n - m - 1))
  <2> DEFINE r == n - m - 1
  <2>1. r \in 1 .. n - 1 /\ 3 * (n - m) - 2 = 3 * r + 1
    BY <1>1
  <2> HIDE DEF r
  <2>2. c[3 * r + 1] = Add(RoundKey(k, r)) /\ c[3 * r] = MixColumns
    BY <1>2, <2>1
  <2>3. 3 * r \in Nat \ {0} /\ 3 * r + 1 \in Nat \ {0} /\ (3 * r + 1) - 1 = 3 * r
    BY <1>1, <2>1
  <2>4. /\ Begin(c, 3 * r + 1) # <<>> /\ Last(Begin(c, 3 * r + 1)) = Add(RoundKey(k, r))
        /\ Front(Begin(c, 3 * r + 1)) = Begin(c, 3 * r)
    BY <2>2, <2>3, BeginEnd
  <2>5. /\ Begin(c, 3 * r) # <<>> /\ Last(Begin(c, 3 * r)) = MixColumns
        /\ Front(Begin(c, 3 * r)) = Begin(c, 3 * r - 1)
    BY <2>2, <2>3, BeginEnd
  <2>6. Undo(Begin(c, 3 * r), MixColumns, InvMixColumns) = Begin(c, 3 * r - 1)
    BY <2>5 DEF Undo
  <2>7. InvMixColumns.step # "add" /\ InvMixColumns # InvSubShift
    BY DEF InvMixColumns, InvSubShift
  <2>8. Add(RoundKey(k, r)).step = "add" /\ Add(RoundKey(k, r)).rk = RoundKey(k, r)
    BY DEF Add
  <2>9. After(Begin(c, 3 * r + 1), InvMixColumns) = Append(Begin(c, 3 * r - 1), Mixed(r))
    BY <2>4, <2>6, <2>7, <2>8 DEF After, Mixed
  <2> QED
    BY <2>1, <2>9 DEF r
<1> DEFINE G == [i \in 0 .. 3 * n |->
                   IF i % 3 = 0 /\ i \notin {0, 3 * n}
                     THEN Append(Begin(c, 3 * n - i - 1), Mixed(n - i \div 3))
                     ELSE Begin(c, 3 * n - i)]
<1>8. /\ G[0] = Begin(c, 3 * n) /\ G[3 * n] = Begin(c, 0)
      /\ \A m \in 1 .. n - 1 : G[3 * m] = Append(Begin(c, 3 * (n - m) - 1), Mixed(n - m))
      /\ \A m \in 0 .. n - 1 : /\ G[3 * m + 1] = Begin(c, 3 * (n - m) - 1)
                               /\ G[3 * m + 2] = Begin(c, 3 * (n - m) - 2)
  <2>1. G[0] = Begin(c, 3 * n) /\ G[3 * n] = Begin(c, 0)
    BY <1>1
  <2>2. ASSUME NEW m \in 1 .. n - 1
        PROVE  G[3 * m] = Append(Begin(c, 3 * (n - m) - 1), Mixed(n - m))
    <3>1. /\ 3 * m \in 0 .. 3 * n /\ (3 * m) % 3 = 0 /\ 3 * m \notin {0, 3 * n}
          /\ 3 * n - 3 * m - 1 = 3 * (n - m) - 1 /\ (3 * m) \div 3 = m
      BY <1>1
    <3> QED
      BY <3>1
  <2>3. ASSUME NEW m \in 0 .. n - 1
        PROVE  /\ G[3 * m + 1] = Begin(c, 3 * (n - m) - 1)
               /\ G[3 * m + 2] = Begin(c, 3 * (n - m) - 2)
    <3>1. /\ 3 * m + 1 \in 0 .. 3 * n /\ (3 * m + 1) % 3 # 0 /\ 3 * n - (3 * m + 1) = 3 * (n - m) - 1
          /\ 3 * m + 2 \in 0 .. 3 * n /\ (3 * m + 2) % 3 # 0 /\ 3 * n - (3 * m + 2) = 3 * (n - m) - 2
      BY <1>1
    <3> QED
      BY <3>1
  <2> QED
    BY <2>1, <2>2, <2>3
<1>9. DOMAIN G = 0 .. 3 * n /\ G = [i \in DOMAIN G |-> G[i]]
  OBVIOUS
<1> HIDE DEF G
<1>10. ASSUME NEW m \in 0 .. n - 1 PROVE After(G[3 * m], d[3 * m + 1]) = G[3 * m + 1]
  <2>1. CASE m = 0
    <3>0. 3 * m = 0 /\ 3 * (n - m) - 1 = 3 * n - 1
      BY <1>1, <2>1
    <3>1. G[3 * m] = Begin(c, 3 * n) /\ d[3 * m + 1] = Add(RoundKey(k, n))
      <4>1. d[3 * m + 1] = Add(arm64.adkey[m])
        BY <1>4
      <4> QED
        BY <1>3, <1>8, <2>1, <3>0, <4>1
    <3>2. /\ Begin(c, 3 * n) # <<>> /\ Last(Begin(c, 3 * n)) = Add(RoundKey(k, n))
          /\ Front(Begin(c, 3 * n)) = Begin(c, 3 * n - 1)
      BY <1>1, <1>2, BeginEnd
    <3>3. G[3 * m + 1] = Begin(c, 3 * n - 1)
      <4>1. G[3 * m + 1] = Begin(c, 3 * (n - m) - 1)
        BY <1>8
      <4> QED
        BY <3>0, <4>1
    <3> QED
      BY <1>5, <3>1, <3>2, <3>3
  <2>2. CASE m # 0
    <3> DEFINE b == 3 * (n - m) - 1
    <3>1. m \in 1 .. n - 1 /\ b \in Nat
      BY <1>1, <2>2
    <3>2. G[3 * m] = Append(Begin(c, b), Mixed(n - m)) /\ d[3 * m + 1] = Mixed(n - m)
      BY <1>3, <1>4, <1>8, <3>1 DEF Mixed
    <3>3. G[3 * m + 1] = Begin(c, b)
      BY <1>8
    <3> HIDE DEF b
    <3> DEFINE left == Append(Begin(c, b), Mixed(n - m))
    <3>4. left # <<>> /\ Last(left) = Mixed(n - m) /\ Front(left) = Begin(c, b)
      BY <3>1, BeginAppend
    <3> HIDE DEF left
    <3>5. After(left, Mixed(n - m)) = Front(left)
      BY <1>5, <3>4 DEF Mixed
    <3> QED
      BY <3>2, <3>3, <3>4, <3>5 DEF left
  <2> QED
    BY <2>1, <2>2
<1>11. ASSUME NEW m \in 0 .. n - 1 PROVE After(G[3 * m + 1], d[3 * m + 2]) = G[3 * m + 2]
  BY <1>4, <1>6, <1>8
<1>12. ASSUME NEW m \in 0 .. n - 1 PROVE After(G[3 * m + 2], d[3 * m + 3]) = G[3 * m + 3]
  <2>1. CASE m = n - 1
    <3>1. /\ 3 * m + 3 = 3 * n /\ 3 * (n - m) - 2 = 1
      BY <1>1, <2>1
    <3>2. G[3 * m + 2] = Begin(c, 1) /\ G[3 * m + 3] = Begin(c, 0)
      BY <1>8, <3>1
    <3>3. d[3 * m + 3] = Add(RoundKey(k, 0))
      BY <1>3, <1>4, <2>1
    <3>4. Begin(c, 1) # <<>> /\ Last(Begin(c, 1)) = Add(RoundKey(k, 0)) /\ Front(Begin(c, 1)) = Begin(c, 0)
      BY <1>2, BeginEnd
    <3> QED
      BY <1>5, <3>2, <3>3, <3>4
  <2>2. CASE m # n - 1
    <3>1. m \in 0 .. n - 2 /\ m + 1 \in 1 .. n - 1 /\ 3 * (m + 1) = 3 * m + 3 /\ n - (m + 1) = n - m - 1
      BY <1>1, <2>2
    <3>2. G[3 * m + 3] = Append(Begin(c, 3 * (n - m - 1) - 1), Mixed(n - m - 1))
      <4>1. G[3 * (m + 1)] = Append(Begin(c, 3 * (n - (m + 1)) - 1), Mixed(n - (m + 1)))
        BY <1>8, <3>1
      <4> QED
        BY <3>1, <4>1
    <3>3. G[3 * m + 2] = Begin(c, 3 * (n - m) - 2)
      BY <1>8
    <3>4. d[3 * m + 3] = InvMixColumns
      BY <1>4, <2>2
    <3> QED
      BY <1>7, <3>1, <3>2, <3>3, <3>4
  <2> QED
    BY <2>1, <2>2
<1>13. ASSUME NEW i \in 1 .. 3 * n PROVE After(G[i - 1], d[i]) = G[i]
  <2> DEFINE m == (i - 1) \div 3
  <2>1. m \in 0 .. n - 1 /\ i \in {3 * m + 1, 3 * m + 2, 3 * m + 3}
    BY <1>1
  <2> HIDE DEF m
  <2>2. CASE i = 3 * m + 1
    <3>1. i - 1 = 3 * m
      BY <1>1, <2>1, <2>2
    <3> QED
      BY <1>10, <2>1, <2>2, <3>1
  <2>3. CASE i = 3 * m + 2
    <3>1. i - 1 = 3 * m + 1
      BY <1>1, <2>1, <2>3
    <3> QED
      BY <1>11, <2>1, <2>3, <3>1
  <2>4. CASE i = 3 * m + 3
    <3>1. i - 1 = 3 * m + 2
      BY <1>1, <2>1, <2>4
    <3> QED
      BY <1>12, <2>1, <2>4, <3>1
  <2> QED
    BY <2>1, <2>2, <2>3, <2>4
<1>14. G = [i \in 0 .. Len(d) |-> IF i = 0 THEN c ELSE After(G[i - 1], d[i])]
  <2>1. G[0] = c
    BY <1>2, <1>8
  <2> SUFFICES ASSUME NEW i \in 0 .. 3 * n
               PROVE  G[i] = IF i = 0 THEN c ELSE After(G[i - 1], d[i])
    BY <1>4, <1>9
  <2> QED
    BY <1>1, <1>13, <2>1
<1>15. G[Len(d)] = <<>> /\ Len(d) \in Nat
  BY <1>1, <1>4, <1>8 DEF Begin
<1>16. Inverts(d, c)
  BY <1>14, <1>15, InvertsBy
<1> QED
  BY <1>16 DEF d, c

-----------------------------------------------------------------------------
(* CBC: the states of the loop, one after each block.                      *)
IsChain(f, op, iv, input) ==
  f = [n \in 0 .. Len(input) |->
         IF n = 0 THEN [iv |-> iv, output |-> <<>>] ELSE Link(op, f[n - 1], input[n])]

(* The loop has such states, on any number of blocks.                      *)
LEMMA ChainExists ==
  ASSUME NEW op, NEW iv, NEW input, Len(input) \in Nat
  PROVE  \E f : IsChain(f, op, iv, input) /\ Chained(op, iv, input) = f[Len(input)]
<1> DEFINE Base == [iv |-> iv, output |-> <<>>]
           Upto(f, n) ==
             f = [m \in 0 .. n |-> IF m = 0 THEN Base ELSE Link(op, f[m - 1], input[m])]
           none == {n \in 0 .. Len(input) : ~ \E f : Upto(f, n)}
<1>1. none = {}
  <2> SUFFICES ASSUME none # {} PROVE FALSE
    OBVIOUS
  <2>1. PICK n \in none : \A m \in none : n <= m
    <3>1. none \subseteq Nat
      OBVIOUS
    <3> HIDE DEF none
    <3> QED
      BY <3>1, LeastNat
  <2>2. CASE n = 0
    <3> DEFINE f == [m \in 0 .. 0 |-> Base]
    <3>1. Upto(f, 0)
      OBVIOUS
    <3> HIDE DEF f, Upto
    <3> QED
      BY <2>1, <2>2, <3>1
  <2>3. CASE n # 0
    <3>1. n - 1 \in 0 .. Len(input) /\ n - 1 \notin none
      <4>1. n \in 0 .. Len(input)
        BY <2>1
      <4>2. n - 1 \in 0 .. Len(input) /\ ~ (n <= n - 1)
        BY <2>3, <4>1
      <4> HIDE DEF none
      <4> QED
        BY <2>1, <4>2
    <3>2. PICK g : Upto(g, n - 1)
      <4> HIDE DEF Upto
      <4> QED
        BY <3>1
    <3> DEFINE f == [m \in 0 .. n |-> IF m < n THEN g[m] ELSE Link(op, g[n - 1], input[n])]
    <3>3. \A m \in 0 .. n - 1 : g[m] = IF m = 0 THEN Base ELSE Link(op, g[m - 1], input[m])
      <4> HIDE DEF Base
      <4> QED
        BY <3>2
    <3>4. Upto(f, n)
      <4> SUFFICES ASSUME NEW m \in 0 .. n
                   PROVE  f[m] = IF m = 0 THEN Base ELSE Link(op, f[m - 1], input[m])
        BY Zenon
      <4> HIDE DEF Base
      <4>1. m # 0 => f[m - 1] = g[m - 1]
        BY <2>1
      <4> QED
        BY <2>1, <2>3, <3>3, <4>1
    <3> HIDE DEF f, Upto
    <3> QED
      BY <2>1, <3>4
  <2> QED
    BY <2>2, <2>3
<1>2. \E f : Upto(f, Len(input))
  <2> HIDE DEF Upto
  <2>1. Len(input) \in 0 .. Len(input)
    OBVIOUS
  <2> QED
    BY <1>1, <2>1
<1> DEFINE F == CHOOSE f : Upto(f, Len(input))
<1>3. Upto(F, Len(input))
  <2> HIDE DEF Upto
  <2> QED
    BY <1>2
<1>4. Chained(op, iv, input) = F[Len(input)]
  BY DEF Chained
<1> HIDE DEF F
<1> QED
  BY <1>3, <1>4 DEF IsChain

(* One more element.                                                       *)
LEMMA AppendIv ==
  ASSUME NEW f, NEW n \in Nat \ {0}
  PROVE  Append([i \in 1 .. n - 1 |-> f[i].iv], f[n].iv) = [i \in 1 .. n |-> f[i].iv]
<1> DEFINE S == {f[i].iv : i \in 1 .. n}
           s == [i \in 1 .. n - 1 |-> f[i].iv]
<1>1. s \in Seq(S) /\ Len(s) = n - 1
  OBVIOUS
<1>2. \A i \in 1 .. n - 1 : s[i] = f[i].iv
  OBVIOUS
<1> DEFINE t == Append(s, f[n].iv)
<1> HIDE DEF s
<1>3. t \in Seq(S) /\ Len(t) = n /\ t[n] = f[n].iv /\ \A i \in 1 .. n - 1 : t[i] = s[i]
  BY <1>1
<1>4. t = [i \in 1 .. n |-> t[i]]
  <2> HIDE DEF t
  <2> QED
    BY <1>3
<1> HIDE DEF t
<1>5. \A i \in 1 .. n : t[i] = f[i].iv
  BY <1>2, <1>3
<1>6. t = [i \in 1 .. n |-> f[i].iv]
  BY <1>4, <1>5, Zenon
<1> QED
  BY <1>6 DEF s, t

(* The output of the encryption is made of the successive IVs.             *)
LEMMA EncryptChain ==
  ASSUME NEW iv, NEW input, NEW f, Len(input) \in Nat, IsChain(f, "encrypt", iv, input)
  PROVE  /\ f[0].iv = iv
         /\ \A n \in 1 .. Len(input) : f[n].iv = Applied(EncryptSteps, SymDiff(f[n - 1].iv, input[n]))
         /\ \A n \in 0 .. Len(input) : f[n].output = [i \in 1 .. n |-> f[i].iv]
<1>1. f[0] = [iv |-> iv, output |-> <<>>]
  BY DEF IsChain
<1>2. ASSUME NEW n \in 1 .. Len(input)
      PROVE  /\ f[n].iv = Applied(EncryptSteps, SymDiff(f[n - 1].iv, input[n]))
             /\ f[n].output = Append(f[n - 1].output, f[n].iv)
  <2>1. f[n] = Link("encrypt", f[n - 1], input[n])
    BY DEF IsChain
  <2> QED
    BY <2>1 DEF Link, CbcBlock
<1> DEFINE wrong == {n \in 0 .. Len(input) : f[n].output # [i \in 1 .. n |-> f[i].iv]}
<1>3. wrong = {}
  <2> SUFFICES ASSUME wrong # {} PROVE FALSE
    OBVIOUS
  <2>1. PICK n \in wrong : \A m \in wrong : n <= m
    <3>1. wrong \subseteq Nat
      OBVIOUS
    <3> HIDE DEF wrong
    <3> QED
      BY <3>1, LeastNat
  <2>2. n # 0
    BY <1>1, <2>1
  <2>3. f[n - 1].output = [i \in 1 .. n - 1 |-> f[i].iv]
    BY <2>1, <2>2
  <2>4. Append([i \in 1 .. n - 1 |-> f[i].iv], f[n].iv) = [i \in 1 .. n |-> f[i].iv]
    BY <2>1, <2>2, AppendIv
  <2>5. n \in 1 .. Len(input) /\ f[n].output # [i \in 1 .. n |-> f[i].iv]
    BY <2>1, <2>2
  <2> QED
    BY <1>2, <2>3, <2>4, <2>5
<1>4. ASSUME NEW n \in 0 .. Len(input)
      PROVE  f[n].output = [i \in 1 .. n |-> f[i].iv]
  BY <1>3, Zenon
<1> QED
  BY <1>1, <1>2, <1>4

(* CBC decryption inverts CBC encryption, for any number of blocks, and    *)
(* both leave the same IV for the next call (arm64.cpp:685-731).           *)
THEOREM CbcInverts ==
  ASSUME NEW k, NEW bits \in KeyBits, Keyed(k, bits), NEW S, NEW iv, NEW input \in Seq(S)
  PROVE  LET cipher == encrypt_cbc(iv, input)
         IN  decrypt_cbc(iv, cipher.output) = [iv |-> cipher.iv, output |-> input]
<1> DEFINE N == Len(input)
<1>1. N \in Nat /\ input = [i \in 1 .. N |-> input[i]]
  OBVIOUS
<1>2. PICK f : IsChain(f, "encrypt", iv, input) /\ encrypt_cbc(iv, input) = f[N]
  BY <1>1, ChainExists DEF encrypt_cbc
<1> DEFINE out == f[N].output
<1>3. /\ out = [i \in 1 .. N |-> f[i].iv] /\ f[0].iv = iv
      /\ \A n \in 1 .. N : f[n].iv = Applied(EncryptSteps, SymDiff(f[n - 1].iv, input[n]))
  <2>1. N \in 0 .. N /\ Len(input) \in Nat /\ IsChain(f, "encrypt", iv, input)
    BY <1>1, <1>2
  <2>2. f[0].iv = iv
    BY <2>1, EncryptChain
  <2>3. \A n \in 1 .. N : f[n].iv = Applied(EncryptSteps, SymDiff(f[n - 1].iv, input[n]))
    BY <2>1, EncryptChain
  <2>4. \A n \in 0 .. N : f[n].output = [i \in 1 .. n |-> f[i].iv]
    BY <2>1, EncryptChain
  <2> QED
    BY <2>1, <2>2, <2>3, <2>4
<1>4. Len(out) = N /\ \A n \in 1 .. N : out[n] = f[n].iv
  BY <1>1, <1>3
<1> HIDE DEF out
<1>5. PICK g : IsChain(g, "decrypt", iv, out) /\ decrypt_cbc(iv, out) = g[N]
  BY <1>1, <1>4, ChainExists DEF decrypt_cbc
<1>6. ASSUME NEW n \in 1 .. N, g[n - 1].iv = f[n - 1].iv
      PROVE  g[n] = [iv |-> f[n].iv, output |-> Append(g[n - 1].output, input[n])]
  <2> DEFINE x == SymDiff(f[n - 1].iv, input[n])
  <2>1. g[n] = Link("decrypt", g[n - 1], out[n])
    BY <1>4, <1>5 DEF IsChain
  <2>2. out[n] = Applied(EncryptSteps, x)
    BY <1>3, <1>4
  <2>3. Inverts(DecryptSteps, EncryptSteps)
    BY EncryptIsCipher, DecryptInverts
  <2>4. Unapplied(DecryptSteps, Applied(EncryptSteps, x)) = x
    <3> DEFINE t == [cipher |-> EncryptSteps, block |-> x]
    <3>1. "cipher" \in DOMAIN t /\ t.cipher = EncryptSteps /\ t.block = x
      OBVIOUS
    <3>2. Applied(EncryptSteps, x) = {t}
      BY DEF Applied
    <3> HIDE DEF t
    <3>3. (CHOOSE u \in {t} : TRUE) = t
      OBVIOUS
    <3> QED
      BY <2>3, <3>1, <3>2, <3>3 DEF Unapplied
  <2>5. SymDiff(x, g[n - 1].iv) = input[n]
    BY <1>6 DEF SymDiff
  <2>6. CbcBlock("decrypt", g[n - 1].iv, out[n]) = [iv |-> out[n], output |-> input[n]]
    BY <2>2, <2>4, <2>5 DEF CbcBlock
  <2> DEFINE b == CbcBlock("decrypt", g[n - 1].iv, out[n])
  <2>7. b.iv = f[n].iv /\ b.output = input[n]
    BY <1>4, <2>6
  <2>8. g[n] = [iv |-> b.iv, output |-> Append(g[n - 1].output, b.output)]
    BY <2>1 DEF Link
  <2> HIDE DEF b
  <2> QED
    BY <2>7, <2>8
<1> DEFINE Right(n) == g[n] = [iv |-> f[n].iv, output |-> [i \in 1 .. n |-> input[i]]]
           wrong == {n \in 0 .. N : ~ Right(n)}
<1>7. wrong = {}
  <2> SUFFICES ASSUME wrong # {} PROVE FALSE
    OBVIOUS
  <2>1. wrong \subseteq Nat
    BY <1>1
  <2>2. PICK n \in wrong : \A m \in wrong : n <= m
    <3> HIDE DEF wrong
    <3> QED
      BY <2>1, LeastNat
  <2>3. n \in 0 .. N /\ ~ Right(n)
    BY <2>2
  <2>4. CASE n = 0
    <3>1. g[0] = [iv |-> iv, output |-> <<>>]
      BY <1>4, <1>5 DEF IsChain
    <3> QED
      BY <1>3, <2>3, <2>4, <3>1
  <2>5. CASE n # 0
    <3>1. n \in 1 .. N /\ n - 1 \in 0 .. N /\ ~ (n <= n - 1)
      BY <2>3, <2>5
    <3>2. Right(n - 1)
      BY <2>2, <3>1
    <3>3. g[n - 1].iv = f[n - 1].iv /\ g[n - 1].output = [i \in 1 .. n - 1 |-> input[i]]
      BY <3>2
    <3>4. g[n] = [iv |-> f[n].iv, output |-> Append(g[n - 1].output, input[n])]
      BY <1>6, <3>1, <3>3
    <3>5. Append([i \in 1 .. n - 1 |-> input[i]], input[n]) = [i \in 1 .. n |-> input[i]]
      <4> DEFINE h == [i \in 1 .. n |-> [iv |-> input[i]]]
      <4>1. Append([i \in 1 .. n - 1 |-> h[i].iv], h[n].iv) = [i \in 1 .. n |-> h[i].iv]
        <5> HIDE DEF h
        <5> QED
          BY <3>1, AppendIv
      <4>2. \A i \in 1 .. n : h[i].iv = input[i]
        OBVIOUS
      <4>3. h[n].iv = input[n] /\ \A i \in 1 .. n - 1 : h[i].iv = input[i]
        BY <3>1, <4>2
      <4> HIDE DEF h
      <4>4. /\ [i \in 1 .. n - 1 |-> h[i].iv] = [i \in 1 .. n - 1 |-> input[i]]
            /\ [i \in 1 .. n |-> h[i].iv] = [i \in 1 .. n |-> input[i]]
        BY <4>2, <4>3
      <4> QED
        BY <4>1, <4>3, <4>4
    <3> QED
      BY <2>3, <3>3, <3>4, <3>5
  <2> QED
    BY <2>4, <2>5
<1>8. Right(N)
  BY <1>1, <1>7
<1>9. g[N] = [iv |-> f[N].iv, output |-> input]
  BY <1>1, <1>8
<1> QED
  BY <1>2, <1>5, <1>9 DEF out

(* A CBC encryption in two calls, the IV of the first being that of the    *)
(* second, is that of the whole (arm64.h:42).                              *)
Chains(iv, p, q) ==
  LET whole == encrypt_cbc(iv, p \o q)
      first == encrypt_cbc(iv, p)
      second == encrypt_cbc(first.iv, q)
  IN  whole.output = first.output \o second.output /\ whole.iv = second.iv

(* This is so whatever the lengths of the two parts (arm64.cpp:685-707).   *)
THEOREM CbcChains ==
  ASSUME NEW S, NEW iv, NEW p \in Seq(S), NEW q \in Seq(S)
  PROVE  Chains(iv, p, q)
<1> DEFINE N == Len(p)
           M == Len(q)
           r == p \o q
<1>1. /\ N \in Nat /\ M \in Nat /\ r \in Seq(S) /\ Len(r) = N + M
      /\ \A i \in 1 .. N : r[i] = p[i]
      /\ \A i \in 1 .. M : r[N + i] = q[i]
  <2>1. N \in Nat /\ M \in Nat /\ r \in Seq(S) /\ Len(r) = N + M
    BY ConcatProperties
  <2>2. \A i \in 1 .. N : i \in 1 .. N + M /\ i <= N
    BY <2>1
  <2>3. \A i \in 1 .. M : N + i \in 1 .. N + M /\ ~ (N + i <= N) /\ (N + i) - N = i
    BY <2>1
  <2>4. \A i \in 1 .. N + M : r[i] = IF i <= N THEN p[i] ELSE q[i - N]
    BY ConcatProperties
  <2> HIDE DEF N, M, r
  <2> QED
    BY <2>1, <2>2, <2>3, <2>4
<1> HIDE DEF r
<1>2. PICK f : IsChain(f, "encrypt", iv, r) /\ encrypt_cbc(iv, r) = f[N + M]
  <2>1. Len(r) \in Nat /\ Len(r) = N + M
    BY <1>1
  <2>2. \E f : IsChain(f, "encrypt", iv, r) /\ encrypt_cbc(iv, r) = f[Len(r)]
    BY <2>1, ChainExists DEF encrypt_cbc
  <2> QED
    BY <2>1, <2>2
<1>3. PICK g : IsChain(g, "encrypt", iv, p) /\ encrypt_cbc(iv, p) = g[N]
  BY <1>1, ChainExists DEF encrypt_cbc
<1>4. PICK h : IsChain(h, "encrypt", g[N].iv, q) /\ encrypt_cbc(g[N].iv, q) = h[M]
  BY <1>1, ChainExists DEF encrypt_cbc
<1> HIDE DEF N, M
<1>5. /\ f[0].iv = iv /\ g[0].iv = iv /\ h[0].iv = g[N].iv
      /\ \A n \in 1 .. N + M : f[n].iv = Applied(EncryptSteps, SymDiff(f[n - 1].iv, r[n]))
      /\ \A n \in 1 .. N : g[n].iv = Applied(EncryptSteps, SymDiff(g[n - 1].iv, p[n]))
      /\ \A n \in 1 .. M : h[n].iv = Applied(EncryptSteps, SymDiff(h[n - 1].iv, q[n]))
  <2>1. f[0].iv = iv /\ g[0].iv = iv /\ h[0].iv = g[N].iv
    BY <1>1, <1>2, <1>3, <1>4, EncryptChain DEF N, M
  <2>2. \A n \in 1 .. N + M : f[n].iv = Applied(EncryptSteps, SymDiff(f[n - 1].iv, r[n]))
    BY <1>1, <1>2, EncryptChain
  <2>3. \A n \in 1 .. N : g[n].iv = Applied(EncryptSteps, SymDiff(g[n - 1].iv, p[n]))
    BY <1>1, <1>3, EncryptChain DEF N
  <2>4. \A n \in 1 .. M : h[n].iv = Applied(EncryptSteps, SymDiff(h[n - 1].iv, q[n]))
    BY <1>1, <1>4, EncryptChain DEF M
  <2> QED
    BY <2>1, <2>2, <2>3, <2>4
<1>6. /\ f[N + M].output = [i \in 1 .. N + M |-> f[i].iv]
      /\ g[N].output = [i \in 1 .. N |-> g[i].iv]
      /\ h[M].output = [i \in 1 .. M |-> h[i].iv]
  <2>1. f[N + M].output = [i \in 1 .. N + M |-> f[i].iv]
    BY <1>1, <1>2, EncryptChain
  <2>2. g[N].output = [i \in 1 .. N |-> g[i].iv]
    BY <1>1, <1>3, EncryptChain DEF N
  <2>3. h[M].output = [i \in 1 .. M |-> h[i].iv]
    BY <1>1, <1>4, EncryptChain DEF M
  <2> QED
    BY <2>1, <2>2, <2>3
<1>7. \A n \in 0 .. N : f[n].iv = g[n].iv
  <2> DEFINE differ == {n \in 0 .. N : f[n].iv # g[n].iv}
  <2> SUFFICES ASSUME differ # {} PROVE FALSE
    BY Zenon
  <2>1. PICK n \in differ : \A m \in differ : n <= m
    <3>1. differ \subseteq Nat
      BY <1>1
    <3> HIDE DEF differ
    <3> QED
      BY <3>1, LeastNat
  <2>2. n \in 0 .. N /\ f[n].iv # g[n].iv
    BY <2>1
  <2>3. n \in 1 .. N /\ n \in 1 .. N + M /\ n - 1 \in 0 .. N /\ ~ (n <= n - 1)
    <3>1. n # 0
      BY <1>5, <2>2
    <3> QED
      BY <1>1, <2>2, <3>1
  <2>4. f[n - 1].iv = g[n - 1].iv
    BY <2>1, <2>3
  <2> HIDE DEF differ
  <2> QED
    BY <1>1, <1>5, <2>2, <2>3, <2>4
<1>8. \A n \in 0 .. M : f[N + n].iv = h[n].iv
  <2> DEFINE differ == {n \in 0 .. M : f[N + n].iv # h[n].iv}
  <2> SUFFICES ASSUME differ # {} PROVE FALSE
    BY Zenon
  <2>1. PICK n \in differ : \A m \in differ : n <= m
    <3>1. differ \subseteq Nat
      BY <1>1
    <3> HIDE DEF differ
    <3> QED
      BY <3>1, LeastNat
  <2>2. n \in 0 .. M /\ f[N + n].iv # h[n].iv
    BY <2>1
  <2>3. n \in 1 .. M /\ N + n \in 1 .. N + M /\ n - 1 \in 0 .. M /\ ~ (n <= n - 1)
        /\ N + (n - 1) = (N + n) - 1
    <3>1. N + 0 = N /\ N \in 0 .. N
      BY <1>1
    <3>2. n # 0
      BY <1>5, <1>7, <2>2, <3>1
    <3> QED
      BY <1>1, <2>2, <3>2
  <2>4. f[(N + n) - 1].iv = h[n - 1].iv
    BY <2>1, <2>3
  <2> HIDE DEF differ
  <2> QED
    BY <1>1, <1>5, <2>2, <2>3, <2>4
<1> DEFINE first == [i \in 1 .. N |-> g[i].iv]
           second == [i \in 1 .. M |-> h[i].iv]
           T == {g[i].iv : i \in 1 .. N} \cup {h[i].iv : i \in 1 .. M}
           both == first \o second
<1>9. /\ first \in Seq(T) /\ second \in Seq(T) /\ Len(first) = N /\ Len(second) = M
      /\ \A i \in 1 .. N : first[i] = g[i].iv
      /\ \A i \in 1 .. M : second[i] = h[i].iv
  <2>1. first \in Seq(T) /\ Len(first) = N /\ \A i \in 1 .. N : first[i] = g[i].iv
    <3>1. \A i \in 1 .. N : g[i].iv \in T
      OBVIOUS
    <3> HIDE DEF T
    <3> QED
      BY <1>1, <3>1
  <2>2. second \in Seq(T) /\ Len(second) = M /\ \A i \in 1 .. M : second[i] = h[i].iv
    BY <1>1
  <2> QED
    BY <2>1, <2>2
<1> HIDE DEF first, second, T
<1>10. /\ both = [i \in 1 .. N + M |-> both[i]]
       /\ \A i \in 1 .. N + M : both[i] = IF i <= N THEN first[i] ELSE second[i - N]
  <2>1. /\ both \in Seq(T) /\ Len(both) = N + M
        /\ \A i \in 1 .. Len(first) + Len(second) :
             both[i] = IF i <= Len(first) THEN first[i] ELSE second[i - Len(first)]
    BY <1>9, ConcatProperties
  <2> HIDE DEF both
  <2> QED
    BY <1>1, <1>9, <2>1
<1> HIDE DEF both
<1>11. ASSUME NEW i \in 1 .. N + M PROVE both[i] = f[i].iv
  <2>1. CASE i <= N
    <3>1. i \in 1 .. N /\ i \in 0 .. N
      BY <1>1, <2>1
    <3> QED
      BY <1>7, <1>9, <1>10, <2>1, <3>1
  <2>2. CASE ~ (i <= N)
    <3>1. i - N \in 1 .. M /\ i - N \in 0 .. M /\ N + (i - N) = i
      BY <1>1, <2>2
    <3>2. f[N + (i - N)].iv = h[i - N].iv
      BY <1>8, <3>1
    <3> QED
      BY <1>9, <1>10, <2>2, <3>1, <3>2
  <2> QED
    BY <2>1, <2>2
<1>12. both = [i \in 1 .. N + M |-> f[i].iv]
  BY <1>10, <1>11
<1>13. f[N + M].iv = h[M].iv
  <2>1. M \in 0 .. M
    BY <1>1
  <2> QED
    BY <1>8, <2>1
<1> QED
  BY <1>2, <1>3, <1>4, <1>6, <1>12, <1>13 DEF both, first, second, r, Chains

=============================================================================
