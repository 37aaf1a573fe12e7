------------------------------ MODULE Arm64Aes ------------------------------
(***************************************************************************)
(* class arm64::aes (arm64.cpp): key expansion for both directions, the    *)
(* block cipher and CBC.  The object keeps its round keys from one call to *)
(* the next, and a shorter key leaves the last round keys of a longer one  *)
(* in place.                                                               *)
(*                                                                         *)
(* Data are symbolic.  A word of an expanded key is its number in the key  *)
(* expansion of FIPS 197, or Junk when it is not one of its words.  A      *)
(* block is a set of terms, their exclusive or.  A cipher is the sequence  *)
(* of its elementary steps: the instructions and the tables are taken to   *)
(* do what their names say.                                                *)
(***************************************************************************)
EXTENDS Integers, Sequences, SequencesExt

VARIABLE arm64   (* [kbits, aekey, adkey]: key_data. *)

Junk == 60
KeyBits == {128, 192, 256}
Slots == 0 .. 14
NoRoundKey == [key |-> "none", round |-> Junk, imc |-> FALSE]

(* wipe_key(), in the constructor. *)
Wiped == [kbits |-> 0, aekey |-> [i \in Slots |-> NoRoundKey], adkey |-> [i \in Slots |-> NoRoundKey]]

-----------------------------------------------------------------------------
(* FIPS 197, the reference. *)

(* What is applied to the previous word before the addition.               *)
FipsTransform(Nk, a) ==
  CASE a % Nk = 0            -> "rotate and substitute"
    [] Nk = 8 /\ a % Nk = 4  -> "substitute"
    [] OTHER                 -> "none"

(* The word x + transform(y) + rcon[rc], of the words numbered x and y.    *)
Derived(Nk, x, y, transform, rc) ==
  IF /\ Junk \notin {x, y} /\ x + Nk = y + 1
     /\ transform = FipsTransform(Nk, y + 1)
     /\ transform = "rotate and substitute" => rc + 1 = (y + 1) \div Nk
    THEN y + 1
    ELSE Junk

FipsRounds(bits) == bits \div 32 + 6
RoundKey(k, r) == [key |-> k, round |-> r, imc |-> FALSE]

Add(rk) == [step |-> "add", rk |-> rk]
SubShift == [step |-> "substitute and shift"]
InvSubShift == [step |-> "inverse of substitute and shift"]
MixColumns == [step |-> "mix"]
InvMixColumns == [step |-> "inverse of mix"]

(* Rounds of substitution, mix and addition, without mix in the last one.  *)
Cipher(k, bits) ==
  LET n == FipsRounds(bits)
      Round(j) == (j - 2) \div 3 + 1
  IN  [j \in 1 .. 3 * n |->
         CASE j = 1 -> Add(RoundKey(k, 0))
           [] j # 1 /\ j % 3 = 2 -> SubShift
           [] j # 1 /\ j % 3 = 0 -> IF Round(j) = n THEN Add(RoundKey(k, n)) ELSE MixColumns
           [] j # 1 /\ j % 3 = 1 -> Add(RoundKey(k, Round(j)))]

(* What is left of the steps done so far after one more: a step undoes its *)
(* inverse, and the inverse of mix is linear, it passes over an addition.  *)
Undo(done, inverse, s) ==
  IF done # <<>> /\ Last(done) = inverse THEN Front(done) ELSE Append(done, s)
InvMixed(rk) == [key |-> rk.key, round |-> rk.round, imc |-> TRUE]
After(done, s) ==
  CASE s.step = "add" -> Undo(done, s, s)
    [] s = InvSubShift -> Undo(done, SubShift, s)
    [] s = InvMixColumns ->
         IF done # <<>> /\ Last(done).step = "add"
           THEN Append(Undo(Front(done), MixColumns, s), Add(InvMixed(Last(done).rk)))
           ELSE Undo(done, MixColumns, s)
    [] OTHER -> Append(done, s)
Inverts(decryption, encryption) ==
  LET left[i \in 0 .. Len(decryption)] ==
        IF i = 0 THEN encryption ELSE After(left[i - 1], decryption[i])
  IN  left[Len(decryption)] = <<>>

-----------------------------------------------------------------------------
(* set_key(). *)

(* Loop counts of the key expansions: value of i which breaks the loop.    *)
LoopEnd(bits) == CASE bits = 128 -> 10 [] bits = 192 -> 8 [] bits = 256 -> 7

(* ekey[], where rk = ekey + Nk * i in iteration i: it computes the words  *)
(* rk[Nk .. Nk + 3] and, but in the last one, up to rk[2 * Nk - 1].  So    *)
(* the word n = Nk * (i + 1) + j is assigned once, from words before it.   *)
Transform(Nk, j) ==
  CASE j = 0            -> "rotate and substitute"
    [] Nk = 8 /\ j = 4  -> "substitute"
    [] OTHER            -> "none"
Word(bits, w, n) ==
  LET Nk == bits \div 32
  IN  IF n < Nk THEN n
      ELSE IF n < Nk * LoopEnd(bits) + 4
        THEN Derived(Nk, w[n - Nk], w[n - 1], Transform(Nk, n % Nk), n \div Nk - 1)
        ELSE Junk
Expanded(bits) == LET w[n \in 0 .. 59] == Word(bits, w, n) IN w

ekey == [bits \in KeyBits |-> Expanded(bits)]

Rounds(bits) == 10 + (bits \div 64 - 2) * 2
EndOfKey(bits) == CASE bits = 128 -> 44 [] bits = 192 -> 52 [] bits = 256 -> 60

(* The round key made of four words of ekey from index first on.           *)
FourWords(bits, first, imc) ==
  LET w == ekey[bits]
  IN  [round |-> IF w[first] # Junk /\ w[first] % 4 = 0
                      /\ \A m \in 1 .. 3 : w[first + m] = w[first] + m
                   THEN w[first] \div 4
                   ELSE Junk,
       imc   |-> imc]

(* The round keys of each direction.  Decryption walks backwards in ekey,  *)
(* through the inverse of MixColumns but for the first and the last.       *)
Schedule ==
  [bits \in KeyBits |->
     [encrypt |-> [i \in 0 .. Rounds(bits) |-> FourWords(bits, 4 * i, FALSE)],
      decrypt |-> [i \in 0 .. Rounds(bits) |->
                     FourWords(bits, EndOfKey(bits) - 4 - 4 * i, i \in 1 .. Rounds(bits) - 1)]]]

(* aekey and adkey are loaded as far as the rounds go.  The callers have   *)
(* checked the key size.                                                   *)
set_key(k, bits) ==
  LET Load(slots, new) ==
        [i \in Slots |-> IF i \in DOMAIN new
                           THEN [key |-> k, round |-> new[i].round, imc |-> new[i].imc]
                           ELSE slots[i]]
  IN  arm64' = [kbits |-> bits,
                aekey |-> Load(arm64.aekey, Schedule[bits].encrypt),
                adkey |-> Load(arm64.adkey, Schedule[bits].decrypt)]

-----------------------------------------------------------------------------
(* encrypt(), decrypt(), and CBC. *)

(* Mutant of LastRound: all round keys are used for the long keys. *)
LastRoundLong(kbits) == IF kbits = 128 THEN 10 ELSE 14

LastRound(kbits) == IF kbits = 128 THEN 10 ELSE IF kbits = 192 THEN 12 ELSE 14

(* vaeseq adds the round key, then substitutes and shifts; vaesdq adds     *)
(* the round key, then does the inverse.                                   *)
InstructionRounds(rk, substitution, mix) ==
  LET n == LastRound(arm64.kbits)
  IN  [j \in 1 .. 3 * n |->
         LET i == (j - 1) \div 3
         IN  CASE j % 3 = 1 -> Add(rk[i])
               [] j % 3 = 2 -> substitution
               [] j % 3 = 0 -> IF i = n - 1 THEN Add(rk[n]) ELSE mix]

EncryptSteps == InstructionRounds(arm64.aekey, SubShift, MixColumns)
DecryptSteps == InstructionRounds(arm64.adkey, InvSubShift, InvMixColumns)

(* One block through a cipher, and through the inverse of one.             *)
Applied(cipher, block) == {[cipher |-> cipher, block |-> block]}
Unapplied(decryption, block) ==
  IF \E t \in block : block = {t} /\ "cipher" \in DOMAIN t /\ Inverts(decryption, t.cipher)
    THEN (CHOOSE t \in block : TRUE).block
    ELSE Applied(decryption, block)

(* One block of CBC, and the IV of the next one.                           *)
CbcBlock(op, iv, block) ==
  IF op = "encrypt"
    THEN LET out == Applied(EncryptSteps, SymDiff(iv, block)) IN [iv |-> out, output |-> out]
    ELSE [iv |-> block, output |-> SymDiff(Unapplied(DecryptSteps, block), iv)]

(* The loops of CBC: the IV is updated after each block.                   *)
Link(op, chain, block) ==
  LET b == CbcBlock(op, chain.iv, block)
  IN  [iv |-> b.iv, output |-> Append(chain.output, b.output)]
Chained(op, iv, input) ==
  LET chain[n \in 0 .. Len(input)] ==
        IF n = 0 THEN [iv |-> iv, output |-> <<>>] ELSE Link(op, chain[n - 1], input[n])
  IN  chain[Len(input)]

encrypt_cbc(iv, input) == Chained("encrypt", iv, input)
decrypt_cbc(iv, input) == Chained("decrypt", iv, input)

-----------------------------------------------------------------------------

TypeOKArm64 ==
  /\ arm64.kbits \in KeyBits \cup {0}
  /\ \A i \in Slots : {arm64.aekey[i].round, arm64.adkey[i].round} \subseteq 0 .. 14 \cup {Junk}

=============================================================================
