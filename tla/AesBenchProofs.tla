--------------------------- MODULE AesBenchProofs ---------------------------
(***************************************************************************)
(* Proofs about the AES benchmarks, for any sizes of data, any selection   *)
(* of libraries and any fault of theirs.                                   *)
(***************************************************************************)
EXTENDS AesBench, Arm64AesProofs

-----------------------------------------------------------------------------
(* The vectors of the auto-test: both directions of each, in ECB mode with *)
(* the three sizes of keys, in CBC mode with the first one.                *)
VectorBits(n) == CASE n \in 1 .. 4   -> 128
                   [] n \in 5 .. 8   -> 192
                   [] n \in 9 .. 12  -> 256
                   [] n \in 13 .. 16 -> 128
IsVector(c, n) ==
  /\ c.mode = IF n <= 12 THEN "ecb" ELSE "cbc"
  /\ c.op = IF n % 2 = 1 THEN "encrypt" ELSE "decrypt"
  /\ c.bits = VectorBits(n)
  /\ c.input = IF n <= 14 THEN 16 ELSE 32
  /\ c.output = IF n <= 12 THEN 16 ELSE 256

(* The sixteen calls of the auto-test, each as its position makes it.      *)
LEMMA VectorsAre == Len(Vectors) = 16 /\ \A n \in 1 .. 16 : IsVector(Vectors[n], n)
<1> DEFINE Calls == [mode : {"ecb", "cbc"}, op : Directions, key : Nat, bits : Nat, input : Nat, output : Nat]
<1>1. ASSUME NEW mode \in {"ecb", "cbc"}, NEW key \in Nat, NEW bits \in Nat, NEW size \in Nat, NEW output \in Nat
      PROVE  LET p == Pair(mode, key, bits, size, output)
             IN  /\ p \in Seq(Calls) /\ Len(p) = 2
                 /\ p[1] = Call(mode, "encrypt", key, bits, size, output)
                 /\ p[2] = Call(mode, "decrypt", key, bits, size, output)
  BY DEF Pair, Call, Directions
<1> HIDE DEF Calls
<1>2. ASSUME NEW key \in Nat, NEW bits \in Nat
      PROVE  LET v == EcbVectors(key, bits)
             IN  /\ v \in Seq(Calls) /\ Len(v) = 4
                 /\ v[1] = Call("ecb", "encrypt", key, bits, 16, 16)
                 /\ v[2] = Call("ecb", "decrypt", key, bits, 16, 16)
                 /\ v[3] = Call("ecb", "encrypt", key + 1, bits, 16, 16)
                 /\ v[4] = Call("ecb", "decrypt", key + 1, bits, 16, 16)
  <2> DEFINE p == Pair("ecb", key, bits, 16, 16)
             next == key + 1
             q == Pair("ecb", next, bits, 16, 16)
  <2>0. next \in Nat
    OBVIOUS
  <2> HIDE DEF next
  <2>1. /\ p \in Seq(Calls) /\ Len(p) = 2
        /\ p[1] = Call("ecb", "encrypt", key, bits, 16, 16)
        /\ p[2] = Call("ecb", "decrypt", key, bits, 16, 16)
    BY <1>1
  <2>2. /\ q \in Seq(Calls) /\ Len(q) = 2
        /\ q[1] = Call("ecb", "encrypt", next, bits, 16, 16)
        /\ q[2] = Call("ecb", "decrypt", next, bits, 16, 16)
    BY <1>1, <2>0
  <2> HIDE DEF p, q
  <2>3. /\ p \o q \in Seq(Calls) /\ Len(p \o q) = 4
        /\ \A i \in 1 .. 2 : (p \o q)[i] = p[i]
        /\ \A i \in 1 .. 2 : (p \o q)[2 + i] = q[i]
    <3>1. /\ p \o q \in Seq(Calls) /\ Len(p \o q) = Len(p) + Len(q)
          /\ \A i \in 1 .. Len(p) : (p \o q)[i] = p[i]
          /\ \A i \in 1 .. Len(q) : (p \o q)[Len(p) + i] = q[i]
      <4>0. p \in Seq(Calls) /\ q \in Seq(Calls)
        BY <2>1, <2>2
      <4>1. p \o q \in Seq(Calls) /\ Len(p \o q) = Len(p) + Len(q)
        BY <4>0
      <4>2. \A i \in 1 .. Len(p) : (p \o q)[i] = p[i]
        BY <4>0
      <4>3. \A i \in 1 .. Len(q) : (p \o q)[Len(p) + i] = q[i]
        BY <4>0
      <4> QED
        BY <4>1, <4>2, <4>3
    <3> QED
      BY <2>1, <2>2, <3>1
  <2>4. EcbVectors(key, bits) = p \o q
    BY DEF EcbVectors, p, q, next
  <2> QED
    BY <2>1, <2>2, <2>3, <2>4 DEF next
<1> DEFINE v1 == EcbVectors(1, 128)
           v2 == EcbVectors(3, 192)
           v3 == EcbVectors(5, 256)
           v4 == CbcVectors
<1>3. /\ v1 \in Seq(Calls) /\ Len(v1) = 4 /\ \A i \in 1 .. 4 : IsVector(v1[i], i)
  <2>1. ASSUME NEW i \in 1 .. 4 PROVE IsVector(v1[i], i)
    <3> HIDE DEF v1
    <3>1. /\ v1[1] = Call("ecb", "encrypt", 1, 128, 16, 16)
          /\ v1[2] = Call("ecb", "decrypt", 1, 128, 16, 16)
          /\ v1[3] = Call("ecb", "encrypt", 1 + 1, 128, 16, 16)
          /\ v1[4] = Call("ecb", "decrypt", 1 + 1, 128, 16, 16)
      BY <1>2 DEF v1
    <3> QED
      BY <3>1 DEF IsVector, VectorBits, Call
  <2> QED
    BY <1>2, <2>1
<1>4. /\ v2 \in Seq(Calls) /\ Len(v2) = 4 /\ \A i \in 1 .. 4 : IsVector(v2[i], i + 4)
  <2>1. ASSUME NEW i \in 1 .. 4 PROVE IsVector(v2[i], i + 4)
    <3> HIDE DEF v2
    <3>1. /\ v2[1] = Call("ecb", "encrypt", 3, 192, 16, 16)
          /\ v2[2] = Call("ecb", "decrypt", 3, 192, 16, 16)
          /\ v2[3] = Call("ecb", "encrypt", 3 + 1, 192, 16, 16)
          /\ v2[4] = Call("ecb", "decrypt", 3 + 1, 192, 16, 16)
      BY <1>2 DEF v2
    <3> QED
      BY <3>1 DEF IsVector, VectorBits, Call
  <2> QED
    BY <1>2, <2>1
<1>5. /\ v3 \in Seq(Calls) /\ Len(v3) = 4 /\ \A i \in 1 .. 4 : IsVector(v3[i], i + 8)
  <2>1. ASSUME NEW i \in 1 .. 4 PROVE IsVector(v3[i], i + 8)
    <3> HIDE DEF v3
    <3>1. /\ v3[1] = Call("ecb", "encrypt", 5, 256, 16, 16)
          /\ v3[2] = Call("ecb", "decrypt", 5, 256, 16, 16)
          /\ v3[3] = Call("ecb", "encrypt", 5 + 1, 256, 16, 16)
          /\ v3[4] = Call("ecb", "decrypt", 5 + 1, 256, 16, 16)
      BY <1>2 DEF v3
    <3> QED
      BY <3>1 DEF IsVector, VectorBits, Call
  <2> QED
    BY <1>2, <2>1
<1>6. /\ v4 \in Seq(Calls) /\ Len(v4) = 4 /\ \A i \in 1 .. 4 : IsVector(v4[i], i + 12)
  <2> DEFINE p == Pair("cbc", 7, 128, 16, 256)
             q == Pair("cbc", 8, 128, 32, 256)
  <2>1. /\ p \in Seq(Calls) /\ Len(p) = 2
        /\ p[1] = Call("cbc", "encrypt", 7, 128, 16, 256)
        /\ p[2] = Call("cbc", "decrypt", 7, 128, 16, 256)
    BY <1>1
  <2>2. /\ q \in Seq(Calls) /\ Len(q) = 2
        /\ q[1] = Call("cbc", "encrypt", 8, 128, 32, 256)
        /\ q[2] = Call("cbc", "decrypt", 8, 128, 32, 256)
    BY <1>1
  <2> HIDE DEF p, q
  <2>3. /\ p \o q \in Seq(Calls) /\ Len(p \o q) = 4
        /\ \A i \in 1 .. 2 : (p \o q)[i] = p[i]
        /\ \A i \in 1 .. 2 : (p \o q)[2 + i] = q[i]
    <3>1. /\ p \o q \in Seq(Calls) /\ Len(p \o q) = Len(p) + Len(q)
          /\ \A i \in 1 .. Len(p) : (p \o q)[i] = p[i]
          /\ \A i \in 1 .. Len(q) : (p \o q)[Len(p) + i] = q[i]
      <4>0. p \in Seq(Calls) /\ q \in Seq(Calls)
        BY <2>1, <2>2
      <4>1. p \o q \in Seq(Calls) /\ Len(p \o q) = Len(p) + Len(q)
        BY <4>0
      <4>2. \A i \in 1 .. Len(p) : (p \o q)[i] = p[i]
        BY <4>0
      <4>3. \A i \in 1 .. Len(q) : (p \o q)[Len(p) + i] = q[i]
        BY <4>0
      <4> QED
        BY <4>1, <4>2, <4>3
    <3> QED
      BY <2>1, <2>2, <3>1
  <2>4. v4 = p \o q
    BY DEF CbcVectors, p, q
  <2>5. ASSUME NEW i \in 1 .. 4 PROVE IsVector(v4[i], i + 12)
    <3> HIDE DEF v4
    <3>1. v4[1] = p[1] /\ v4[2] = p[2] /\ v4[3] = q[1] /\ v4[4] = q[2]
      BY <2>3, <2>4
    <3> QED
      BY <2>1, <2>2, <3>1 DEF IsVector, VectorBits, Call
  <2> QED
    BY <2>3, <2>4, <2>5
<1> HIDE DEF v1, v2, v3, v4
<1> DEFINE w2 == v1 \o v2
           w3 == w2 \o v3
           w4 == w3 \o v4
<1>7. /\ w2 \in Seq(Calls) /\ Len(w2) = 8
      /\ \A i \in 1 .. 4 : w2[i] = v1[i]
      /\ \A i \in 1 .. 4 : w2[4 + i] = v2[i]
  <2>1. /\ w2 \in Seq(Calls) /\ Len(w2) = Len(v1) + Len(v2)
        /\ \A i \in 1 .. Len(v1) : w2[i] = v1[i]
        /\ \A i \in 1 .. Len(v2) : w2[Len(v1) + i] = v2[i]
    <3>0. v1 \in Seq(Calls) /\ v2 \in Seq(Calls)
      BY <1>3, <1>4
    <3>1. w2 \in Seq(Calls) /\ Len(w2) = Len(v1) + Len(v2)
      BY <3>0
    <3>2. \A i \in 1 .. Len(v1) : w2[i] = v1[i]
      BY <3>0
    <3>3. \A i \in 1 .. Len(v2) : w2[Len(v1) + i] = v2[i]
      BY <3>0
    <3> QED
      BY <3>1, <3>2, <3>3
  <2> HIDE DEF w2
  <2> QED
    BY <1>3, <1>4, <2>1
<1> HIDE DEF w2
<1>8. /\ w3 \in Seq(Calls) /\ Len(w3) = 12
      /\ \A i \in 1 .. 8 : w3[i] = w2[i]
      /\ \A i \in 1 .. 4 : w3[8 + i] = v3[i]
  <2>1. /\ w3 \in Seq(Calls) /\ Len(w3) = Len(w2) + Len(v3)
        /\ \A i \in 1 .. Len(w2) : w3[i] = w2[i]
        /\ \A i \in 1 .. Len(v3) : w3[Len(w2) + i] = v3[i]
    <3>0. w2 \in Seq(Calls) /\ v3 \in Seq(Calls)
      BY <1>5, <1>7
    <3>1. w3 \in Seq(Calls) /\ Len(w3) = Len(w2) + Len(v3)
      BY <3>0
    <3>2. \A i \in 1 .. Len(w2) : w3[i] = w2[i]
      BY <3>0
    <3>3. \A i \in 1 .. Len(v3) : w3[Len(w2) + i] = v3[i]
      BY <3>0
    <3> QED
      BY <3>1, <3>2, <3>3
  <2> HIDE DEF w3
  <2> QED
    BY <1>5, <1>7, <2>1
<1> HIDE DEF w3
<1>9. /\ w4 \in Seq(Calls) /\ Len(w4) = 16
      /\ \A i \in 1 .. 12 : w4[i] = w3[i]
      /\ \A i \in 1 .. 4 : w4[12 + i] = v4[i]
  <2>1. /\ w4 \in Seq(Calls) /\ Len(w4) = Len(w3) + Len(v4)
        /\ \A i \in 1 .. Len(w3) : w4[i] = w3[i]
        /\ \A i \in 1 .. Len(v4) : w4[Len(w3) + i] = v4[i]
    <3>0. w3 \in Seq(Calls) /\ v4 \in Seq(Calls)
      BY <1>6, <1>8
    <3>1. w4 \in Seq(Calls) /\ Len(w4) = Len(w3) + Len(v4)
      BY <3>0
    <3>2. \A i \in 1 .. Len(w3) : w4[i] = w3[i]
      BY <3>0
    <3>3. \A i \in 1 .. Len(v4) : w4[Len(w3) + i] = v4[i]
      BY <3>0
    <3> QED
      BY <3>1, <3>2, <3>3
  <2> HIDE DEF w4
  <2> QED
    BY <1>6, <1>8, <2>1
<1> HIDE DEF w4
<1>11. Vectors = w4
  BY DEF Vectors, w4, w3, w2, v1, v2, v3, v4
<1>10. ASSUME NEW n \in 1 .. 16 PROVE IsVector(Vectors[n], n)
  <2>1. CASE n \in 1 .. 4
    <3>1. Vectors[n] = v1[n]
      BY <1>7, <1>8, <1>9, <1>11, <2>1
    <3> QED
      BY <1>3, <2>1, <3>1
  <2>2. CASE n \in 5 .. 8
    <3>1. PICK i \in 1 .. 4 : n = i + 4 /\ n = 4 + i
      BY <2>2
    <3>2. Vectors[n] = v2[i]
      BY <1>7, <1>8, <1>9, <1>11, <3>1
    <3> QED
      BY <1>4, <3>1, <3>2
  <2>3. CASE n \in 9 .. 12
    <3>1. PICK i \in 1 .. 4 : n = i + 8 /\ n = 8 + i
      BY <2>3
    <3>2. Vectors[n] = v3[i]
      BY <1>8, <1>9, <1>11, <3>1
    <3> QED
      BY <1>5, <3>1, <3>2
  <2>4. CASE n \in 13 .. 16
    <3>1. PICK i \in 1 .. 4 : n = i + 12 /\ n = 12 + i
      BY <2>4
    <3>2. Vectors[n] = v4[i]
      BY <1>9, <1>11, <3>1
    <3> QED
      BY <1>6, <3>1, <3>2
  <2> QED
    BY <2>1, <2>2, <2>3, <2>4
<1> QED
  BY <1>9, <1>10, <1>11

-----------------------------------------------------------------------------
(* What the calls of a method do, in each library: where the context is    *)
(* allocated and released, the key expanded, the data processed, and after *)
(* which calls padding is on.                                              *)
HasContext(l) == l \notin {"nettle", "arm64"}
Calls(l, c) ==
  IF l = "openssl" THEN 6
  ELSE IF l = "mbedtls" THEN (IF c.mode = "cbc" THEN 5 ELSE 4)
  ELSE IF HasContext(l) THEN 3 ELSE 2
KeyCall(l) == IF l \in {"openssl", "mbedtls"} THEN 2 ELSE 1
CryptCall(l, c) ==
  IF l = "openssl" THEN 4
  ELSE IF l = "mbedtls" THEN (IF c.mode = "cbc" THEN 4 ELSE 3)
  ELSE 2
Padded(l, c) ==
  IF l = "openssl" THEN {2} ELSE IF l = "mbedtls" /\ c.mode = "cbc" THEN {1, 2} ELSE {}
Does(l, c, n, does) ==
  /\ "allocate" \in does <=> HasContext(l) /\ n = 1
  /\ "release" \in does <=> HasContext(l) /\ n = Calls(l, c)
  /\ "key" \in does <=> n = KeyCall(l)
  /\ "crypt" \in does <=> n = CryptCall(l, c)
  /\ n \in Padded(l, c) <=> ("pad" \in does \/ n - 1 \in Padded(l, c)) /\ "unpad" \notin does
  /\ "finish" \in does => n - 1 \notin Padded(l, c)

(* Short sequences end to end.                                             *)
LEMMA ThreeAndTwo ==
  ASSUME NEW v, NEW w, NEW x, NEW y, NEW z
  PROVE  LET s == <<v, w, x>> \o <<y, z>>
         IN  Len(s) = 5 /\ s[1] = v /\ s[2] = w /\ s[3] = x /\ s[4] = y /\ s[5] = z
OBVIOUS

(* A pair of calls after another.                                          *)
LEMMA TwoAndTwo ==
  ASSUME NEW v, NEW w, NEW y, NEW z
  PROVE  LET s == <<v, w>> \o <<y, z>>
         IN  Len(s) = 4 /\ s[1] = v /\ s[2] = w /\ s[3] = y /\ s[4] = z
OBVIOUS

(* The calls of MbedTLS, one by one.                                       *)
LEMMA MbedtlsCallsAre ==
  ASSUME NEW c
  PROVE  /\ c.mode = "cbc" =>
              /\ Len(MbedtlsCalls(c)) = 5
              /\ MbedtlsCalls(c)[1] = {"allocate", "pad"} /\ MbedtlsCalls(c)[2] = {"key"}
              /\ MbedtlsCalls(c)[3] = {"unpad"} /\ MbedtlsCalls(c)[4] = {"crypt", "finish"}
              /\ MbedtlsCalls(c)[5] = {"release"}
         /\ c.mode # "cbc" =>
              /\ Len(MbedtlsCalls(c)) = 4
              /\ MbedtlsCalls(c)[1] = {"allocate"} /\ MbedtlsCalls(c)[2] = {"key"}
              /\ MbedtlsCalls(c)[3] = {"crypt", "finish"} /\ MbedtlsCalls(c)[4] = {"release"}
<1>1. CASE c.mode = "cbc"
  <2>1. MbedtlsCalls(c) = <<{"allocate", "pad"}, {"key"}, {"unpad"}>> \o <<{"crypt", "finish"}, {"release"}>>
    BY <1>1 DEF MbedtlsCalls
  <2> QED
    BY <1>1, <2>1, ThreeAndTwo
<1>2. CASE c.mode # "cbc"
  <2>1. MbedtlsCalls(c) = <<{"allocate"}, {"key"}>> \o <<{"crypt", "finish"}, {"release"}>>
    BY <1>2 DEF MbedtlsCalls
  <2> QED
    BY <1>2, <2>1, TwoAndTwo
<1> QED
  BY <1>1, <1>2

CallsFacts(l, c, calls) ==
  /\ Len(calls) = Calls(l, c)
  /\ Calls(l, c) \in 2 .. 6
  /\ CryptCall(l, c) \in 2 .. Calls(l, c) /\ KeyCall(l) \in 1 .. CryptCall(l, c) - 1
  /\ HasContext(l) => CryptCall(l, c) < Calls(l, c)
  /\ \A n \in 1 .. Calls(l, c) : Does(l, c, n, calls[n])
  /\ 0 \notin Padded(l, c) /\ Calls(l, c) \notin Padded(l, c)

(* The calls of each library.  No call finishes the data while padding is  *)
(* on, and padding is off when they are processed.                         *)
LEMMA CallsAre ==
  ASSUME NEW l \in AesLibraries, NEW c
  PROVE  CallsFacts(l, c, LibraryCalls(l, c))
<1> DEFINE calls == LibraryCalls(l, c)
<1>1. CASE l = "openssl"
  <2>1. /\ Len(calls) = 6
        /\ calls[1] = {"allocate"}
        /\ calls[2] = {"key", "pad"}
        /\ calls[3] = {"unpad"}
        /\ calls[4] = {"crypt"}
        /\ calls[5] = {"finish"}
        /\ calls[6] = {"release"}
    BY <1>1 DEF LibraryCalls, OpensslCalls
  <2>2. /\ Calls(l, c) = 6 /\ KeyCall(l) = 2 /\ CryptCall(l, c) = 4
        /\ Padded(l, c) = {2} /\ HasContext(l)
    BY <1>1 DEF Calls, KeyCall, CryptCall, Padded, HasContext
  <2> HIDE DEF calls
  <2>3. Does(l, c, 1, calls[1])
    BY <2>1, <2>2 DEF Does
  <2>4. Does(l, c, 2, calls[2])
    BY <2>1, <2>2 DEF Does
  <2>5. Does(l, c, 3, calls[3])
    BY <2>1, <2>2 DEF Does
  <2>6. Does(l, c, 4, calls[4])
    BY <2>1, <2>2 DEF Does
  <2>7. Does(l, c, 5, calls[5])
    BY <2>1, <2>2 DEF Does
  <2>8. Does(l, c, 6, calls[6])
    BY <2>1, <2>2 DEF Does
  <2>9. \A n \in 1 .. 6 : n = 1 \/ n = 2 \/ n = 3 \/ n = 4 \/ n = 5 \/ n = 6
    OBVIOUS
  <2>10. \A n \in 1 .. 6 : Does(l, c, n, calls[n])
    BY <2>3, <2>4, <2>5, <2>6, <2>7, <2>8, <2>9, Zenon
  <2>11. CallsFacts(l, c, calls)
    BY <2>1, <2>2, <2>10 DEF CallsFacts
  <2> QED
    BY <2>11 DEF calls
<1>2. CASE l = "mbedtls" /\ c.mode = "cbc"
  <2>1. /\ Len(calls) = 5
        /\ calls[1] = {"allocate", "pad"}
        /\ calls[2] = {"key"}
        /\ calls[3] = {"unpad"}
        /\ calls[4] = {"crypt", "finish"}
        /\ calls[5] = {"release"}
    BY <1>2, MbedtlsCallsAre DEF LibraryCalls
  <2>2. /\ Calls(l, c) = 5 /\ KeyCall(l) = 2 /\ CryptCall(l, c) = 4
        /\ Padded(l, c) = {1, 2} /\ HasContext(l)
    BY <1>2 DEF Calls, KeyCall, CryptCall, Padded, HasContext
  <2> HIDE DEF calls
  <2>3. Does(l, c, 1, calls[1])
    BY <2>1, <2>2 DEF Does
  <2>4. Does(l, c, 2, calls[2])
    BY <2>1, <2>2 DEF Does
  <2>5. Does(l, c, 3, calls[3])
    BY <2>1, <2>2 DEF Does
  <2>6. Does(l, c, 4, calls[4])
    BY <2>1, <2>2 DEF Does
  <2>7. Does(l, c, 5, calls[5])
    BY <2>1, <2>2 DEF Does
  <2>8. \A n \in 1 .. 5 : n = 1 \/ n = 2 \/ n = 3 \/ n = 4 \/ n = 5
    OBVIOUS
  <2>9. \A n \in 1 .. 5 : Does(l, c, n, calls[n])
    BY <2>3, <2>4, <2>5, <2>6, <2>7, <2>8, Zenon
  <2>10. CallsFacts(l, c, calls)
    BY <2>1, <2>2, <2>9 DEF CallsFacts
  <2> QED
    BY <2>10 DEF calls
<1>3. CASE l = "mbedtls" /\ c.mode # "cbc"
  <2>1. /\ Len(calls) = 4
        /\ calls[1] = {"allocate"}
        /\ calls[2] = {"key"}
        /\ calls[3] = {"crypt", "finish"}
        /\ calls[4] = {"release"}
    BY <1>3, MbedtlsCallsAre DEF LibraryCalls
  <2>2. /\ Calls(l, c) = 4 /\ KeyCall(l) = 2 /\ CryptCall(l, c) = 3
        /\ Padded(l, c) = {} /\ HasContext(l)
    BY <1>3 DEF Calls, KeyCall, CryptCall, Padded, HasContext
  <2> HIDE DEF calls
  <2>3. Does(l, c, 1, calls[1])
    BY <2>1, <2>2 DEF Does
  <2>4. Does(l, c, 2, calls[2])
    BY <2>1, <2>2 DEF Does
  <2>5. Does(l, c, 3, calls[3])
    BY <2>1, <2>2 DEF Does
  <2>6. Does(l, c, 4, calls[4])
    BY <2>1, <2>2 DEF Does
  <2>7. \A n \in 1 .. 4 : n = 1 \/ n = 2 \/ n = 3 \/ n = 4
    OBVIOUS
  <2>8. \A n \in 1 .. 4 : Does(l, c, n, calls[n])
    BY <2>3, <2>4, <2>5, <2>6, <2>7, Zenon
  <2>9. CallsFacts(l, c, calls)
    BY <2>1, <2>2, <2>8 DEF CallsFacts
  <2> QED
    BY <2>9 DEF calls
<1>4. CASE l = "gnutls"
  <2>1. /\ Len(calls) = 3
        /\ calls[1] = {"allocate", "key"}
        /\ calls[2] = {"crypt"}
        /\ calls[3] = {"release"}
    BY <1>4 DEF LibraryCalls, GnutlsCalls
  <2>2. /\ Calls(l, c) = 3 /\ KeyCall(l) = 1 /\ CryptCall(l, c) = 2
        /\ Padded(l, c) = {} /\ HasContext(l)
    BY <1>4 DEF Calls, KeyCall, CryptCall, Padded, HasContext
  <2> HIDE DEF calls
  <2>3. Does(l, c, 1, calls[1])
    BY <2>1, <2>2 DEF Does
  <2>4. Does(l, c, 2, calls[2])
    BY <2>1, <2>2 DEF Does
  <2>5. Does(l, c, 3, calls[3])
    BY <2>1, <2>2 DEF Does
  <2>6. \A n \in 1 .. 3 : n = 1 \/ n = 2 \/ n = 3
    OBVIOUS
  <2>7. \A n \in 1 .. 3 : Does(l, c, n, calls[n])
    BY <2>3, <2>4, <2>5, <2>6, Zenon
  <2>8. CallsFacts(l, c, calls)
    BY <2>1, <2>2, <2>7 DEF CallsFacts
  <2> QED
    BY <2>8 DEF calls
<1>5. CASE l = "tomcrypt"
  <2>1. /\ Len(calls) = 3
        /\ calls[1] = {"allocate", "key"}
        /\ calls[2] = {"crypt"}
        /\ calls[3] = {"release"}
    BY <1>5 DEF LibraryCalls, TomcryptCalls
  <2>2. /\ Calls(l, c) = 3 /\ KeyCall(l) = 1 /\ CryptCall(l, c) = 2
        /\ Padded(l, c) = {} /\ HasContext(l)
    BY <1>5 DEF Calls, KeyCall, CryptCall, Padded, HasContext
  <2> HIDE DEF calls
  <2>3. Does(l, c, 1, calls[1])
    BY <2>1, <2>2 DEF Does
  <2>4. Does(l, c, 2, calls[2])
    BY <2>1, <2>2 DEF Does
  <2>5. Does(l, c, 3, calls[3])
    BY <2>1, <2>2 DEF Does
  <2>6. \A n \in 1 .. 3 : n = 1 \/ n = 2 \/ n = 3
    OBVIOUS
  <2>7. \A n \in 1 .. 3 : Does(l, c, n, calls[n])
    BY <2>3, <2>4, <2>5, <2>6, Zenon
  <2>8. CallsFacts(l, c, calls)
    BY <2>1, <2>2, <2>7 DEF CallsFacts
  <2> QED
    BY <2>8 DEF calls
<1>6. CASE l = "nettle"
  <2>1. /\ Len(calls) = 2
        /\ calls[1] = {"key"}
        /\ calls[2] = {"crypt"}
    BY <1>6 DEF LibraryCalls, NettleCalls
  <2>2. /\ Calls(l, c) = 2 /\ KeyCall(l) = 1 /\ CryptCall(l, c) = 2
        /\ Padded(l, c) = {} /\ ~ HasContext(l)
    BY <1>6 DEF Calls, KeyCall, CryptCall, Padded, HasContext
  <2> HIDE DEF calls
  <2>3. Does(l, c, 1, calls[1])
    BY <2>1, <2>2 DEF Does
  <2>4. Does(l, c, 2, calls[2])
    BY <2>1, <2>2 DEF Does
  <2>5. \A n \in 1 .. 2 : n = 1 \/ n = 2
    OBVIOUS
  <2>6. \A n \in 1 .. 2 : Does(l, c, n, calls[n])
    BY <2>3, <2>4, <2>5, Zenon
  <2>7. CallsFacts(l, c, calls)
    BY <2>1, <2>2, <2>6 DEF CallsFacts
  <2> QED
    BY <2>7 DEF calls
<1>7. CASE l = "arm64"
  <2>1. /\ Len(calls) = 2
        /\ calls[1] = {"key"}
        /\ calls[2] = {"crypt"}
    BY <1>7 DEF LibraryCalls, Arm64Calls
  <2>2. /\ Calls(l, c) = 2 /\ KeyCall(l) = 1 /\ CryptCall(l, c) = 2
        /\ Padded(l, c) = {} /\ ~ HasContext(l)
    BY <1>7 DEF Calls, KeyCall, CryptCall, Padded, HasContext
  <2> HIDE DEF calls
  <2>3. Does(l, c, 1, calls[1])
    BY <2>1, <2>2 DEF Does
  <2>4. Does(l, c, 2, calls[2])
    BY <2>1, <2>2 DEF Does
  <2>5. \A n \in 1 .. 2 : n = 1 \/ n = 2
    OBVIOUS
  <2>6. \A n \in 1 .. 2 : Does(l, c, n, calls[n])
    BY <2>3, <2>4, <2>5, Zenon
  <2>7. CallsFacts(l, c, calls)
    BY <2>1, <2>2, <2>6 DEF CallsFacts
  <2> QED
    BY <2>7 DEF calls
<1> QED
  BY <1>1, <1>2, <1>3, <1>4, <1>5, <1>6, <1>7 DEF AesLibraries

-----------------------------------------------------------------------------
(* The inductive invariant.  A call in progress: its sizes were accepted,  *)
(* the context is as the calls made so far leave it, and the arm64 object  *)
(* has its key after the first one.                                        *)
Midway(l, c) ==
  /\ progress \in 0 .. Calls(l, c)
  /\ SizesAccepted(c)
  /\ ctx.live = IF HasContext(l) /\ progress \in 1 .. Calls(l, c) - 1 THEN 1 ELSE 0
  /\ ctx.schedule = IF progress >= KeyCall(l) THEN KeySchedule(l, c) ELSE "none"
  /\ ctx.padding = (progress \in Padded(l, c))
  /\ ctx.written = IF progress >= CryptCall(l, c) THEN c.input ELSE 0
  /\ l = "arm64" /\ progress >= 1 => Keyed(c.key, c.bits)
BetweenCalls == progress = Idle /\ ctx.live = 0 /\ ctx.schedule = "none" /\ ctx.padding = FALSE

Places ==
  /\ TypeOKArm64
  /\ tested \in Seq(Libraries) /\ tested # <<>>
  /\ key_sizes \in {<<128, 256>>, <<256>>}
  /\ pc \in {"auto-test", "encrypt", "decrypt", "ratio", "done", "fatal"}
  /\ vector \in 1 .. 16 /\ (pc \notin {"auto-test", "fatal"} => vector = 1)
  /\ aes_key_bits \in [Libraries -> KeyBits \cup {0}]
  /\ aes_data_size \in DataSizes
  /\ fault \in Faults \cup {None}

Context ==
  /\ ctx.live \in {0, 1} /\ ctx.schedule \in Directions \cup {"none"} /\ ctx.padding \in BOOLEAN
  /\ BetweenCalls \/ (Calling /\ Midway(Lib, CurrentCall)) \/ (pc = "fatal" /\ progress # Idle)

(* The faults which the first n vectors would have revealed.               *)
FaultOf(l, c) == [lib |-> l, mode |-> ModeUsed(l, c.mode), op |-> c.op, bits |-> c.bits]
NotRevealed(n) == \A i \in 1 .. n : fault # FaultOf(Lib, Vectors[i])
Tested ==
  /\ pc = "auto-test" => NotRevealed(vector - 1)
  /\ pc \in Directions => NotRevealed(16)

Timed ==
  /\ processed \in [Directions -> Sizes \cup {None}]
  /\ pc = "auto-test" => \A op \in Directions : processed[op] = None
  /\ processed["encrypt"] \in {RoundedUp(aes_data_size), None}
  /\ processed["decrypt"] # None => processed["decrypt"] = aes_data_size /\ aes_data_size % 16 = 0
  /\ pc \in {"encrypt", "decrypt", "ratio"} /\ (progress # Idle \/ \E op \in Directions : processed[op] # None)
       => aes_key_bits[Lib] = key_sizes[1]

Inv == Places /\ Context /\ Tested /\ Timed /\ RatioLabel /\ SameBytes /\ RejectsOnlyPartialBlocks

(* Encryption rounds the size up to complete blocks.                       *)
LEMMA RoundedUpIs ==
  ASSUME NEW n \in Nat
  PROVE  RoundedUp(n) \in Nat /\ RoundedUp(n) % 16 = 0 /\ (n % 16 = 0 => RoundedUp(n) = n)
<1> DEFINE q == (n + 15) \div 16
<1>1. q \in Nat /\ RoundedUp(n) = q * 16
  BY DEF RoundedUp, AES_BLOCK_SIZE
<1>2. n % 16 = 0 => q * 16 = n
  OBVIOUS
<1> HIDE DEF q
<1>3. q * 16 \in Nat /\ (q * 16) % 16 = 0
  BY <1>1
<1> QED
  BY <1>1, <1>2, <1>3

(* The calls which the program makes.                                      *)
IsCall(c) ==
  /\ c.mode \in {"ecb", "cbc"} /\ c.op \in Directions
  /\ c.bits \in KeyBits /\ c.input \in Nat /\ c.output \in Nat

(* Wherever a call is made, it is one of the calls of bench_aes.           *)
LEMMA CurrentIsCall ==
  ASSUME Places
  PROVE  /\ Lib \in AesLibraries /\ Lib \in Libraries /\ aes_data_size \in Nat
         /\ key_sizes[1] \in {128, 256}
         /\ IsCall(TimedCall("encrypt")) /\ IsCall(TimedCall("decrypt"))
         /\ IsCall(Vectors[vector]) /\ SizesAccepted(Vectors[vector])
         /\ Calling => IsCall(CurrentCall)
<1>1. Lib \in Libraries /\ Lib \in AesLibraries
  <2>1. Lib \in Libraries
    <3>1. tested \in Seq(Libraries) /\ tested # <<>>
      BY DEF Places
    <3> QED
      BY <3>1 DEF Lib
  <2>2. PICK s \in Selections : Lib \in SetOf(s)
    BY <2>1 DEF Libraries
  <2>3. s \in Seq(AesLibraries)
    BY AesAssumption
  <2> QED
    BY <2>1, <2>2, <2>3 DEF SetOf
<1>2. aes_data_size \in Nat /\ key_sizes[1] \in {128, 256}
  BY AesAssumption DEF Places
<1>3. IsCall(TimedCall("encrypt")) /\ IsCall(TimedCall("decrypt"))
  <2>1. RoundedUp(aes_data_size) \in Nat
    BY <1>2, RoundedUpIs
  <2> QED
    BY <1>2, <2>1 DEF IsCall, TimedCall, EncryptCall, DecryptCall, Call, Directions, KeyBits, AES_BLOCK_SIZE
<1>4. IsCall(Vectors[vector]) /\ SizesAccepted(Vectors[vector])
  <2>1. vector \in 1 .. 16 /\ IsVector(Vectors[vector], vector)
    BY VectorsAre DEF Places
  <2> QED
    BY <2>1 DEF IsVector, VectorBits, IsCall, SizesAccepted, Directions, KeyBits, AES_BLOCK_SIZE
<1>5. Calling => IsCall(CurrentCall)
  BY <1>3, <1>4 DEF Calling, CurrentCall
<1> QED
  BY <1>1, <1>2, <1>3, <1>4, <1>5

(* The first step of a call, when its sizes are accepted.                  *)
LEMMA MidwayStarts ==
  ASSUME NEW l \in AesLibraries, NEW c, BetweenCalls, Enter(l, c), SizesAccepted(c)
  PROVE  Midway(l, c)' /\ (ctx.live \in {0, 1} /\ ctx.schedule \in Directions \cup {"none"} /\ ctx.padding \in BOOLEAN)'
<1>1. progress' = 0 /\ ctx'.live = 0 /\ ctx'.schedule = "none" /\ ctx'.padding = FALSE /\ ctx'.written = 0
  BY DEF Enter, BetweenCalls
<1>2. CallsFacts(l, c, LibraryCalls(l, c))
  BY CallsAre
<1>3. /\ 0 \in 0 .. Calls(l, c) /\ 0 \notin 1 .. Calls(l, c) - 1 /\ ~ (0 >= KeyCall(l))
      /\ ~ (0 >= CryptCall(l, c)) /\ 0 \notin Padded(l, c)
  BY <1>2 DEF CallsFacts
<1>4. ctx'.padding = (0 \in Padded(l, c))
  <2>1. (0 \in Padded(l, c)) = FALSE
    BY <1>3
  <2> QED
    BY <1>1, <2>1, Zenon
<1> QED
  BY <1>1, <1>3, <1>4 DEF Midway

(* The next ones.                                                          *)
LEMMA MidwayGoesOn ==
  ASSUME NEW l \in AesLibraries, NEW c, IsCall(c), TypeOKArm64, Midway(l, c), LibraryCall(l, c)
  PROVE  /\ Midway(l, c)' /\ TypeOKArm64'
         /\ (ctx.live \in {0, 1} /\ ctx.schedule \in Directions \cup {"none"} /\ ctx.padding \in BOOLEAN)'
<1> DEFINE N == Calls(l, c)
           n == progress + 1
           does == LibraryCalls(l, c)[n]
<1>1. /\ Len(LibraryCalls(l, c)) = N /\ N \in 2 .. 6
      /\ CryptCall(l, c) \in 2 .. N /\ KeyCall(l) \in 1 .. CryptCall(l, c) - 1
      /\ HasContext(l) => CryptCall(l, c) < N
      /\ \A i \in 1 .. N : Does(l, c, i, LibraryCalls(l, c)[i])
  BY CallsAre DEF CallsFacts
<1>2. /\ progress \in 0 .. N - 1 /\ n \in 1 .. N /\ n - 1 = progress /\ progress' = n
  BY <1>1 DEF LibraryCall, InProgress, Midway
<1>3. /\ "allocate" \in does <=> HasContext(l) /\ n = 1
      /\ "release" \in does <=> HasContext(l) /\ n = N
      /\ "key" \in does <=> n = KeyCall(l)
      /\ "crypt" \in does <=> n = CryptCall(l, c)
      /\ n \in Padded(l, c) <=> ("pad" \in does \/ progress \in Padded(l, c)) /\ "unpad" \notin does
      /\ "finish" \in does => progress \notin Padded(l, c)
  BY <1>1, <1>2 DEF Does
<1>4. /\ ctx'.live = ctx.live + (CASE "allocate" \in does -> 1 [] "release" \in does -> -1 [] OTHER -> 0)
      /\ ctx'.schedule = IF "key" \in does THEN KeySchedule(l, c) ELSE ctx.schedule
      /\ ctx'.padding = (("pad" \in does \/ ctx.padding) /\ "unpad" \notin does)
      /\ ctx'.written = ctx.written + (IF "crypt" \in does THEN c.input ELSE 0)
                          + (IF "finish" \in does /\ ctx.padding /\ c.op = "encrypt" THEN AES_BLOCK_SIZE ELSE 0)
      /\ IF l = "arm64" /\ "key" \in does THEN set_key(c.key, c.bits) ELSE UNCHANGED arm64
  BY DEF LibraryCall
<1> HIDE DEF does, n
<1>5. ctx'.live = IF HasContext(l) /\ n \in 1 .. N - 1 THEN 1 ELSE 0
  <2>1. ctx.live = IF HasContext(l) /\ progress \in 1 .. N - 1 THEN 1 ELSE 0
    BY DEF Midway
  <2> HIDE DEF N
  <2> QED
    BY <1>1, <1>2, <1>3, <1>4, <2>1
<1>6. ctx'.schedule = IF n >= KeyCall(l) THEN KeySchedule(l, c) ELSE "none"
  <2>1. ctx.schedule = IF progress >= KeyCall(l) THEN KeySchedule(l, c) ELSE "none"
    BY DEF Midway
  <2>2. n >= KeyCall(l) <=> n = KeyCall(l) \/ progress >= KeyCall(l)
    BY <1>1, <1>2
  <2> QED
    BY <1>3, <1>4, <2>1, <2>2
<1>7. ctx'.padding = (n \in Padded(l, c))
  <2>1. ctx.padding = (progress \in Padded(l, c))
    BY DEF Midway
  <2>2. (n \in Padded(l, c)) = (("pad" \in does \/ progress \in Padded(l, c)) /\ "unpad" \notin does)
    BY <1>3
  <2>3. ctx'.padding = (("pad" \in does \/ ctx.padding) /\ "unpad" \notin does)
    BY <1>4
  <2> QED
    BY <2>1, <2>2, <2>3, Zenon
<1>8. ctx'.written = IF n >= CryptCall(l, c) THEN c.input ELSE 0
  <2>1. ctx.written = IF progress >= CryptCall(l, c) THEN c.input ELSE 0
    BY DEF Midway
  <2>2. "finish" \in does => ~ ctx.padding
    BY <1>3 DEF Midway
  <2>3. ctx'.written = ctx.written + (IF "crypt" \in does THEN c.input ELSE 0) + 0
    BY <1>4, <2>2
  <2>4. c.input \in Nat
    BY DEF IsCall
  <2> QED
    BY <1>1, <1>2, <1>3, <2>1, <2>3, <2>4
<1>9. l = "arm64" => Keyed(c.key, c.bits)'
  <2> SUFFICES ASSUME l = "arm64" PROVE Keyed(c.key, c.bits)'
    OBVIOUS
  <2>0. KeyCall(l) = 1
    BY DEF KeyCall
  <2>1. CASE "key" \in does
    <3>1. set_key(c.key, c.bits) /\ c.bits \in KeyBits
      BY <1>4, <2>1 DEF IsCall
    <3> DEFINE k == c.key
               b == c.bits
    <3> HIDE DEF k, b
    <3>2. set_key(k, b) /\ b \in KeyBits
      BY <3>1 DEF k, b
    <3>3. Keyed(k, b)'
      BY <3>2, SetKeyKeys
    <3> QED
      BY <3>3 DEF k, b
  <2>2. CASE "key" \notin does
    <3>1. progress >= 1
      BY <1>2, <1>3, <2>0, <2>2
    <3>2. Keyed(c.key, c.bits) /\ arm64' = arm64
      BY <1>4, <2>2, <3>1 DEF Midway
    <3> QED
      BY <3>2 DEF Keyed
  <2> QED
    BY <2>1, <2>2
<1>10. TypeOKArm64'
  <2>1. CASE l = "arm64" /\ "key" \in does
    BY <1>4, <2>1, SetKeyTypes DEF IsCall
  <2>2. CASE ~ (l = "arm64" /\ "key" \in does)
    BY <1>4, <2>2 DEF TypeOKArm64
  <2> QED
    BY <2>1, <2>2
<1>11. /\ ctx'.live \in {0, 1} /\ ctx'.schedule \in Directions \cup {"none"} /\ ctx'.padding \in BOOLEAN
  <2>1. ctx'.padding \in BOOLEAN
    BY <1>7
  <2>2. KeySchedule(l, c) \in Directions
    BY DEF KeySchedule, Directions, IsCall
  <2> QED
    BY <1>5, <1>6, <2>1, <2>2
<1>12. SizesAccepted(c) /\ progress' \in 0 .. N
  BY <1>2 DEF Midway
<1> QED
  BY <1>2, <1>5, <1>6, <1>7, <1>8, <1>9, <1>10, <1>11, <1>12 DEF Midway

(* What a call returns is right, but for the key schedule that Nettle      *)
(* takes, when the library has no fault there.                             *)
LEMMA ReturnsRight ==
  ASSUME NEW l \in AesLibraries, NEW c, IsCall(c), Midway(l, c), Returning(l, c),
         KeySchedule(l, c) = c.op, fault # FaultOf(l, c)
  PROVE  IsRight(l, c)
<1>1. progress >= KeyCall(l) /\ progress >= CryptCall(l, c) /\ progress >= 1
  BY CallsAre DEF CallsFacts, Returning
<1>2. ctx.schedule = c.op /\ ctx.written = c.input
  BY <1>1 DEF Midway
<1>3. Computed(l, c)
  <2>1. CASE l # "arm64"
    BY <1>2, <2>1 DEF Computed
  <2>2. CASE l = "arm64"
    <3>1. Keyed(c.key, c.bits) /\ c.bits \in KeyBits
      BY <1>1, <2>2 DEF Midway, IsCall
    <3>2. EncryptSteps = Cipher(c.key, c.bits) /\ Inverts(DecryptSteps, Cipher(c.key, c.bits))
      BY <3>1, EncryptIsCipher, DecryptInverts
    <3>3. c.op = "encrypt" \/ (c.op = "decrypt" /\ c.op # "encrypt")
      BY DEF IsCall, Directions
    <3> QED
      BY <2>2, <3>2, <3>3 DEF Computed
  <2> QED
    BY <2>1, <2>2
<1> QED
  BY <1>2, <1>3 DEF IsRight, FaultOf

(* The invariant holds initially. *)
LEMMA InvInit == Init => Inv
<1> SUFFICES ASSUME Init PROVE Inv
  OBVIOUS
<1>1. Places
  <2>1. TypeOKArm64
    <3>1. arm64 = Wiped
      BY DEF Init, InitCalls
    <3> QED
      BY <3>1 DEF Wiped, TypeOKArm64, NoRoundKey, Junk
  <2>2. tested \in Seq(Libraries) /\ tested # <<>>
    <3>1. tested \in Selections /\ tested \in Seq(AesLibraries) /\ tested # <<>>
      BY AesAssumption DEF Init
    <3>2. \A i \in DOMAIN tested : tested[i] \in Libraries
      BY <3>1 DEF Libraries, SetOf
    <3> QED
      BY <3>1, <3>2
  <2>3. aes_key_bits \in [Libraries -> KeyBits \cup {0}]
    BY DEF Init, InitCalls
  <2> QED
    BY <2>1, <2>2, <2>3 DEF Init, Places
<1>2. Context
  BY DEF Init, InitCalls, NewContext, Context, BetweenCalls
<1>3. Tested
  BY DEF Init, Tested, NotRevealed, Directions
<1>4. Timed
  BY DEF Init, Timed, Directions
<1>5. RatioLabel /\ SameBytes /\ RejectsOnlyPartialBlocks
  BY DEF Init, RatioLabel, SameBytes, RejectsOnlyPartialBlocks
<1> QED
  BY <1>1, <1>2, <1>3, <1>4, <1>5 DEF Inv

(* The numbers of calls and Idle are apart.                                *)
LEMMA NotIdle ==
  ASSUME Places, Calling, Midway(Lib, CurrentCall)
  PROVE  progress \in 0 .. 6 /\ progress # Idle
BY CurrentIsCall, CallsAre DEF Midway, CallsFacts, Idle

(* A method which is entered.                                              *)
LEMMA InvStartCall == Inv /\ StartCall => Inv'
<1> SUFFICES ASSUME Inv, StartCall PROVE Inv'
  OBVIOUS
<1> DEFINE l == Lib
           c == CurrentCall
<1>1. /\ Places /\ Context /\ Tested /\ Timed /\ RatioLabel /\ SameBytes /\ RejectsOnlyPartialBlocks
  BY DEF Inv
<1>2. /\ Calling /\ Enter(l, c) /\ progress = Idle
      /\ IF SizesAccepted(c) THEN UNCHANGED <<pc, rejected>> ELSE pc' = "fatal" /\ rejected' = c
      /\ UNCHANGED <<tested, key_sizes, vector, aes_data_size, fault, processed, ratio>>
      /\ arm64' = arm64 /\ aes_key_bits' = [aes_key_bits EXCEPT ![l] = c.bits]
      /\ ctx'.live = ctx.live /\ ctx'.schedule = ctx.schedule /\ ctx'.padding = ctx.padding
  BY DEF StartCall, Enter, check_aes_key_size
<1>3. l \in AesLibraries /\ l \in Libraries /\ IsCall(c)
  BY <1>1, <1>2, CurrentIsCall
<1>4. BetweenCalls
  BY <1>1, <1>2, NotIdle DEF Context
<1>5. Places'
  <2>1. aes_key_bits' \in [Libraries -> KeyBits \cup {0}]
    BY <1>1, <1>2, <1>3 DEF Places, IsCall
  <2>2. TypeOKArm64'
    BY <1>1, <1>2 DEF Places, TypeOKArm64
  <2> QED
    BY <1>1, <1>2, <2>1, <2>2 DEF Places
<1>6. Context'
  <2>1. CASE SizesAccepted(c)
    <3>1. /\ Midway(l, c)'
          /\ (ctx.live \in {0, 1} /\ ctx.schedule \in Directions \cup {"none"} /\ ctx.padding \in BOOLEAN)'
      <4> PICK ll, cc : ll = l /\ cc = c
        OBVIOUS
      <4>0. l' = l /\ c' = c
        BY <1>2, <2>1 DEF Lib, CurrentCall, Calling, TimedCall, EncryptCall, DecryptCall
      <4> HIDE DEF l, c
      <4>1. /\ Midway(ll, cc)'
            /\ (ctx.live \in {0, 1} /\ ctx.schedule \in Directions \cup {"none"} /\ ctx.padding \in BOOLEAN)'
        BY <1>2, <1>3, <1>4, <2>1, MidwayStarts
      <4>2. ll = l' /\ cc = c'
        BY <4>0
      <4> QED
        BY <4>1, <4>2 DEF Midway
    <3>2. Calling'
      BY <1>2, <2>1 DEF Calling
    <3> QED
      BY <3>1, <3>2 DEF Context
  <2>2. CASE ~ SizesAccepted(c)
    <3>1. progress' = Idle
      BY <1>2, <2>2 DEF Enter
    <3> QED
      BY <1>2, <1>4, <3>1 DEF Context, BetweenCalls
  <2> QED
    BY <2>1, <2>2
<1>7. Tested'
  BY <1>1, <1>2 DEF Tested, NotRevealed, Lib, Directions
<1>8. Timed'
  <2>1. pc \in Directions => c.bits = key_sizes[1]
    BY DEF CurrentCall, TimedCall, EncryptCall, DecryptCall, Call, Directions
  <2>2. aes_key_bits'[l] = c.bits
    BY <1>1, <1>2, <1>3 DEF Places
  <2>3. pc' # "fatal" => pc' = pc
    BY <1>2
  <2>4. l' = l
    BY <1>2 DEF Lib
  <2> QED
    BY <1>1, <1>2, <2>1, <2>2, <2>3, <2>4 DEF Timed, Calling, Directions
<1>9. RatioLabel' /\ SameBytes'
  BY <1>1, <1>2 DEF RatioLabel, SameBytes
<1>10. RejectsOnlyPartialBlocks'
  <2>1. CASE SizesAccepted(c)
    BY <1>1, <1>2, <2>1 DEF RejectsOnlyPartialBlocks
  <2>2. CASE ~ SizesAccepted(c)
    <3>1. pc # "auto-test"
      BY <1>1, <2>2, CurrentIsCall DEF CurrentCall
    <3>2. pc # "encrypt"
      <4> SUFFICES ASSUME pc = "encrypt" PROVE FALSE
        OBVIOUS
      <4>1. c.mode = "cbc" /\ c.input = RoundedUp(aes_data_size) /\ c.output = c.input
        BY DEF CurrentCall, TimedCall, EncryptCall, Call
      <4> QED
        BY <1>1, <2>2, <4>1, CurrentIsCall, RoundedUpIs DEF SizesAccepted, AES_BLOCK_SIZE
    <3>3. pc = "decrypt"
      BY <1>2, <3>1, <3>2 DEF Calling
    <3>4. /\ c.mode = "cbc" /\ c.op = "decrypt" /\ c.input = aes_data_size
          /\ c.output = aes_data_size + AES_BLOCK_SIZE
      BY <3>3 DEF CurrentCall, TimedCall, DecryptCall, Call
    <3>5. aes_data_size % AES_BLOCK_SIZE # 0
      BY <1>1, <2>2, <3>4, CurrentIsCall DEF SizesAccepted, AES_BLOCK_SIZE
    <3> QED
      BY <1>2, <2>2, <3>4, <3>5 DEF RejectsOnlyPartialBlocks
  <2> QED
    BY <2>1, <2>2
<1> QED
  BY <1>5, <1>6, <1>7, <1>8, <1>9, <1>10 DEF Inv

(* A call of the method to the underlying library.                         *)
LEMMA InvCallLibrary == Inv /\ CallLibrary => Inv'
<1> SUFFICES ASSUME Inv, CallLibrary PROVE Inv'
  OBVIOUS
<1> DEFINE l == Lib
           c == CurrentCall
<1>1. /\ Places /\ Context /\ Tested /\ Timed /\ RatioLabel /\ SameBytes /\ RejectsOnlyPartialBlocks
  BY DEF Inv
<1>2. /\ Calling /\ LibraryCall(l, c) /\ progress # Idle
      /\ UNCHANGED <<tested, key_sizes, pc, vector, aes_data_size, fault, processed, rejected, ratio, aes_key_bits>>
  BY DEF CallLibrary, LibraryCall, InProgress, position, results
<1>3. l \in AesLibraries /\ IsCall(c) /\ l' = l /\ c' = c /\ Calling'
  BY <1>1, <1>2, CurrentIsCall
    DEF Lib, CurrentCall, Calling, TimedCall, EncryptCall, DecryptCall
<1>4. Midway(l, c) /\ TypeOKArm64
  BY <1>1, <1>2 DEF Context, BetweenCalls, Places, Calling
<1>5. /\ Midway(l, c)' /\ TypeOKArm64'
      /\ (ctx.live \in {0, 1} /\ ctx.schedule \in Directions \cup {"none"} /\ ctx.padding \in BOOLEAN)'
  <2> PICK ll, cc : ll = l /\ cc = c
    OBVIOUS
  <2> HIDE DEF l, c
  <2>1. /\ Midway(ll, cc)' /\ TypeOKArm64'
        /\ (ctx.live \in {0, 1} /\ ctx.schedule \in Directions \cup {"none"} /\ ctx.padding \in BOOLEAN)'
    BY <1>2, <1>3, <1>4, MidwayGoesOn
  <2>2. ll = l' /\ cc = c'
    BY <1>3
  <2> QED
    BY <2>1, <2>2 DEF Midway
<1>6. Places'
  BY <1>1, <1>2, <1>5 DEF Places
<1>7. Context'
  BY <1>3, <1>5 DEF Context
<1>8. Tested'
  BY <1>1, <1>2 DEF Tested, NotRevealed, Lib, Directions
<1>9. Timed'
  BY <1>1, <1>2 DEF Timed, Lib
<1>10. RatioLabel' /\ SameBytes' /\ RejectsOnlyPartialBlocks'
  BY <1>1, <1>2 DEF RatioLabel, SameBytes, RejectsOnlyPartialBlocks
<1> QED
  BY <1>6, <1>7, <1>8, <1>9, <1>10 DEF Inv

(* A vector of the auto-test is compared with the output of the library.   *)
LEMMA InvTestVector == Inv /\ TestVector => Inv'
<1> SUFFICES ASSUME Inv, TestVector PROVE Inv'
  OBVIOUS
<1>1. /\ Places /\ Context /\ Tested /\ Timed /\ RatioLabel /\ SameBytes /\ RejectsOnlyPartialBlocks
  BY DEF Inv
<1> DEFINE v == Vectors[vector]
<1>2. /\ pc = "auto-test" /\ Returning(Lib, v) /\ progress' = Idle /\ arm64' = arm64
      /\ aes_key_bits' = aes_key_bits /\ ctx' = [ctx EXCEPT !.schedule = "none", !.padding = FALSE]
      /\ UNCHANGED <<tested, key_sizes, aes_data_size, fault, processed, rejected, ratio>>
  BY DEF TestVector, Return, results
<1>3. CurrentCall = v /\ Calling /\ Len(Vectors) = 16 /\ vector \in 1 .. 16
  BY <1>1, <1>2, VectorsAre DEF CurrentCall, Calling, Places
<1>4. IF Passes(v)
        THEN IF vector < 16
               THEN vector' = vector + 1 /\ pc' = "auto-test"
               ELSE vector' = 1 /\ pc' = "encrypt"
        ELSE pc' = "fatal" /\ vector' = vector
  BY <1>2, <1>3 DEF TestVector
<1> HIDE DEF v
<1>5. Midway(Lib, CurrentCall)
  <2>1. progress # Idle
    <3>1. Lib \in AesLibraries
      BY <1>1, CurrentIsCall
    <3>2. Calls(Lib, v) \in 2 .. 6 /\ Len(LibraryCalls(Lib, v)) = Calls(Lib, v)
      BY <3>1, CallsAre DEF CallsFacts
    <3>3. progress = Calls(Lib, v)
      BY <1>2, <3>2 DEF Returning
    <3> QED
      BY <3>2, <3>3 DEF Idle
  <2> QED
    BY <1>1, <1>2, <2>1 DEF Context, BetweenCalls
<1>6. BetweenCalls' /\ ctx'.live \in {0, 1} /\ ctx'.schedule \in Directions \cup {"none"} /\ ctx'.padding \in BOOLEAN
  <2>1. ctx.live = 0
    <3>1. Lib \in AesLibraries
      BY <1>1, CurrentIsCall
    <3>2. progress = Calls(Lib, v) /\ Calls(Lib, v) \in 2 .. 6
      BY <1>2, <3>1, CallsAre DEF CallsFacts, Returning
    <3> QED
      BY <1>3, <1>5, <3>2 DEF Midway
  <2>2. ctx'.live = ctx.live /\ ctx'.schedule = "none" /\ ctx'.padding = FALSE
    BY <1>2
  <2> QED
    BY <1>2, <2>1, <2>2 DEF BetweenCalls
<1>7. Places'
  BY <1>1, <1>2, <1>3, <1>4 DEF Places, TypeOKArm64
<1>8. Context'
  BY <1>6 DEF Context
<1>9. Tested'
  <2>1. CASE ~ Passes(v)
    BY <1>4, <2>1 DEF Tested, Directions
  <2>2. CASE Passes(v)
    <3>1. fault # FaultOf(Lib, Vectors[vector])
      BY <2>2 DEF Passes, IsRight, FaultOf, v
    <3>2. \A i \in 1 .. vector - 1 : fault # FaultOf(Lib, Vectors[i])
      BY <1>1, <1>2 DEF Tested, NotRevealed
    <3>3. \A i \in 1 .. vector : fault # FaultOf(Lib, Vectors[i])
      BY <1>3, <3>1, <3>2
    <3>4. fault' = fault /\ Lib' = Lib
      BY <1>2 DEF Lib
    <3>5. CASE vector < 16
      <4>1. pc' = "auto-test" /\ vector' - 1 = vector
        BY <1>3, <1>4, <2>2, <3>5
      <4> QED
        BY <3>3, <3>4, <4>1 DEF Tested, NotRevealed, Directions
    <3>6. CASE ~ (vector < 16)
      <4>1. pc' = "encrypt" /\ vector = 16
        BY <1>3, <1>4, <2>2, <3>6
      <4> QED
        BY <3>3, <3>4, <4>1 DEF Tested, NotRevealed
    <3> QED
      BY <3>5, <3>6
  <2> QED
    BY <2>1, <2>2
<1>10. Timed'
  <2>1. \A op \in Directions : processed[op] = None
    BY <1>1, <1>2 DEF Timed
  <2> QED
    BY <1>1, <1>2, <2>1 DEF Timed, Directions
<1>11. RatioLabel' /\ SameBytes' /\ RejectsOnlyPartialBlocks'
  BY <1>1, <1>2 DEF RatioLabel, SameBytes, RejectsOnlyPartialBlocks
<1> QED
  BY <1>7, <1>8, <1>9, <1>10, <1>11 DEF Inv

(* An iteration of a timed loop ends.                                      *)
LEMMA InvTimedIteration == Inv /\ TimedIteration => Inv'
<1> SUFFICES ASSUME Inv, TimedIteration PROVE Inv'
  OBVIOUS
<1>1. /\ Places /\ Context /\ Tested /\ Timed /\ RatioLabel /\ SameBytes /\ RejectsOnlyPartialBlocks
  BY DEF Inv
<1> DEFINE c == TimedCall(pc)
<1>2. /\ pc \in Directions /\ Returning(Lib, c) /\ progress' = Idle /\ arm64' = arm64
      /\ aes_key_bits' = aes_key_bits /\ ctx' = [ctx EXCEPT !.schedule = "none", !.padding = FALSE]
      /\ processed' = [processed EXCEPT ![pc] = c.input]
      /\ UNCHANGED <<tested, key_sizes, pc, vector, aes_data_size, fault, rejected, ratio>>
  BY DEF TimedIteration, Return, position
<1>3. CurrentCall = c /\ Calling
  BY <1>2 DEF CurrentCall, Calling, Directions
<1> HIDE DEF c
<1>4. Lib \in AesLibraries /\ CallsFacts(Lib, c, LibraryCalls(Lib, c))
  BY <1>1, CurrentIsCall, CallsAre
<1>5. progress = Calls(Lib, c) /\ progress \in 2 .. 6 /\ progress # Idle
  BY <1>2, <1>4 DEF Returning, CallsFacts, Idle
<1>6. Midway(Lib, c)
  BY <1>1, <1>2, <1>3, <1>5 DEF Context, BetweenCalls, Directions
<1>7. BetweenCalls' /\ ctx'.live \in {0, 1} /\ ctx'.schedule \in Directions \cup {"none"} /\ ctx'.padding \in BOOLEAN
  <2>1. ctx.live = 0
    BY <1>5, <1>6 DEF Midway
  <2>2. ctx'.live = ctx.live /\ ctx'.schedule = "none" /\ ctx'.padding = FALSE
    BY <1>2
  <2> QED
    BY <1>2, <2>1, <2>2 DEF BetweenCalls
<1>8. Places'
  BY <1>1, <1>2 DEF Places, TypeOKArm64
<1>9. Context'
  BY <1>7 DEF Context
<1>10. Tested'
  BY <1>1, <1>2 DEF Tested, NotRevealed, Lib, Directions
<1>11. Timed'
  <2>1. /\ pc = "encrypt" => c.input = RoundedUp(aes_data_size)
        /\ pc = "decrypt" => c.input = aes_data_size /\ c.mode = "cbc"
    BY DEF TimedCall, EncryptCall, DecryptCall, Call, c
  <2>2. pc = "decrypt" => aes_data_size % 16 = 0
    BY <1>6, <2>1 DEF Midway, SizesAccepted, AES_BLOCK_SIZE
  <2>3. aes_key_bits[Lib] = key_sizes[1]
    BY <1>1, <1>2, <1>5 DEF Timed, Directions
  <2>4. processed' \in [Directions -> Sizes \cup {None}]
    BY <1>1, <1>2, <2>1 DEF Timed, Sizes, Places, Directions
  <2>5. processed'["encrypt"] \in {RoundedUp(aes_data_size), None}
    BY <1>1, <1>2, <2>1 DEF Timed, Directions
  <2>6. processed'["decrypt"] # None => processed'["decrypt"] = aes_data_size /\ aes_data_size % 16 = 0
    BY <1>1, <1>2, <2>1, <2>2 DEF Timed, Directions
  <2>7. aes_key_bits'[Lib'] = key_sizes'[1] /\ pc' # "auto-test" /\ aes_data_size' = aes_data_size
    BY <1>2, <2>3 DEF Lib, Directions
  <2> QED
    BY <2>4, <2>5, <2>6, <2>7 DEF Timed
<1>12. RatioLabel' /\ SameBytes' /\ RejectsOnlyPartialBlocks'
  BY <1>1, <1>2 DEF RatioLabel, SameBytes, RejectsOnlyPartialBlocks
<1> QED
  BY <1>8, <1>9, <1>10, <1>11, <1>12 DEF Inv

(* A timed loop ends.                                                      *)
LEMMA InvEndLoop == Inv /\ EndLoop => Inv'
<1> SUFFICES ASSUME Inv, EndLoop PROVE Inv'
  OBVIOUS
<1>1. /\ Places /\ Context /\ Tested /\ Timed /\ RatioLabel /\ SameBytes /\ RejectsOnlyPartialBlocks
  BY DEF Inv
<1>2. /\ pc \in Directions /\ progress = Idle /\ pc' = IF pc = "encrypt" THEN "decrypt" ELSE "ratio"
      /\ UNCHANGED <<arm64, aes_key_bits, progress, ctx, tested, key_sizes, vector, aes_data_size, fault,
                     processed, rejected, ratio>>
  BY DEF EndLoop, callvars, results
<1>3. Places'
  BY <1>1, <1>2 DEF Places, TypeOKArm64, Directions
<1>4. Context'
  <2>1. BetweenCalls
    BY <1>1, <1>2, NotIdle DEF Context
  <2> QED
    BY <1>1, <1>2, <2>1 DEF Context, BetweenCalls
<1>5. Tested'
  BY <1>1, <1>2 DEF Tested, NotRevealed, Lib, Directions
<1>6. Timed'
  BY <1>1, <1>2 DEF Timed, Lib, Directions
<1>7. RatioLabel' /\ SameBytes' /\ RejectsOnlyPartialBlocks'
  BY <1>1, <1>2 DEF RatioLabel, SameBytes, RejectsOnlyPartialBlocks
<1> QED
  BY <1>3, <1>4, <1>5, <1>6, <1>7 DEF Inv

(* The line of the ratio, which starts the next key size or library.       *)
LEMMA InvPrintRatio == Inv /\ PrintRatio => Inv'
<1> SUFFICES ASSUME Inv, PrintRatio PROVE Inv'
  OBVIOUS
<1>1. /\ Places /\ Context /\ Tested /\ Timed /\ RatioLabel /\ SameBytes /\ RejectsOnlyPartialBlocks
  BY DEF Inv
<1>2. /\ pc = "ratio" /\ ratio' = [bits |-> key_sizes[1], label |-> aes_key_bits[Lib], bytes |-> processed]
      /\ processed' = [op \in Directions |-> None]
      /\ UNCHANGED <<arm64, aes_key_bits, progress, ctx, vector, aes_data_size, fault, rejected>>
      /\ NextRun
  BY DEF PrintRatio, callvars
<1>3. /\ key_sizes' \in {<<128, 256>>, <<256>>} /\ pc' \in {"auto-test", "done"}
      /\ tested' \in Seq(Libraries) /\ tested' # <<>>
  <2>1. tested \in Seq(Libraries) /\ tested # <<>>
    BY <1>1 DEF Places
  <2>2. CASE Len(key_sizes) > 1
    <3>1. key_sizes = <<128, 256>>
      <4>1. Len(<<256>>) = 1
        OBVIOUS
      <4>2. key_sizes \in {<<128, 256>>, <<256>>}
        BY <1>1 DEF Places
      <4>3. ~ (Len(<<256>>) > 1)
        BY <4>1
      <4>4. key_sizes # <<256>>
        BY <2>2, <4>3, Zenon
      <4> QED
        BY <4>2, <4>4
    <3>2. key_sizes' = <<256>>
      BY <1>2, <2>2, <3>1 DEF NextRun
    <3> QED
      BY <1>2, <2>1, <2>2, <3>2 DEF NextRun
  <2>3. CASE ~ (Len(key_sizes) > 1) /\ Len(tested) > 1
    <3>1. Tail(tested) \in Seq(Libraries) /\ Tail(tested) # <<>>
      <4>1. Tail(tested) \in Seq(Libraries) /\ Len(Tail(tested)) = Len(tested) - 1
        BY <2>1
      <4>2. Len(tested) \in Nat
        BY <2>1
      <4>3. Len(<<>>) = 0
        OBVIOUS
      <4> QED
        BY <2>3, <4>1, <4>2, <4>3
    <3> QED
      BY <1>2, <2>3, <3>1 DEF NextRun
  <2>4. CASE ~ (Len(key_sizes) > 1) /\ ~ (Len(tested) > 1)
    BY <1>2, <2>1, <2>4 DEF NextRun
  <2> QED
    BY <2>2, <2>3, <2>4
<1>4. vector = 1
  BY <1>1, <1>2 DEF Places
<1>5. Places'
  BY <1>1, <1>2, <1>3, <1>4 DEF Places, TypeOKArm64
<1>6. Context'
  <2>1. BetweenCalls
    BY <1>1, <1>2 DEF Context, Calling
  <2> QED
    BY <1>1, <1>2, <2>1 DEF Context, BetweenCalls
<1>7. Tested'
  BY <1>2, <1>3, <1>4 DEF Tested, NotRevealed, Directions
<1>8. Timed'
  <2>1. /\ \A op \in Directions : processed'[op] = None
        /\ processed' \in [Directions -> Sizes' \cup {None}]
    BY <1>2
  <2>2. pc' \in {"auto-test", "done"}
    BY <1>3
  <2> QED
    BY <2>1, <2>2 DEF Timed, Directions
<1>9. RatioLabel'
  BY <1>1, <1>2 DEF RatioLabel, Timed
<1>10. SameBytes'
  <2> SUFFICES ASSUME \A op \in Directions : processed[op] # None
               PROVE  processed["encrypt"] = processed["decrypt"]
    BY <1>2 DEF SameBytes
  <2>1. processed["encrypt"] = RoundedUp(aes_data_size) /\ processed["decrypt"] = aes_data_size /\ aes_data_size % 16 = 0
    BY <1>1 DEF Timed, Directions
  <2> QED
    BY <1>1, <2>1, CurrentIsCall, RoundedUpIs
<1>11. RejectsOnlyPartialBlocks'
  BY <1>1, <1>2 DEF RejectsOnlyPartialBlocks
<1> QED
  BY <1>5, <1>6, <1>7, <1>8, <1>9, <1>10, <1>11 DEF Inv

(* A library reports an error.                                             *)
LEMMA InvLibraryFails == Inv /\ LibraryFails => Inv'
<1> SUFFICES ASSUME Inv, LibraryFails PROVE Inv'
  OBVIOUS
<1>1. /\ Places /\ Context /\ Tested /\ Timed /\ RatioLabel /\ SameBytes /\ RejectsOnlyPartialBlocks
  BY DEF Inv
<1>2. /\ pc' = "fatal" /\ progress # Idle
      /\ UNCHANGED <<arm64, aes_key_bits, progress, ctx, tested, key_sizes, vector, aes_data_size, fault,
                     processed, rejected, ratio>>
  BY DEF LibraryFails, InProgress, callvars, results
<1>3. Places'
  BY <1>1, <1>2 DEF Places, TypeOKArm64
<1>4. Context'
  BY <1>1, <1>2 DEF Context
<1>5. Tested' /\ Timed'
  BY <1>1, <1>2 DEF Tested, Timed, Directions
<1>6. RatioLabel' /\ SameBytes' /\ RejectsOnlyPartialBlocks'
  BY <1>1, <1>2 DEF RatioLabel, SameBytes, RejectsOnlyPartialBlocks
<1> QED
  BY <1>3, <1>4, <1>5, <1>6 DEF Inv

(* Every step preserves the invariant.                                     *)
LEMMA InvNext == Inv /\ [Next]_vars => Inv'
<1>1. Inv /\ UNCHANGED vars => Inv'
  <2> SUFFICES ASSUME Inv, UNCHANGED vars PROVE Inv'
    OBVIOUS
  <2>1. UNCHANGED <<arm64, aes_key_bits, progress, ctx, tested, key_sizes, pc, vector, aes_data_size, fault,
                    processed, rejected, ratio>>
    BY DEF vars, callvars, position, results
  <2>2. Places'
    BY <2>1 DEF Inv, Places, TypeOKArm64
  <2>3. Context'
    <3>1. Midway(Lib, CurrentCall) /\ Calling => Midway(Lib, CurrentCall)' /\ Calling'
      <4>1. Lib' = Lib /\ CurrentCall' = CurrentCall /\ Calling' = Calling
        BY <2>1 DEF Lib, CurrentCall, Calling, TimedCall, EncryptCall, DecryptCall
      <4>2. \A k, bits : Keyed(k, bits) => Keyed(k, bits)'
        BY <2>1 DEF Keyed
      <4> QED
        BY <2>1, <4>1, <4>2 DEF Midway
    <3> QED
      BY <2>1, <3>1 DEF Inv, Context, BetweenCalls
  <2>4. Tested' /\ Timed'
    BY <2>1 DEF Inv, Tested, NotRevealed, Timed, Lib
  <2>5. RatioLabel' /\ SameBytes' /\ RejectsOnlyPartialBlocks'
    BY <2>1 DEF Inv, RatioLabel, SameBytes, RejectsOnlyPartialBlocks
  <2> QED
    BY <2>2, <2>3, <2>4, <2>5 DEF Inv
<1> QED
  BY <1>1, InvStartCall, InvCallLibrary, InvTestVector, InvTimedIteration, InvEndLoop, InvPrintRatio,
     InvLibraryFails DEF Next

-----------------------------------------------------------------------------
(* The invariant always holds.                                             *)
LEMMA InvHolds == Spec => []Inv
<1>1. Init => Inv
  BY InvInit
<1>2. Inv /\ [Next]_vars => Inv'
  BY InvNext
<1> QED
  BY <1>1, <1>2, PTL DEF Spec

(* The state of the benchmarks has its type: the position of run_aes() is  *)
(* within the libraries, the key sizes, the vectors and the calls.         *)
THEOREM TypeCorrect == Spec => []TypeOK
<1>1. Inv => TypeOK
  <2> SUFFICES ASSUME Inv PROVE TypeOK
    OBVIOUS
  <2>1. Places /\ Context /\ Timed
    BY DEF Inv
  <2>2. vector \in 1 .. Len(Vectors)
    BY <2>1, VectorsAre DEF Places
  <2>3. progress = Idle \/ (Calling /\ progress \in 0 .. Len(LibraryCalls(Lib, CurrentCall))) \/ pc = "fatal"
    <3>1. Lib \in AesLibraries
      BY <2>1, CurrentIsCall
    <3>2. Len(LibraryCalls(Lib, CurrentCall)) = Calls(Lib, CurrentCall)
      BY <3>1, CallsAre DEF CallsFacts
    <3> QED
      BY <2>1, <3>2 DEF Context, BetweenCalls, Midway
  <2> QED
    BY <2>1, <2>2, <2>3 DEF Places, Context, Timed, TypeOK
<1> QED
  BY <1>1, InvHolds, PTL

(* The label of a ratio line is the key size of its measures: no call of   *)
(* the auto-test or of another key size comes between (lib.h:65).          *)
THEOREM LabelIsMeasured == Spec => []RatioLabel
<1>1. Inv => RatioLabel
  BY DEF Inv
<1> QED
  BY <1>1, InvHolds, PTL

(* The two sides of a ratio processed as many bytes, for all data sizes.   *)
THEOREM SameWork == Spec => []SameBytes
<1>1. Inv => SameBytes
  BY DEF Inv
<1> QED
  BY <1>1, InvHolds, PTL

(* No size of data makes an encryption refused, and only incomplete blocks *)
(* make a decryption refused.                                              *)
THEOREM OnlyPartialBlocks == Spec => []RejectsOnlyPartialBlocks
<1>1. Inv => RejectsOnlyPartialBlocks
  BY DEF Inv
<1> QED
  BY <1>1, InvHolds, PTL

(* An auto-test which passed guards the timed operations, whichever fault  *)
(* a library has: one of the vectors would have revealed it.               *)
THEOREM AutoTestIsEnough == Spec => []AutoTestGuards
<1>1. Inv => AutoTestGuards
  <2> DEFINE l == Lib
             c == TimedCall(pc)
  <2> SUFFICES ASSUME Inv, pc \in Directions, Returning(l, c), key_sizes[1] = 128 \/ l = "gnutls"
               PROVE  IsRight(l, c)
    BY DEF AutoTestGuards
  <2>1. Places /\ Context /\ Tested
    BY DEF Inv
  <2>2. CurrentCall = c /\ Calling /\ l \in AesLibraries /\ IsCall(c) /\ key_sizes[1] \in {128, 256}
    BY <2>1, CurrentIsCall DEF CurrentCall, Calling, Directions
  <2>3. c.mode = "cbc" /\ c.op = pc /\ c.bits = key_sizes[1]
    BY DEF TimedCall, EncryptCall, DecryptCall, Call, Directions
  <2> HIDE DEF c
  <2>4. Midway(l, c)
    <3>1. Calls(l, c) \in 2 .. 6 /\ Len(LibraryCalls(l, c)) = Calls(l, c)
      BY <2>2, CallsAre DEF CallsFacts
    <3>2. progress = Calls(l, c)
      BY <3>1 DEF Returning
    <3>3. progress # Idle
      BY <3>1, <3>2 DEF Idle
    <3> QED
      BY <2>1, <2>2, <3>3 DEF Context, BetweenCalls, Directions
  <2>5. KeySchedule(l, c) = c.op
    BY <2>3 DEF KeySchedule
  <2>6. PICK i \in 1 .. 16 : FaultOf(l, Vectors[i]) = FaultOf(l, c)
    <3>1. CASE key_sizes[1] = 128
      <4>1. CASE pc = "encrypt"
        <5>1. IsVector(Vectors[13], 13)
          BY VectorsAre
        <5>2. Vectors[13].mode = c.mode /\ Vectors[13].op = c.op /\ Vectors[13].bits = c.bits
          BY <2>3, <3>1, <4>1, <5>1 DEF IsVector, VectorBits
        <5> QED
          BY <5>2 DEF FaultOf
      <4>2. CASE pc = "decrypt"
        <5>1. IsVector(Vectors[14], 14)
          BY VectorsAre
        <5>2. Vectors[14].mode = c.mode /\ Vectors[14].op = c.op /\ Vectors[14].bits = c.bits
          BY <2>3, <3>1, <4>2, <5>1 DEF IsVector, VectorBits
        <5> QED
          BY <5>2 DEF FaultOf
      <4> QED
        BY <4>1, <4>2 DEF Directions
    <3>2. CASE l = "gnutls" /\ key_sizes[1] = 256
      <4>1. CASE pc = "encrypt"
        <5>1. IsVector(Vectors[9], 9)
          BY VectorsAre
        <5>2. Vectors[9].op = c.op /\ Vectors[9].bits = c.bits
          BY <2>3, <3>2, <4>1, <5>1 DEF IsVector, VectorBits
        <5> QED
          BY <3>2, <5>2 DEF FaultOf, ModeUsed
      <4>2. CASE pc = "decrypt"
        <5>1. IsVector(Vectors[10], 10)
          BY VectorsAre
        <5>2. Vectors[10].op = c.op /\ Vectors[10].bits = c.bits
          BY <2>3, <3>2, <4>2, <5>1 DEF IsVector, VectorBits
        <5> QED
          BY <3>2, <5>2 DEF FaultOf, ModeUsed
      <4> QED
        BY <4>1, <4>2 DEF Directions
    <3> QED
      BY <2>2, <3>1, <3>2
  <2>7. fault # FaultOf(l, c)
    BY <2>1, <2>6 DEF Tested, NotRevealed
  <2> QED
    BY <2>2, <2>4, <2>5, <2>7, ReturnsRight
<1> QED
  BY <1>1, InvHolds, PTL

(* No method writes more than its output buffer, at any time of a call.    *)
THEOREM OutputIsLargeEnough == Spec => []OutputFits
<1>1. Inv => OutputFits
  <2> SUFFICES ASSUME Inv, Calling, progress # Idle PROVE ctx.written <= CurrentCall.output
    BY DEF OutputFits
  <2> DEFINE c == CurrentCall
  <2>1. Midway(Lib, c) /\ IsCall(c)
    BY CurrentIsCall DEF Inv, Context, BetweenCalls, Calling
  <2> HIDE DEF c
  <2>2. ctx.written \in {0, c.input} /\ SizesAccepted(c)
    BY <2>1 DEF Midway
  <2>3. c.input <= c.output /\ 0 <= c.output
    BY <2>1, <2>2 DEF SizesAccepted, IsCall, AES_BLOCK_SIZE
  <2> QED
    BY <2>2, <2>3 DEF c
<1> QED
  BY <1>1, InvHolds, PTL

(* No cipher context outlives the call which allocated it.                 *)
THEOREM NoContextLeak == Spec => []ContextsReleased
<1>1. Inv => ContextsReleased
  <2> SUFFICES ASSUME Inv PROVE ContextsReleased
    OBVIOUS
  <2>1. progress = Idle => BetweenCalls
    BY NotIdle DEF Inv, Context
  <2> QED
    BY <2>1 DEF Inv, Context, BetweenCalls, ContextsReleased
<1> QED
  BY <1>1, InvHolds, PTL

(* Every call of the arm64 library computes AES, and CBC both ways, with   *)
(* whatever keys the object had before.                                    *)
THEOREM Arm64IsAes == Spec => []Arm64Computes
<1>1. Inv => Arm64Computes
  <2> DEFINE c == CurrentCall
  <2> SUFFICES ASSUME Inv, Lib = "arm64", Calling, Returning(Lib, c) PROVE Arm64Computes
    BY DEF Arm64Computes
  <2>1. IsCall(c) /\ Lib \in AesLibraries
    BY CurrentIsCall DEF Inv
  <2>2. /\ progress \in 2 .. 6 /\ progress # Idle
    <3>1. Calls(Lib, c) \in 2 .. 6 /\ Len(LibraryCalls(Lib, c)) = Calls(Lib, c)
      BY <2>1, CallsAre DEF CallsFacts
    <3>2. progress = Calls(Lib, c)
      BY <3>1 DEF Returning
    <3> QED
      BY <3>1, <3>2 DEF Idle
  <2>3. Keyed(c.key, c.bits) /\ c.bits \in KeyBits
    BY <2>1, <2>2 DEF Inv, Context, BetweenCalls, Calling, Midway, IsCall
  <2>4. EncryptSteps = Cipher(c.key, c.bits)
    BY <2>3, EncryptIsCipher
  <2> DEFINE Block(x) == {[text |-> x]}
             S == {Block(1), Block(2)}
             plain == <<Block(1), Block(2)>>
             cipher == encrypt_cbc(Block(0), plain)
             first == encrypt_cbc(Block(0), <<Block(1)>>)
             second == encrypt_cbc(first.iv, <<Block(2)>>)
  <2>5. plain \in Seq(S) /\ <<Block(1)>> \in Seq(S) /\ <<Block(2)>> \in Seq(S)
    OBVIOUS
  <2>6. plain = <<Block(1)>> \o <<Block(2)>>
    <3> HIDE DEF Block
    <3> QED
      OBVIOUS
  <2>7. cipher.output = first.output \o second.output /\ cipher.iv = second.iv
    <3> DEFINE p == <<Block(1)>>
               q == <<Block(2)>>
               iv == Block(0)
    <3>1. p \in Seq(S) /\ q \in Seq(S) /\ plain = p \o q
      BY <2>5, <2>6
    <3> HIDE DEF Block, S, p, q, iv, plain
    <3>2. Chains(iv, p, q)
      BY <3>1, CbcChains
    <3> QED
      BY <3>1, <3>2 DEF p, q, iv, Chains
  <2>8. decrypt_cbc(Block(0), cipher.output) = [iv |-> cipher.iv, output |-> plain]
    <3> HIDE DEF Block, S, plain
    <3> QED
      BY <2>3, <2>5, CbcInverts
  <2> QED
    BY <2>4, <2>7, <2>8 DEF Arm64Computes
<1> QED
  BY <1>1, InvHolds, PTL

=============================================================================
