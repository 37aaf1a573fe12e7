--------------------------- MODULE RsaBenchProofs ---------------------------
(***************************************************************************)
(* Proofs about the RSA benchmarks and the libraries behind them, for any  *)
(* key sizes, any selection of libraries and any math backends of          *)
(* LibTomCrypt, while another run of the program rewrites the key files.   *)
(***************************************************************************)
EXTENDS RsaBench, FiniteSetTheorems, WellFoundedInduction, TLAPS

-----------------------------------------------------------------------------
(* The inductive invariant. *)

(* The references to EVP_PKEY h, one by one.                               *)
Is(x, h) == IF x = h THEN 1 ELSE 0
References(o, h) ==
  Is(o.slot["private"], h) + Is(o.slot["public"], h)
    + Is(o.ctx["encrypt"], h) + Is(o.ctx["decrypt"], h) + Is(o.ctx["sign"], h) + Is(o.ctx["verify"], h)

(* A LibTomCrypt key was made by the backend of its object.                *)
OwnBackend ==
  /\ mixed = FALSE
  /\ \A t \in Instances, s \in Sides :
       tomcrypt[t][s] # Null => MathDesc[t] # Null /\ tomcrypt[t][s].mp = MathDesc[t]

(* A key file has a key of the size in its name.                           *)
OwnSize == \A s \in Sizes, side \in Sides : files[s][side] # Null => files[s][side].bits = s

Usable == {l \in {"openssl", "mbedtls", "gnutls"} \cup Instances : HasRsa(l)}
Places ==
  /\ phase \in {"generate", "rsa", "destroy", "done", "fatal"}
  /\ tested \in Seq(Usable) /\ (phase = "rsa" => tested # <<>>)
  /\ sizes \in Seq(Sizes) /\ sizes # <<>>
  /\ block \in 1 .. 16 /\ call \in 1 .. Len(Script[block].calls)
  /\ phase = "generate" => block = 1 /\ call = 1
  /\ phase = "destroy" => block \in 1 .. 5 /\ call = 1
  /\ output \in Uses \cup {Null} /\ encrypted \in Uses \cup {Null} /\ sig \in Uses \cup {Null}
  /\ der \in Keys \cup {Null}

(* What is known in each part of run_rsa(), b and c being the indices of   *)
(* the block and of the call: which keys were loaded, which contexts made  *)
(* for them, in which keys MbedTLS left its v2.1 padding, and from where   *)
(* on the two keys are the halves of one pair.                             *)
HasKey(side, b, c) == b # 1 \/ (c = 2 /\ side = "private")
InitAt(op) ==
  IF op = "encrypt" THEN 2 ELSE IF op = "decrypt" THEN 4 ELSE IF op = "sign" THEN 6 ELSE 8
HasContext(op, b, c) == b \in 3 .. 12 \/ (b = 2 /\ c > InitAt(op))
HasPadding(side, b, c) == b \in 3 .. 12 \/ (b = 2 /\ c > (IF side = "public" THEN 3 ELSE 5))
Paired(b, c) == b \in 3 .. 12 \/ (b = 2 /\ c > 5)

Encrypted(k) == [key |-> k, padding |-> IF Lib = "gnutls" THEN "v15" ELSE "oaep"]
Signed(k) == [key |-> k, padding |-> "pss"]

KeysLoaded ==
  \A side \in Sides : HasKey(side, block, call) => LoadedKey(side) \in Keys /\ LoadedKey(side).bits = Size
ContextsMade ==
  Lib = "openssl" =>
    \A op \in Operations : HasContext(op, block, call) => openssl.ctx[op] = openssl.slot[SideOf(op)]
PaddingLeft ==
  Lib = "mbedtls" => \A side \in Sides : HasPadding(side, block, call) => mbedtls[side].padding = "v21"
OnePair == Paired(block, call) => LoadedKey("private") = LoadedKey("public")
BuffersFit ==
  /\ block = 2 /\ call \in {4, 5} => output = Encrypted(LoadedKey("public"))
  /\ block = 2 /\ call \in {8, 9} => output = Signed(LoadedKey("private"))
  /\ block \in 4 .. 7 => encrypted = Encrypted(LoadedKey("public"))
  /\ block \in 9 .. 12 => sig = Signed(LoadedKey("private"))
  /\ block \in {14, 16} => (der # Null => der.bits = Size)
Stage == phase = "rsa" => KeysLoaded /\ ContextsMade /\ PaddingLeft /\ OnePair /\ BuffersFit

LibTypes == OpenSSL!TypeOK /\ MbedTLS!TypeOK /\ GnuTLS!TypeOK /\ Tomcrypt!TypeOK
Inv == LibTypes /\ NoKeyLeak /\ OwnBackend /\ Files!TypeOK /\ OwnSize /\ Places /\ Stage

-----------------------------------------------------------------------------
(* The reference counts of OpenSSL. *)

(* The names which the libraries share with the program.                   *)
LEMMA SameNames ==
  /\ \A S : OpenSSL!Cardinality(S) = Cardinality(S)
  /\ OpenSSL!Sides = Sides /\ OpenSSL!Operations = Operations /\ OpenSSL!Keys = Keys
  /\ OpenSSL!SideOf("encrypt") = "public" /\ OpenSSL!SideOf("decrypt") = "private"
  /\ OpenSSL!SideOf("sign") = "private" /\ OpenSSL!SideOf("verify") = "public"
  /\ SideOf("encrypt") = "public" /\ SideOf("decrypt") = "private"
  /\ SideOf("sign") = "private" /\ SideOf("verify") = "public"
<1>1. \A S : OpenSSL!Cardinality(S) = Cardinality(S)
  BY DEF OpenSSL!Cardinality, Cardinality
<1> QED
  BY <1>1 DEF OpenSSL!Sides, Sides, OpenSSL!Operations, Operations, OpenSSL!Keys, Keys, OpenSSL!SideOf, SideOf

(* How many places of D hold h: one more place counts, or does not.        *)
Count(f, D, h) == Cardinality({y \in D : f[y] = h})
(* The count over a set with one place more.                               *)
LEMMA CountOne ==
  ASSUME NEW D, IsFiniteSet(D), NEW f, NEW x, x \notin D, NEW h, NEW E, E = D \cup {x}
  PROVE  IsFiniteSet(E) /\ Count(f, E, h) = Count(f, D, h) + Is(f[x], h)
<1> DEFINE S == {y \in D : f[y] = h}
           T == {y \in E : f[y] = h}
<1>0. IsFiniteSet(S) /\ x \notin S
  BY FS_Subset
<1>a. IsFiniteSet(E)
  BY FS_AddElement
<1>b. Count(f, D, h) = Cardinality(S) /\ Count(f, E, h) = Cardinality(T)
  BY DEF Count
<1>c. Cardinality(S) \in Nat
  BY <1>0, FS_CardinalityType
<1>d. (f[x] = h => T = S \cup {x}) /\ (f[x] # h => T = S)
  OBVIOUS
<1> HIDE DEF S, T
<1>1. CASE f[x] = h
  <2>1. Cardinality(S \cup {x}) = Cardinality(S) + 1
    BY <1>0, FS_AddElement
  <2>2. Is(f[x], h) = 1
    BY <1>1 DEF Is
  <2> QED
    BY <1>1, <1>a, <1>b, <1>d, <2>1, <2>2
<1>2. CASE f[x] # h
  <2>1. Is(f[x], h) = 0
    BY <1>2 DEF Is
  <2> QED
    BY <1>2, <1>a, <1>b, <1>c, <1>d, <2>1
<1> QED
  BY <1>1, <1>2

(* The counts that RefCountExact compares are those references.            *)
LEMMA CountIs ==
  ASSUME NEW o, NEW h
  PROVE  Count(o.slot, Sides, h) + Count(o.ctx, Operations, h) = References(o, h)
<1> DEFINE f == o.slot
           g == o.ctx
           d1 == {"private"}
           e1 == {"encrypt"}
           e2 == e1 \cup {"decrypt"}
           e3 == e2 \cup {"sign"}
<1>0. IsFiniteSet({}) /\ Count(f, {}, h) = 0 /\ Count(g, {}, h) = 0
  <2>1. {y \in {} : f[y] = h} = {} /\ {y \in {} : g[y] = h} = {}
    OBVIOUS
  <2> QED
    BY <2>1, FS_EmptySet DEF Count
<1>1. d1 = {} \cup {"private"} /\ Sides = d1 \cup {"public"} /\ "private" \notin {} /\ "public" \notin d1
  BY DEF Sides
<1>2. /\ e1 = {} \cup {"encrypt"} /\ "encrypt" \notin {}
      /\ e2 = e1 \cup {"decrypt"} /\ "decrypt" \notin e1
      /\ e3 = e2 \cup {"sign"} /\ "sign" \notin e2
      /\ Operations = e3 \cup {"verify"} /\ "verify" \notin e3
  BY DEF Operations
<1> HIDE DEF d1, e1, e2, e3, f, g
<1>3. IsFiniteSet(d1) /\ Count(f, d1, h) = 0 + Is(f["private"], h)
  BY <1>0, <1>1, CountOne
<1>4. Count(f, Sides, h) = Count(f, d1, h) + Is(f["public"], h)
  BY <1>1, <1>3, CountOne
<1>5. IsFiniteSet(e1) /\ Count(g, e1, h) = 0 + Is(g["encrypt"], h)
  BY <1>0, <1>2, CountOne
<1>6. IsFiniteSet(e2) /\ Count(g, e2, h) = Count(g, e1, h) + Is(g["decrypt"], h)
  BY <1>2, <1>5, CountOne
<1>7. IsFiniteSet(e3) /\ Count(g, e3, h) = Count(g, e2, h) + Is(g["sign"], h)
  BY <1>2, <1>6, CountOne
<1>8. Count(g, Operations, h) = Count(g, e3, h) + Is(g["verify"], h)
  BY <1>2, <1>7, CountOne
<1>9. \A x : Is(x, h) \in 0 .. 1
  BY DEF Is
<1> QED
  BY <1>3, <1>4, <1>5, <1>6, <1>7, <1>8, <1>9 DEF References, f, g

Heaps == [OpenSSL!Handles -> [key : Keys \cup {Null}, refs : 0 .. 6]]
Exact(o) == \A h \in OpenSSL!Handles : o.heap[h].refs = References(o, h)

(* No leak is what the counts say of the heap, before and after a step.    *)
LEMMA LeakIs == (NoKeyLeak <=> Exact(openssl)) /\ (NoKeyLeak' <=> Exact(openssl'))
<1> DEFINE Says(o) == \A h \in OpenSSL!Handles :
                        o.heap[h].refs = OpenSSL!Cardinality({s \in OpenSSL!Sides : o.slot[s] = h})
                                           + OpenSSL!Cardinality({c \in OpenSSL!Operations : o.ctx[c] = h})
<1>1. (NoKeyLeak <=> Says(openssl)) /\ (NoKeyLeak' <=> Says(openssl'))
  BY Zenon DEF NoKeyLeak, OpenSSL!RefCountExact
<1>2. ASSUME NEW o
      PROVE  Says(o) <=> Exact(o)
  <2>1. ASSUME NEW h
        PROVE  /\ OpenSSL!Cardinality({s \in OpenSSL!Sides : o.slot[s] = h}) = Count(o.slot, Sides, h)
               /\ OpenSSL!Cardinality({c \in OpenSSL!Operations : o.ctx[c] = h}) = Count(o.ctx, Operations, h)
    BY SameNames, Zenon DEF Count
  <2>2. \A h : Count(o.slot, Sides, h) + Count(o.ctx, Operations, h) = References(o, h)
    BY CountIs
  <2> QED
    BY <2>1, <2>2, Zenon DEF Exact
<1> QED
  BY <1>1, <1>2

Released(heap, h, after) ==
  /\ after \in Heaps
  /\ \A g \in OpenSSL!Handles :
       /\ after[g].refs = heap[g].refs - Is(h, g)
       /\ after[g].refs # 0 => after[g].key = heap[g].key

(* EVP_PKEY_free takes one reference away; the last one frees the key.     *)
LEMMA ReleaseIs ==
  ASSUME NEW heap \in Heaps, NEW h \in OpenSSL!Handles \cup {Null}, h # Null => heap[h].refs # 0
  PROVE  Released(heap, h, OpenSSL!Release(heap, h))
<1> DEFINE after == OpenSSL!Release(heap, h)
<1> SUFFICES Released(heap, h, after)
  OBVIOUS
<1> USE DEF Released
<1>1. CASE h = Null
  <2>1. \A g \in OpenSSL!Handles : Is(h, g) = 0
    BY <1>1, NullIsNone DEF Is, OpenSSL!Handles
  <2>2. after = heap
    BY <1>1 DEF OpenSSL!Release
  <2> QED
    BY <2>1, <2>2 DEF Heaps
<1>2. CASE h # Null
  <2>0. h \in OpenSSL!Handles /\ heap[h] \in [key : Keys \cup {Null}, refs : 0 .. 6] /\ heap[h].refs # 0
    BY <1>2 DEF Heaps
  <2> DEFINE n == heap[h].refs - 1
             e == IF heap[h].refs = 1 THEN OpenSSL!FreePkey ELSE [heap[h] EXCEPT !.refs = n]
  <2>1. after = [heap EXCEPT ![h] = e]
    BY <1>2 DEF OpenSSL!Release
  <2>2. /\ e \in [key : Keys \cup {Null}, refs : 0 .. 6] /\ e.refs = n
        /\ e.refs # 0 => e.key = heap[h].key
    BY <2>0 DEF OpenSSL!FreePkey
  <2> HIDE DEF e
  <2>3. after \in Heaps
    BY <2>0, <2>1, <2>2 DEF Heaps
  <2>4. ASSUME NEW g \in OpenSSL!Handles
        PROVE  after[g].refs = heap[g].refs - Is(h, g) /\ (after[g].refs # 0 => after[g].key = heap[g].key)
    <3>1. CASE g = h
      BY <2>0, <2>1, <2>2, <3>1 DEF Is, Heaps
    <3>2. CASE g # h
      <4>1. after[g] = heap[g] /\ heap[g].refs \in 0 .. 6
        BY <2>1, <3>2 DEF Heaps
      <4> QED
        BY <3>2, <4>1 DEF Is
    <3> QED
      BY <3>1, <3>2
  <2> QED
    BY <2>3, <2>4
<1> QED
  BY <1>1, <1>2

(* The references which an object may have.                                *)
LEMMA ReferenceTypes ==
  ASSUME OpenSSL!TypeOK
  PROVE  /\ openssl = [heap |-> openssl.heap, slot |-> openssl.slot, ctx |-> openssl.ctx]
         /\ openssl.heap \in Heaps
         /\ openssl.slot \in [Sides -> OpenSSL!Handles \cup {Null}]
         /\ openssl.ctx \in [Operations -> OpenSSL!Handles \cup {Null}]
BY SameNames DEF OpenSSL!TypeOK, Heaps

(* Five references at most leave one of the six handles free.              *)
LEMMA OneIsFree ==
  ASSUME NEW heap \in Heaps, NEW x1, NEW x2, NEW x3, NEW x4, NEW x5,
         \A g \in OpenSSL!Handles :
           heap[g].refs = Is(x1, g) + Is(x2, g) + Is(x3, g) + Is(x4, g) + Is(x5, g)
  PROVE  OpenSSL!FreshHandle(heap) \in OpenSSL!Handles /\ heap[OpenSSL!FreshHandle(heap)].refs = 0
<1> DEFINE n(g) == heap[g].refs
           Free(g) == n(g) = 0
<1>1. ASSUME \A g \in 1 .. 6 : ~Free(g)
      PROVE  FALSE
  <2>1. \A g \in 1 .. 6 : g = x1 \/ g = x2 \/ g = x3 \/ g = x4 \/ g = x5
    BY <1>1 DEF Is, OpenSSL!Handles
  <2>2. /\ (1 = x1 \/ 1 = x2 \/ 1 = x3 \/ 1 = x4 \/ 1 = x5)
        /\ (2 = x1 \/ 2 = x2 \/ 2 = x3 \/ 2 = x4 \/ 2 = x5)
        /\ (3 = x1 \/ 3 = x2 \/ 3 = x3 \/ 3 = x4 \/ 3 = x5)
        /\ (4 = x1 \/ 4 = x2 \/ 4 = x3 \/ 4 = x4 \/ 4 = x5)
        /\ (5 = x1 \/ 5 = x2 \/ 5 = x3 \/ 5 = x4 \/ 5 = x5)
        /\ (6 = x1 \/ 6 = x2 \/ 6 = x3 \/ 6 = x4 \/ 6 = x5)
    BY <2>1
  <2> QED
    BY <2>2, SMTT(30)
<1> HIDE DEF Free
<1>2. Free(1) \/ Free(2) \/ Free(3) \/ Free(4) \/ Free(5) \/ Free(6)
  BY <1>1
<1>3. \E h \in 1 .. 6 : Free(h) /\ \A g \in 1 .. h - 1 : ~Free(g)
  <2>1. CASE Free(1)
    BY <2>1
  <2>2. CASE ~Free(1) /\ Free(2)
    BY <2>2
  <2>3. CASE ~Free(1) /\ ~Free(2) /\ Free(3)
    BY <2>3
  <2>4. CASE ~Free(1) /\ ~Free(2) /\ ~Free(3) /\ Free(4)
    BY <2>4
  <2>5. CASE ~Free(1) /\ ~Free(2) /\ ~Free(3) /\ ~Free(4) /\ Free(5)
    BY <2>5
  <2>6. CASE ~Free(1) /\ ~Free(2) /\ ~Free(3) /\ ~Free(4) /\ ~Free(5) /\ Free(6)
    BY <2>6
  <2> QED
    BY <1>2, <2>1, <2>2, <2>3, <2>4, <2>5, <2>6
<1>4. \E h \in OpenSSL!Handles : heap[h].refs = 0 /\ \A g \in 1 .. h - 1 : heap[g].refs # 0
  BY <1>3 DEF Free, OpenSSL!Handles
<1> QED
  BY <1>4, Zenon DEF OpenSSL!FreshHandle

(* A key in a slot or in a context is alive.                               *)
LEMMA Referenced ==
  ASSUME NEW o, NEW h, NEW s \in Sides \cup Operations
  PROVE  /\ References(o, h) \in 0 .. 6
         /\ s \in Sides /\ o.slot[s] = h => References(o, h) >= 1
         /\ s \in Operations /\ o.ctx[s] = h => References(o, h) >= 1
<1>1. \A x : Is(x, h) \in 0 .. 1 /\ (x = h => Is(x, h) = 1)
  BY DEF Is
<1> QED
  BY <1>1 DEF References, Sides, Operations

(* load_rsa_key leaks nothing, replaces the key of its side, and leaves    *)
(* the key of the other side and the contexts alone.                       *)
LEMMA LoadOpenssl ==
  ASSUME OpenSSL!TypeOK, NoKeyLeak, NEW side \in Sides, NEW k \in Keys, OpenSSL!load_rsa_key(side, k)
  PROVE  /\ OpenSSL!TypeOK' /\ NoKeyLeak'
         /\ openssl'.ctx = openssl.ctx
         /\ OpenSSL!Loaded(side)' = k
         /\ \A other \in Sides : other # side => OpenSSL!Loaded(other)' = OpenSSL!Loaded(other)
<1> DEFINE x == openssl.slot[side]
           freed == OpenSSL!Release(openssl.heap, x)
           h == OpenSSL!FreshHandle(freed)
           e == [key |-> k, refs |-> 1]
<1>1. /\ openssl = [heap |-> openssl.heap, slot |-> openssl.slot, ctx |-> openssl.ctx]
      /\ openssl.heap \in Heaps
      /\ openssl.slot \in [Sides -> OpenSSL!Handles \cup {Null}]
      /\ openssl.ctx \in [Operations -> OpenSSL!Handles \cup {Null}]
  BY ReferenceTypes
<1>2. Exact(openssl)
  BY LeakIs
<1>3. x \in OpenSSL!Handles \cup {Null} /\ (x # Null => openssl.heap[x].refs # 0)
  <2>1. \A g : References(openssl, g) \in 0 .. 6 /\ (x = g => References(openssl, g) >= 1)
    BY Referenced
  <2> QED
    BY <1>1, <1>2, <2>1 DEF Exact
<1>4. openssl' = [openssl EXCEPT !.heap = [freed EXCEPT ![h] = e], !.slot[side] = h]
  BY DEF OpenSSL!load_rsa_key
<1> HIDE DEF x, h, e
<1>5. Released(openssl.heap, x, freed)
  BY <1>1, <1>3, ReleaseIs
<1> HIDE DEF freed
<1>6. freed \in Heaps
  BY <1>5 DEF Released
<1>7. /\ side = "private" =>
           \A g \in OpenSSL!Handles :
             freed[g].refs = Is(openssl.slot["public"], g) + Is(openssl.ctx["encrypt"], g)
                               + Is(openssl.ctx["decrypt"], g) + Is(openssl.ctx["sign"], g) + Is(openssl.ctx["verify"], g)
      /\ side = "public" =>
           \A g \in OpenSSL!Handles :
             freed[g].refs = Is(openssl.slot["private"], g) + Is(openssl.ctx["encrypt"], g)
                               + Is(openssl.ctx["decrypt"], g) + Is(openssl.ctx["sign"], g) + Is(openssl.ctx["verify"], g)
  <2>1. \A g \in OpenSSL!Handles : freed[g].refs = References(openssl, g) - Is(x, g)
    BY <1>2, <1>5 DEF Released, Exact
  <2>2. \A y, g : Is(y, g) \in 0 .. 1
    BY DEF Is
  <2> QED
    BY <2>1, <2>2 DEF References, x
<1>8. h \in OpenSSL!Handles /\ freed[h].refs = 0
  BY <1>6, <1>7, OneIsFree DEF Sides, h
<1>9. /\ openssl' \in [heap : Heaps, slot : [Sides -> OpenSSL!Handles \cup {Null}],
                       ctx : [Operations -> OpenSSL!Handles \cup {Null}]]
      /\ openssl'.heap = [freed EXCEPT ![h] = e]
      /\ openssl'.slot = [openssl.slot EXCEPT ![side] = h] /\ openssl'.ctx = openssl.ctx
  <2>1. [freed EXCEPT ![h] = e] \in Heaps
    BY <1>6, <1>8 DEF Heaps, e
  <2> QED
    BY <1>1, <1>4, <1>8, <2>1
<1>10. OpenSSL!TypeOK'
  BY <1>9, SameNames DEF OpenSSL!TypeOK, Heaps
<1>11. h # Null /\ openssl'.heap[h] = e /\ \A g \in OpenSSL!Handles : g # h => openssl'.heap[g] = freed[g]
  BY <1>6, <1>8, <1>9, NullIsNone DEF Heaps, OpenSSL!Handles
<1>12. Exact(openssl')
  <2> SUFFICES ASSUME NEW g \in OpenSSL!Handles
               PROVE  openssl'.heap[g].refs = References(openssl', g)
    BY DEF Exact
  <2>1. \A y : Is(y, g) \in 0 .. 1
    BY DEF Is
  <2>2. openssl'.heap[g].refs = freed[g].refs + Is(h, g)
    <3>1. CASE g = h
      BY <1>8, <1>11, <3>1 DEF Is, e
    <3>2. CASE g # h
      BY <1>6, <1>11, <3>2 DEF Is, Heaps
    <3> QED
      BY <3>1, <3>2
  <2>3. CASE side = "private"
    BY <1>1, <1>7, <1>9, <2>1, <2>2, <2>3 DEF References, Sides
  <2>4. CASE side = "public"
    BY <1>1, <1>7, <1>9, <2>1, <2>2, <2>4 DEF References, Sides
  <2> QED
    BY <2>3, <2>4 DEF Sides
<1>13. NoKeyLeak'
  BY <1>12, LeakIs
<1>14. OpenSSL!Loaded(side)' = k
  BY <1>1, <1>9, <1>11 DEF OpenSSL!Loaded, e
<1>15. ASSUME NEW other \in Sides, other # side
       PROVE  OpenSSL!Loaded(other)' = OpenSSL!Loaded(other)
  <2>1. openssl'.slot[other] = openssl.slot[other]
    BY <1>1, <1>9, <1>15
  <2>2. CASE openssl.slot[other] = Null
    BY <2>1, <2>2 DEF OpenSSL!Loaded
  <2>3. CASE openssl.slot[other] # Null
    <3> DEFINE g == openssl.slot[other]
    <3>1. g \in OpenSSL!Handles
      BY <1>1, <2>3
    <3>2. freed[g].refs # 0
      <4>1. \A y, z : Is(y, z) \in 0 .. 1 /\ (y = z => Is(y, z) = 1)
        BY DEF Is
      <4> QED
        BY <1>7, <1>15, <3>1, <4>1 DEF Sides
    <3>3. openssl'.heap[g] = freed[g] /\ freed[g].key = openssl.heap[g].key
      BY <1>5, <1>8, <1>11, <3>1, <3>2 DEF Released
    <3> QED
      BY <2>1, <2>3, <3>3 DEF OpenSSL!Loaded
  <2> QED
    BY <2>2, <2>3
<1> QED
  BY <1>9, <1>10, <1>13, <1>14, <1>15

(* rsa_init leaks nothing and makes a context for the key which is loaded  *)
(* on the side of the operation; the loaded keys stay.                     *)
LEMMA InitOpenssl ==
  ASSUME OpenSSL!TypeOK, NoKeyLeak, NEW op \in Operations, OpenSSL!rsa_init(op)
  PROVE  /\ OpenSSL!TypeOK' /\ NoKeyLeak'
         /\ openssl.slot[SideOf(op)] # Null
         /\ openssl'.slot = openssl.slot
         /\ openssl'.ctx = [openssl.ctx EXCEPT ![op] = openssl.slot[SideOf(op)]]
         /\ \A side \in Sides : OpenSSL!Loaded(side)' = OpenSSL!Loaded(side)
<1> DEFINE x == openssl.ctx[op]
           freed == OpenSSL!Release(openssl.heap, x)
           h == openssl.slot[SideOf(op)]
           heap == [freed EXCEPT ![h].refs = freed[h].refs + 1]
<1>1. /\ openssl = [heap |-> openssl.heap, slot |-> openssl.slot, ctx |-> openssl.ctx]
      /\ openssl.heap \in Heaps
      /\ openssl.slot \in [Sides -> OpenSSL!Handles \cup {Null}]
      /\ openssl.ctx \in [Operations -> OpenSSL!Handles \cup {Null}]
  BY ReferenceTypes
<1>2. Exact(openssl)
  BY LeakIs
<1>3. x \in OpenSSL!Handles \cup {Null} /\ (x # Null => openssl.heap[x].refs # 0)
  <2>1. \A g : References(openssl, g) \in 0 .. 6 /\ (x = g => References(openssl, g) >= 1)
    BY Referenced
  <2> QED
    BY <1>1, <1>2, <2>1 DEF Exact
<1>4. SideOf(op) = OpenSSL!SideOf(op) /\ SideOf(op) \in Sides
  BY DEF OpenSSL!SideOf, SideOf, Sides
<1>5. h # Null /\ openssl' = [openssl EXCEPT !.heap = heap, !.ctx[op] = h]
  BY <1>4 DEF OpenSSL!rsa_init, OpenSSL!Retain
<1>6. h \in OpenSSL!Handles
  BY <1>1, <1>4, <1>5
<1> DEFINE e == [freed[h] EXCEPT !.refs = freed[h].refs + 1]
<1>7. heap = [freed EXCEPT ![h] = e]
  OBVIOUS
<1> HIDE DEF x, heap, e
<1>8. Released(openssl.heap, x, freed)
  BY <1>1, <1>3, ReleaseIs
<1> HIDE DEF freed
<1>9. freed \in Heaps /\ \A g \in OpenSSL!Handles : freed[g].refs = References(openssl, g) - Is(x, g)
  BY <1>2, <1>8 DEF Released, Exact
<1>10. \A g \in OpenSSL!Handles :
         (\E side \in Sides : openssl.slot[side] = g) => References(openssl, g) - Is(x, g) \in 1 .. 6
  <2>1. \A y, g : Is(y, g) \in 0 .. 1 /\ (y = g => Is(y, g) = 1)
    BY DEF Is
  <2> QED
    BY <2>1 DEF References, Sides, Operations, x
<1>11. \A g \in OpenSSL!Handles : References(openssl, g) - Is(x, g) + Is(h, g) \in 0 .. 6
  <2> SUFFICES ASSUME NEW g \in OpenSSL!Handles
               PROVE  References(openssl, g) - Is(x, g) + Is(h, g) \in 0 .. 6
    OBVIOUS
  <2>1. \A y : Is(y, g) \in 0 .. 1 /\ (y = g => Is(y, g) = 1) /\ (y # g => Is(y, g) = 0)
    BY DEF Is
  <2>2. References(openssl, g) \in 0 .. 6 /\ References(openssl, g) - Is(x, g) \in 0 .. 6
    BY <2>1 DEF References, Operations, x
  <2>3. CASE x = g
    BY <2>1, <2>2, <2>3
  <2>4. CASE x # g /\ h # g
    BY <2>1, <2>2, <2>4
  <2>5. CASE x # g /\ h = g
    <3>1. Is(x, g) = 0 /\ Is(h, g) = 1
      BY <2>1, <2>5
    <3>2. References(openssl, g) \in 0 .. 5
      BY <2>1, <3>1 DEF References, Operations, x
    <3> QED
      BY <3>1, <3>2
  <2> QED
    BY <2>3, <2>4, <2>5
<1>12. /\ e = [key |-> freed[h].key, refs |-> freed[h].refs + 1]
       /\ freed[h] \in [key : Keys \cup {Null}, refs : 0 .. 6]
  BY <1>6, <1>9 DEF e, Heaps
<1>13. freed[h].refs + 1 \in 0 .. 6
  BY <1>6, <1>9, <1>11 DEF Is
<1>14. heap \in Heaps /\ heap[h] = e /\ \A g \in OpenSSL!Handles : g # h => heap[g] = freed[g]
  BY <1>6, <1>7, <1>9, <1>12, <1>13 DEF Heaps
<1>15. /\ openssl' \in [heap : Heaps, slot : [Sides -> OpenSSL!Handles \cup {Null}],
                        ctx : [Operations -> OpenSSL!Handles \cup {Null}]]
       /\ openssl'.heap = heap
       /\ openssl'.slot = openssl.slot /\ openssl'.ctx = [openssl.ctx EXCEPT ![op] = h]
  BY <1>1, <1>5, <1>6, <1>14
<1>16. OpenSSL!TypeOK'
  BY <1>15, SameNames DEF OpenSSL!TypeOK, Heaps
<1>17. \A g \in OpenSSL!Handles :
         /\ heap[g].refs = References(openssl, g) - Is(x, g) + Is(h, g)
         /\ heap[g].key = freed[g].key
  <2> SUFFICES ASSUME NEW g \in OpenSSL!Handles
               PROVE  /\ heap[g].refs = References(openssl, g) - Is(x, g) + Is(h, g)
                      /\ heap[g].key = freed[g].key
    OBVIOUS
  <2>1. CASE g = h
    BY <1>6, <1>9, <1>12, <1>14, <2>1 DEF Is
  <2>2. CASE g # h
    <3>1. Is(h, g) = 0 /\ freed[g].refs \in 0 .. 6
      BY <1>9, <2>2 DEF Is, Heaps
    <3> QED
      BY <1>9, <1>14, <2>2, <3>1
  <2> QED
    BY <2>1, <2>2
<1>18. Exact(openssl')
  <2> SUFFICES ASSUME NEW g \in OpenSSL!Handles
               PROVE  openssl'.heap[g].refs = References(openssl', g)
    BY DEF Exact
  <2>1. \A y : Is(y, g) \in 0 .. 1
    BY DEF Is
  <2>2. References(openssl', g) = References(openssl, g) - Is(x, g) + Is(h, g)
    <3>1. /\ op = "encrypt" \/ op = "decrypt" \/ op = "sign" \/ op = "verify"
          /\ \A c \in Operations : openssl'.ctx[c] = IF c = op THEN h ELSE openssl.ctx[c]
      BY <1>1, <1>15 DEF Operations
    <3> QED
      BY <1>15, <2>1, <3>1 DEF References, Operations, x
  <2> QED
    BY <1>15, <1>17, <2>2
<1>19. NoKeyLeak'
  BY <1>18, LeakIs
<1>20. ASSUME NEW side \in Sides
       PROVE  OpenSSL!Loaded(side)' = OpenSSL!Loaded(side)
  <2> DEFINE g == openssl.slot[side]
  <2>1. CASE g = Null
    BY <1>15, <2>1 DEF OpenSSL!Loaded
  <2>2. CASE g # Null
    <3>1. g \in OpenSSL!Handles
      BY <1>1, <2>2
    <3>2. freed[g].refs # 0
      BY <1>9, <1>10, <3>1
    <3>3. heap[g].key = openssl.heap[g].key
      BY <1>8, <1>17, <3>1, <3>2 DEF Released
    <3> QED
      BY <1>15, <2>2, <3>3 DEF OpenSSL!Loaded
  <2> QED
    BY <2>1, <2>2
<1> QED
  BY <1>5, <1>15, <1>16, <1>19, <1>20

(* The destructor frees each EVP_PKEY as many times as it is referenced.   *)
LEMMA DestroyOpenssl ==
  ASSUME OpenSSL!TypeOK, NoKeyLeak, OpenSSL!Destroy
  PROVE  OpenSSL!TypeOK' /\ NoKeyLeak'
<1> DEFINE x1 == openssl.slot["public"]
           x2 == openssl.slot["private"]
           x3 == openssl.ctx["encrypt"]
           x4 == openssl.ctx["decrypt"]
           x5 == openssl.ctx["sign"]
           x6 == openssl.ctx["verify"]
           h0 == openssl.heap
           h1 == OpenSSL!Release(h0, x1)
           h2 == OpenSSL!Release(h1, x2)
           h3 == OpenSSL!Release(h2, x3)
           h4 == OpenSSL!Release(h3, x4)
           h5 == OpenSSL!Release(h4, x5)
           h6 == OpenSSL!Release(h5, x6)
<1>1. openssl' = [heap |-> h6, slot |-> [s \in Sides |-> Null], ctx |-> [c \in Operations |-> Null]]
  BY SameNames DEF OpenSSL!Destroy
<1>2. /\ h0 \in Heaps
      /\ x1 \in OpenSSL!Handles \cup {Null} /\ x2 \in OpenSSL!Handles \cup {Null}
      /\ x3 \in OpenSSL!Handles \cup {Null} /\ x4 \in OpenSSL!Handles \cup {Null}
      /\ x5 \in OpenSSL!Handles \cup {Null} /\ x6 \in OpenSSL!Handles \cup {Null}
  BY ReferenceTypes DEF Sides, Operations
<1>3. \A g \in OpenSSL!Handles : h0[g].refs = Is(x1, g) + Is(x2, g) + Is(x3, g) + Is(x4, g) + Is(x5, g) + Is(x6, g)
  <2>1. \A y, g : Is(y, g) \in 0 .. 1
    BY DEF Is
  <2> QED
    BY <2>1, LeakIs DEF Exact, References
<1>4. \A y, g : Is(y, g) \in 0 .. 1 /\ (y = g => Is(y, g) = 1)
  BY DEF Is
<1> HIDE DEF x1, x2, x3, x4, x5, x6, h0
<1>5. Released(h0, x1, h1)
  BY <1>2, <1>3, <1>4, ReleaseIs
<1> HIDE DEF h1
<1>6. h1 \in Heaps /\ \A g \in OpenSSL!Handles : h1[g].refs = Is(x2, g) + Is(x3, g) + Is(x4, g) + Is(x5, g) + Is(x6, g)
  BY <1>3, <1>4, <1>5 DEF Released
<1>7. Released(h1, x2, h2)
  BY <1>2, <1>4, <1>6, ReleaseIs
<1> HIDE DEF h2
<1>8. h2 \in Heaps /\ \A g \in OpenSSL!Handles : h2[g].refs = Is(x3, g) + Is(x4, g) + Is(x5, g) + Is(x6, g)
  BY <1>4, <1>6, <1>7 DEF Released
<1>9. Released(h2, x3, h3)
  BY <1>2, <1>4, <1>8, ReleaseIs
<1> HIDE DEF h3
<1>10. h3 \in Heaps /\ \A g \in OpenSSL!Handles : h3[g].refs = Is(x4, g) + Is(x5, g) + Is(x6, g)
  BY <1>4, <1>8, <1>9 DEF Released
<1>11. Released(h3, x4, h4)
  BY <1>2, <1>4, <1>10, ReleaseIs
<1> HIDE DEF h4
<1>12. h4 \in Heaps /\ \A g \in OpenSSL!Handles : h4[g].refs = Is(x5, g) + Is(x6, g)
  BY <1>4, <1>10, <1>11 DEF Released
<1>13. Released(h4, x5, h5)
  BY <1>2, <1>4, <1>12, ReleaseIs
<1> HIDE DEF h5
<1>14. h5 \in Heaps /\ \A g \in OpenSSL!Handles : h5[g].refs = Is(x6, g)
  BY <1>4, <1>12, <1>13 DEF Released
<1>15. Released(h5, x6, h6)
  BY <1>2, <1>4, <1>14, ReleaseIs
<1> HIDE DEF h6
<1>16. h6 \in Heaps /\ \A g \in OpenSSL!Handles : h6[g].refs = 0
  BY <1>4, <1>14, <1>15 DEF Released
<1>17. OpenSSL!TypeOK'
  BY <1>1, <1>16, SameNames DEF OpenSSL!TypeOK, Heaps
<1>18. Exact(openssl')
  <2>1. \A g \in OpenSSL!Handles : Is(Null, g) = 0
    BY NullIsNone DEF Is, OpenSSL!Handles
  <2>2. \A g : References(openssl', g) = Is(Null, g) + Is(Null, g) + Is(Null, g) + Is(Null, g) + Is(Null, g) + Is(Null, g)
    BY <1>1 DEF References, Sides, Operations
  <2> QED
    BY <1>1, <1>16, <2>1, <2>2 DEF Exact
<1> QED
  BY <1>17, <1>18, LeakIs

-----------------------------------------------------------------------------
(* The virtual methods of class lib, on library l. *)

(* The keys and the operations are those of every library.                 *)
LEMMA OtherNames ==
  /\ MbedTLS!Sides = Sides /\ GnuTLS!Sides = Sides /\ Tomcrypt!Sides = Sides /\ Files!Sides = Sides
  /\ MbedTLS!Keys = Keys /\ GnuTLS!Keys = Keys /\ Tomcrypt!Keys = Keys /\ Files!Keys = Keys
  /\ \A op : MbedTLS!SideOf(op) = SideOf(op) /\ GnuTLS!SideOf(op) = SideOf(op) /\ Tomcrypt!SideOf(op) = SideOf(op)
BY DEF MbedTLS!Sides, GnuTLS!Sides, Tomcrypt!Sides, Files!Sides, Sides,
       MbedTLS!Keys, GnuTLS!Keys, Tomcrypt!Keys, Files!Keys, Keys,
       MbedTLS!SideOf, GnuTLS!SideOf, Tomcrypt!SideOf, SideOf

LibsSafe == LibTypes /\ NoKeyLeak /\ OwnBackend
LoadedBy(l, side) ==
  IF l = "openssl" THEN OpenSSL!Loaded(side)
  ELSE IF l = "mbedtls" THEN MbedTLS!Loaded(side)
  ELSE IF l = "gnutls" THEN GnuTLS!Loaded(side)
  ELSE Tomcrypt!Loaded(l, side)

(* A library is one of the four kinds.                                     *)
LEMMA OneLib ==
  ASSUME NEW l \in Usable
  PROVE  /\ l \in {"openssl", "mbedtls", "gnutls"} \/ l \in Instances
         /\ l \in Instances => l \notin {"openssl", "mbedtls", "gnutls"} /\ MathDesc[l] # Null
BY RsaAssumption DEF Usable, HasRsa, Tomcrypt!rsa_available

(* The key of the library under test, now and after a step.                *)
LEMMA LoadedKeyIs ==
  /\ \A side : LoadedKey(side) = LoadedBy(Lib, side)
  /\ \A side : tested' = tested => LoadedKey(side)' = LoadedBy(Lib, side)'
<1>1. \A side : LoadedKey(side) = LoadedBy(Lib, side)
  BY DEF LoadedKey, LoadedBy
<1>2. ASSUME NEW side, tested' = tested
      PROVE  LoadedKey(side)' = LoadedBy(Lib, side)'
  BY <1>2 DEF LoadedKey, LoadedBy
<1> QED
  BY <1>1, <1>2

(* A step that leaves the other libraries alone keeps what is known of     *)
(* them.                                                                   *)
LEMMA OpensslKept ==
  ASSUME UNCHANGED openssl
  PROVE  /\ OpenSSL!TypeOK => OpenSSL!TypeOK'
         /\ NoKeyLeak => NoKeyLeak'
BY DEF OpenSSL!TypeOK, NoKeyLeak, OpenSSL!RefCountExact

(* Steps which leave MbedTLS alone keep its types.                         *)
LEMMA MbedtlsKept == ASSUME UNCHANGED mbedtls, MbedTLS!TypeOK PROVE MbedTLS!TypeOK'
BY DEF MbedTLS!TypeOK

(* Steps which leave GnuTLS alone keep its types.                          *)
LEMMA GnutlsKept == ASSUME UNCHANGED gnutls, GnuTLS!TypeOK PROVE GnuTLS!TypeOK'
BY DEF GnuTLS!TypeOK

(* Steps which leave LibTomCrypt alone keep its types and back ends.       *)
LEMMA TomcryptKept ==
  ASSUME UNCHANGED tomvars
  PROVE  (Tomcrypt!TypeOK => Tomcrypt!TypeOK') /\ (OwnBackend => OwnBackend')
BY DEF Tomcrypt!TypeOK, OwnBackend, tomvars

(* set_mp() selects the backend of the object, and its keys suit it.       *)
LEMMA TouchIs ==
  ASSUME Tomcrypt!TypeOK, OwnBackend, NEW t \in Instances, Tomcrypt!Touch(t)
  PROVE  /\ MathDesc[t] # Null /\ ltc_mp' = MathDesc[t] /\ mixed' = FALSE
         /\ ltc_mp' \in {MathDesc[u] : u \in Instances} \cup {Null}
<1>1. MathDesc[t] # Null /\ ltc_mp' = MathDesc[t]
  BY DEF Tomcrypt!Touch, Tomcrypt!set_mp
<1>2. Tomcrypt!Suits(t, ltc_mp')
  BY <1>1, OtherNames DEF Tomcrypt!Suits, OwnBackend
<1>3. mixed' = (mixed \/ ~Tomcrypt!Suits(t, ltc_mp')) /\ mixed = FALSE
  BY DEF Tomcrypt!Touch, OwnBackend
<1>4. mixed' = FALSE
  BY <1>2, <1>3
<1> QED
  BY <1>1, <1>4

(* Loading a key in an instance of LibTomCrypt selects its back end.       *)
LEMMA LoadTomcrypt ==
  ASSUME Tomcrypt!TypeOK, OwnBackend, NEW t \in Instances, NEW side \in Sides, NEW k \in Keys,
         Tomcrypt!load_rsa_key(t, side, k)
  PROVE  /\ Tomcrypt!TypeOK' /\ OwnBackend'
         /\ Tomcrypt!Loaded(t, side)' = k
         /\ \A other \in Sides : other # side => Tomcrypt!Loaded(t, other)' = Tomcrypt!Loaded(t, other)
<1> DEFINE backends == {MathDesc[u] : u \in Instances} \cup {Null}
           e == [key |-> k, mp |-> MathDesc[t]]
<1>1. /\ MathDesc[t] # Null /\ ltc_mp' = MathDesc[t] /\ mixed' = FALSE
      /\ ltc_mp' \in backends
  BY TouchIs DEF Tomcrypt!load_rsa_key
<1>2. /\ tomcrypt \in [Instances -> [Sides -> [key : Keys, mp : backends] \cup {Null}]]
      /\ \A u \in Instances, s \in Sides :
           tomcrypt[u][s] # Null => MathDesc[u] # Null /\ tomcrypt[u][s].mp = MathDesc[u]
  BY OtherNames DEF Tomcrypt!TypeOK, OwnBackend
<1>3. tomcrypt' = [tomcrypt EXCEPT ![t][side] = e]
  BY <1>1 DEF Tomcrypt!load_rsa_key
<1>4. e \in [key : Keys, mp : backends] /\ e # Null /\ e.key = k /\ e.mp = MathDesc[t]
  BY <1>1, NullIsNone
<1> HIDE DEF backends, e
<1>5. /\ tomcrypt' \in [Instances -> [Sides -> [key : Keys, mp : backends] \cup {Null}]]
      /\ \A u \in Instances, s \in Sides : tomcrypt'[u][s] = IF u = t /\ s = side THEN e ELSE tomcrypt[u][s]
  BY <1>2, <1>3, <1>4
<1>6. Tomcrypt!TypeOK'
  BY <1>1, <1>5, OtherNames DEF Tomcrypt!TypeOK, backends
<1>7. OwnBackend'
  BY <1>1, <1>2, <1>4, <1>5 DEF OwnBackend
<1> QED
  BY <1>4, <1>5, <1>6, <1>7 DEF Tomcrypt!Loaded

(* Loading a key: that key is there, the other one and the contexts stay.  *)
LEMMA LoadKeyIs ==
  ASSUME LibsSafe, Lib \in Usable, NEW side \in Sides, NEW k \in Keys, LoadKey(side, k)
  PROVE  /\ LibsSafe'
         /\ openssl'.ctx = openssl.ctx
         /\ \A l : l = Lib =>
              /\ LoadedBy(l, side)' = k
              /\ \A other \in Sides : other # side => LoadedBy(l, other)' = LoadedBy(l, other)
         /\ Lib = "mbedtls" => \A other \in Sides : other # side => mbedtls'[other] = mbedtls[other]
<1>1. CASE Lib = "openssl"
  <2>1. OpenSSL!load_rsa_key(side, k) /\ UNCHANGED <<mbedtls, gnutls, tomvars>>
    BY <1>1, OneLib DEF LoadKey
  <2>2. /\ OpenSSL!TypeOK' /\ NoKeyLeak' /\ openssl'.ctx = openssl.ctx
        /\ OpenSSL!Loaded(side)' = k
        /\ \A other \in Sides : other # side => OpenSSL!Loaded(other)' = OpenSSL!Loaded(other)
    BY <2>1, LoadOpenssl DEF LibsSafe, LibTypes
  <2>3. LibsSafe'
    BY <2>1, <2>2, MbedtlsKept, GnutlsKept, TomcryptKept DEF LibsSafe, LibTypes
  <2> QED
    BY <1>1, <2>2, <2>3 DEF LoadedBy
<1>2. CASE Lib = "mbedtls"
  <2> DEFINE e == [key |-> k, padding |-> "v15"]
  <2>1. mbedtls' = [mbedtls EXCEPT ![side] = e] /\ UNCHANGED <<openssl, gnutls, tomvars>>
    BY <1>2, OneLib DEF LoadKey, MbedTLS!load_rsa_key
  <2>2. e \in [key : Keys, padding : {"v15", "v21"}] /\ e # Null /\ e.key = k
    BY NullIsNone
  <2>3. mbedtls \in [Sides -> [key : Keys, padding : {"v15", "v21"}] \cup {Null}]
    BY OtherNames DEF LibsSafe, LibTypes, MbedTLS!TypeOK
  <2> HIDE DEF e
  <2>4. /\ mbedtls' \in [Sides -> [key : Keys, padding : {"v15", "v21"}] \cup {Null}]
        /\ mbedtls'[side] = e /\ \A other \in Sides : other # side => mbedtls'[other] = mbedtls[other]
    BY <2>1, <2>2, <2>3
  <2>5. MbedTLS!TypeOK'
    BY <2>4, OtherNames DEF MbedTLS!TypeOK
  <2>6. LibsSafe'
    BY <2>1, <2>5, OpensslKept, GnutlsKept, TomcryptKept DEF LibsSafe, LibTypes
  <2>7. MbedTLS!Loaded(side)' = k /\ \A other \in Sides : other # side => MbedTLS!Loaded(other)' = MbedTLS!Loaded(other)
    BY <2>2, <2>4 DEF MbedTLS!Loaded
  <2> QED
    BY <1>2, <2>1, <2>4, <2>6, <2>7 DEF LoadedBy
<1>3. CASE Lib = "gnutls"
  <2>1. gnutls' = [gnutls EXCEPT ![side] = k] /\ UNCHANGED <<openssl, mbedtls, tomvars>>
    BY <1>3, OneLib DEF LoadKey, GnuTLS!load_rsa_key
  <2>2. gnutls \in [Sides -> Keys \cup {Null}]
    BY OtherNames DEF LibsSafe, LibTypes, GnuTLS!TypeOK
  <2>3. GnuTLS!TypeOK'
    BY <2>1, <2>2, OtherNames DEF GnuTLS!TypeOK
  <2>4. LibsSafe'
    BY <2>1, <2>3, OpensslKept, MbedtlsKept, TomcryptKept DEF LibsSafe, LibTypes
  <2>5. GnuTLS!Loaded(side)' = k /\ \A other \in Sides : other # side => GnuTLS!Loaded(other)' = GnuTLS!Loaded(other)
    BY <2>1, <2>2 DEF GnuTLS!Loaded
  <2> QED
    BY <1>3, <2>1, <2>4, <2>5 DEF LoadedBy
<1>4. CASE Lib \in Instances
  <2>1. PICK t \in Instances : t = Lib
    BY <1>4
  <2>2. t \notin {"openssl", "mbedtls", "gnutls"}
    BY <2>1, OneLib
  <2>3. Tomcrypt!load_rsa_key(t, side, k) /\ UNCHANGED <<openssl, mbedtls, gnutls>>
    BY <2>1, <2>2 DEF LoadKey
  <2>4. /\ Tomcrypt!TypeOK' /\ OwnBackend'
        /\ Tomcrypt!Loaded(t, side)' = k
        /\ \A other \in Sides : other # side => Tomcrypt!Loaded(t, other)' = Tomcrypt!Loaded(t, other)
    BY <2>3, LoadTomcrypt DEF LibsSafe, LibTypes
  <2>5. LibsSafe'
    BY <2>3, <2>4, OpensslKept, MbedtlsKept, GnutlsKept DEF LibsSafe, LibTypes
  <2>6. /\ LoadedBy(t, side)' = k
        /\ \A other \in Sides : other # side => LoadedBy(t, other)' = LoadedBy(t, other)
    BY <2>2, <2>4 DEF LoadedBy
  <2> QED
    BY <2>1, <2>2, <2>3, <2>5, <2>6
<1> QED
  BY <1>1, <1>2, <1>3, <1>4, OneLib

(* Making a context: only OpenSSL has them.                                *)
LEMMA InitContextIs ==
  ASSUME LibsSafe, Lib \in Usable, NEW op \in Operations, InitContext(op)
  PROVE  /\ LibsSafe'
         /\ \A l : l = Lib => \A side \in Sides : LoadedBy(l, side)' = LoadedBy(l, side)
         /\ mbedtls' = mbedtls
         /\ Lib = "openssl" =>
              /\ openssl'.slot = openssl.slot
              /\ openssl'.ctx = [openssl.ctx EXCEPT ![op] = openssl.slot[SideOf(op)]]
<1>1. CASE Lib = "openssl"
  <2>1. OpenSSL!rsa_init(op) /\ UNCHANGED <<mbedtls, gnutls, tomvars>>
    BY <1>1 DEF InitContext
  <2>2. /\ OpenSSL!TypeOK' /\ NoKeyLeak'
        /\ openssl'.slot = openssl.slot
        /\ openssl'.ctx = [openssl.ctx EXCEPT ![op] = openssl.slot[SideOf(op)]]
        /\ \A side \in Sides : OpenSSL!Loaded(side)' = OpenSSL!Loaded(side)
    BY <2>1, InitOpenssl DEF LibsSafe, LibTypes
  <2>3. LibsSafe'
    BY <2>1, <2>2, MbedtlsKept, GnutlsKept, TomcryptKept DEF LibsSafe, LibTypes
  <2> QED
    BY <1>1, <2>1, <2>2, <2>3 DEF LoadedBy
<1>2. CASE Lib # "openssl"
  <2>1. UNCHANGED <<openssl, mbedtls, gnutls, tomvars>>
    BY <1>2 DEF InitContext, libs
  <2>2. LibsSafe'
    BY <2>1, OpensslKept, MbedtlsKept, GnutlsKept, TomcryptKept DEF LibsSafe, LibTypes
  <2> QED
    BY <1>2, <2>1, <2>2 DEF LoadedBy, OpenSSL!Loaded, MbedTLS!Loaded, GnuTLS!Loaded, Tomcrypt!Loaded, tomvars
<1> QED
  BY <1>1, <1>2

(* An operation on a loaded key: MbedTLS remembers the padding, and        *)
(* LibTomCrypt selects its backend.                                        *)
LEMMA PerformIs ==
  ASSUME LibsSafe, Lib \in Usable, NEW op \in Operations, LoadedKey(SideOf(op)) \in Keys, Perform(op)
  PROVE  /\ LibsSafe' /\ openssl' = openssl
         /\ \A l : l = Lib => \A side \in Sides : LoadedBy(l, side)' = LoadedBy(l, side)
         /\ Lib = "mbedtls" => \A side \in Sides :
              /\ op \in {"encrypt", "decrypt"} /\ side = SideOf(op) => mbedtls'[side].padding = "v21"
              /\ mbedtls[side].padding = "v21" => mbedtls'[side].padding = "v21"
<1>1. CASE Lib = "mbedtls"
  <2>1. MbedTLS!set_rsa_padding(op) /\ UNCHANGED <<openssl, gnutls, tomvars>>
    BY <1>1, OneLib DEF Perform
  <2>2. mbedtls \in [Sides -> [key : Keys, padding : {"v15", "v21"}] \cup {Null}]
    BY OtherNames DEF LibsSafe, LibTypes, MbedTLS!TypeOK
  <2>3. SideOf(op) \in Sides /\ mbedtls[SideOf(op)] \in [key : Keys, padding : {"v15", "v21"}]
    <3>1. mbedtls[SideOf(op)] # Null /\ SideOf(op) \in Sides
      BY <1>1, NullIsNone DEF LoadedKey, MbedTLS!Loaded, SideOf, Sides
    <3> QED
      BY <2>2, <3>1
  <2>4. mbedtls' = IF op \in {"encrypt", "decrypt"} THEN [mbedtls EXCEPT ![SideOf(op)].padding = "v21"] ELSE mbedtls
    BY <2>1, OtherNames DEF MbedTLS!set_rsa_padding
  <2>5. /\ mbedtls' \in [Sides -> [key : Keys, padding : {"v15", "v21"}] \cup {Null}]
        /\ \A side \in Sides :
             /\ (mbedtls'[side] = Null) <=> (mbedtls[side] = Null)
             /\ mbedtls[side] # Null => mbedtls'[side].key = mbedtls[side].key
             /\ op \in {"encrypt", "decrypt"} /\ side = SideOf(op) => mbedtls'[side].padding = "v21"
             /\ mbedtls[side].padding = "v21" => mbedtls'[side].padding = "v21"
    <3> DEFINE e == [key |-> mbedtls[SideOf(op)].key, padding |-> "v21"]
    <3>1. e \in [key : Keys, padding : {"v15", "v21"}] /\ e # Null
      BY <2>3, NullIsNone
    <3>2. mbedtls[SideOf(op)] # Null /\ mbedtls[SideOf(op)].key = e.key /\ e.padding = "v21"
      BY <2>3, NullIsNone
    <3>3. mbedtls' = IF op \in {"encrypt", "decrypt"} THEN [mbedtls EXCEPT ![SideOf(op)] = e] ELSE mbedtls
      <4> DEFINE r == mbedtls[SideOf(op)]
      <4>1. mbedtls' = IF op \in {"encrypt", "decrypt"}
                         THEN [mbedtls EXCEPT ![SideOf(op)] = [r EXCEPT !.padding = "v21"]] ELSE mbedtls
        BY <2>4
      <4>2. [r EXCEPT !.padding = "v21"] = e
        BY <2>3
      <4> HIDE DEF r, e
      <4> QED
        BY <4>1, <4>2
    <3> HIDE DEF e
    <3> QED
      BY <2>2, <2>3, <3>1, <3>2, <3>3
  <2>6. MbedTLS!TypeOK'
    BY <2>5, OtherNames DEF MbedTLS!TypeOK
  <2>7. LibsSafe'
    BY <2>1, <2>6, OpensslKept, GnutlsKept, TomcryptKept DEF LibsSafe, LibTypes
  <2>8. \A side \in Sides : MbedTLS!Loaded(side)' = MbedTLS!Loaded(side)
    BY <2>5 DEF MbedTLS!Loaded
  <2> QED
    BY <1>1, <2>1, <2>5, <2>7, <2>8 DEF LoadedBy
<1>2. CASE Lib \in Instances
  <2>1. PICK t \in Instances : t = Lib
    BY <1>2
  <2>2. t \notin {"openssl", "mbedtls", "gnutls"}
    BY <2>1, OneLib
  <2>3. Tomcrypt!Touch(t) /\ UNCHANGED <<tomcrypt, openssl, mbedtls, gnutls>>
    BY <1>2, <2>1, <2>2 DEF Perform
  <2>4. mixed' = FALSE /\ ltc_mp' \in {MathDesc[u] : u \in Instances} \cup {Null}
    BY <2>3, TouchIs DEF LibsSafe, LibTypes
  <2>5. Tomcrypt!TypeOK' /\ OwnBackend'
    BY <2>3, <2>4 DEF LibsSafe, LibTypes, Tomcrypt!TypeOK, OwnBackend
  <2>6. LibsSafe'
    BY <2>3, <2>5, OpensslKept, MbedtlsKept, GnutlsKept DEF LibsSafe, LibTypes
  <2>7. \A side \in Sides : LoadedBy(t, side)' = LoadedBy(t, side)
    BY <2>2, <2>3 DEF LoadedBy, Tomcrypt!Loaded
  <2> QED
    BY <2>1, <2>2, <2>3, <2>6, <2>7
<1>3. CASE Lib # "mbedtls" /\ Lib \notin Instances
  <2>1. UNCHANGED <<openssl, mbedtls, gnutls, tomvars>>
    BY <1>3 DEF Perform, libs
  <2>2. LibsSafe'
    BY <2>1, OpensslKept, MbedtlsKept, GnutlsKept, TomcryptKept DEF LibsSafe, LibTypes
  <2> QED
    BY <1>3, <2>1, <2>2 DEF LoadedBy, OpenSSL!Loaded, MbedTLS!Loaded, GnuTLS!Loaded, Tomcrypt!Loaded, tomvars
<1> QED
  BY <1>1, <1>2, <1>3

(* The key and the padding that an operation ends up with.                 *)
LEMMA UseIs ==
  ASSUME LibsSafe, Lib \in Usable, NEW op \in Operations, LoadedKey(SideOf(op)) \in Keys,
         Lib = "openssl" => openssl.ctx[op] = openssl.slot[SideOf(op)]
  PROVE  /\ UseOf(op) \in Uses
         /\ UseOf(op).key = LoadedKey(SideOf(op))
         /\ op \in {"encrypt", "decrypt"} => UseOf(op) = Encrypted(LoadedKey(SideOf(op)))
         /\ op \in {"sign", "verify"} /\ (Lib = "mbedtls" => mbedtls[SideOf(op)].padding = "v21") =>
              UseOf(op) = Signed(LoadedKey(SideOf(op)))
<1> DEFINE k == LoadedKey(SideOf(op))
<1>1. CASE Lib = "openssl"
  <2>1. k = openssl.heap[openssl.ctx[op]].key
    BY <1>1, NullIsNone DEF LoadedKey, OpenSSL!Loaded
  <2>2. UseOf(op) = [key |-> k, padding |-> IF op \in {"encrypt", "decrypt"} THEN "oaep" ELSE "pss"]
    BY <1>1, <2>1 DEF UseOf, OpenSSL!rsa_use
  <2> QED
    BY <1>1, <2>2 DEF Uses, Encrypted, Signed
<1>2. CASE Lib = "mbedtls"
  <2>1. k = mbedtls[SideOf(op)].key
    BY <1>2, NullIsNone DEF LoadedKey, MbedTLS!Loaded
  <2>2. /\ UseOf(op).key = k /\ UseOf(op) \in [key : {k}, padding : {"oaep", "v15", "pss"}]
        /\ op \in {"encrypt", "decrypt"} => UseOf(op) = [key |-> k, padding |-> "oaep"]
        /\ op \in {"sign", "verify"} /\ mbedtls[SideOf(op)].padding = "v21" => UseOf(op) = [key |-> k, padding |-> "pss"]
    <3>1. UseOf(op) = MbedTLS!rsa_use(op) /\ MbedTLS!SideOf(op) = SideOf(op)
      BY <1>2, OtherNames DEF UseOf
    <3>2. CASE op \in {"encrypt", "decrypt"}
      BY <2>1, <3>1, <3>2 DEF MbedTLS!rsa_use
    <3>3. CASE op \notin {"encrypt", "decrypt"} /\ mbedtls[SideOf(op)].padding = "v21"
      BY <2>1, <3>1, <3>3 DEF MbedTLS!rsa_use
    <3>4. CASE op \notin {"encrypt", "decrypt"} /\ mbedtls[SideOf(op)].padding # "v21"
      BY <2>1, <3>1, <3>4 DEF MbedTLS!rsa_use
    <3> QED
      BY <3>2, <3>3, <3>4
  <2> QED
    BY <1>2, <2>2 DEF Uses, Encrypted, Signed
<1>3. CASE Lib = "gnutls"
  <2>1. UseOf(op) = [key |-> k, padding |-> IF op \in {"encrypt", "decrypt"} THEN "v15" ELSE "pss"]
    BY <1>3, OtherNames DEF UseOf, GnuTLS!rsa_use, LoadedKey, GnuTLS!Loaded
  <2> QED
    BY <1>3, <2>1 DEF Uses, Encrypted, Signed
<1>4. CASE Lib \in Instances
  <2>0. Lib \notin {"openssl", "mbedtls", "gnutls"}
    BY <1>4, OneLib
  <2>1. k = tomcrypt[Lib][SideOf(op)].key
    BY <2>0, NullIsNone DEF LoadedKey, Tomcrypt!Loaded
  <2>2. UseOf(op) = [key |-> k, padding |-> IF op \in {"encrypt", "decrypt"} THEN "oaep" ELSE "pss"]
    BY <2>0, <2>1, OtherNames DEF UseOf, Tomcrypt!rsa_use
  <2> QED
    BY <2>0, <2>2 DEF Uses, Encrypted, Signed
<1> QED
  BY <1>1, <1>2, <1>3, <1>4, OneLib

(* The size which a library gives for a loaded key.                        *)
LEMMA BitsAre ==
  ASSUME Lib \in Usable, NEW side \in Sides, LoadedKey(side) \in Keys
  PROVE  KeyBits(side) = LoadedKey(side).bits
<1>1. Null \notin Keys
  BY NullIsNone
<1>2. CASE Lib = "openssl"
  BY <1>1, <1>2 DEF KeyBits, LoadedKey, OpenSSL!rsa_key_bits, OpenSSL!Loaded
<1>3. CASE Lib = "mbedtls"
  BY <1>1, <1>3 DEF KeyBits, LoadedKey, MbedTLS!rsa_key_bits, MbedTLS!Loaded
<1>4. CASE Lib = "gnutls"
  BY <1>4 DEF KeyBits, LoadedKey, GnuTLS!rsa_key_bits, GnuTLS!Loaded
<1>5. CASE Lib \in Instances
  BY <1>1, <1>5, OneLib DEF KeyBits, LoadedKey, Tomcrypt!rsa_key_bits, Tomcrypt!Loaded
<1> QED
  BY <1>2, <1>3, <1>4, <1>5, OneLib

-----------------------------------------------------------------------------
(* The libraries to run. *)

(* A set of naturals has a least element, unless it is empty.              *)
LEMMA LeastNat ==
  ASSUME NEW T, T \subseteq Nat, T # {}
  PROVE  \E x \in T : \A y \in T : x <= y
<1>1. IsWellFoundedOn(OpToRel(<, Nat), Nat)
  BY NatLessThanWellFounded
<1> DEFINE R == {ss \in Nat \X Nat : ss[1] < ss[2]}
<1>2. OpToRel(<, Nat) = R
  BY DEF OpToRel
<1>3. IsWellFoundedOn(R, Nat)
  BY <1>1, <1>2
<1>4. \E x \in T : \A y \in T : ~ (<<y, x>> \in R)
  <2> HIDE DEF R
  <2> QED
    BY <1>3, WFMin
<1>5. \A x, y \in Nat : <<y, x>> \notin R => x <= y
  OBVIOUS
<1> QED
  BY <1>4, <1>5

(* The recursion of WithRsa, up to the first m libraries.                  *)
KeptAt(l, f, n) ==
  IF n = 0 THEN <<>>
  ELSE IF HasRsa(l[n]) THEN Append(f[n - 1], l[n]) ELSE f[n - 1]
Kept(l, m, f) == f = [n \in 0 .. m |-> KeptAt(l, f, n)]

(* There is such a function: one for m - 1 is extended to m.               *)
LEMMA KeptExists ==
  ASSUME NEW l
  PROVE  \A m \in Nat : \E f : Kept(l, m, f)
<1> DEFINE Bad == {m \in Nat : ~ \E f : Kept(l, m, f)}
<1> SUFFICES ASSUME Bad # {}
             PROVE  FALSE
  OBVIOUS
<1>1. PICK m \in Bad : \A y \in Bad : m <= y
  BY LeastNat
<1>2. m \in Nat /\ ~ \E f : Kept(l, m, f)
  OBVIOUS
<1>3. CASE m = 0
  <2>1. Kept(l, 0, [n \in 0 .. 0 |-> <<>>])
    BY DEF Kept, KeptAt
  <2> QED
    BY <1>2, <1>3, <2>1
<1>4. CASE m # 0
  <2>1. PICK f : Kept(l, m - 1, f)
    BY <1>1, <1>2, <1>4
  <2> DEFINE last == IF HasRsa(l[m]) THEN Append(f[m - 1], l[m]) ELSE f[m - 1]
             g == [n \in 0 .. m |-> IF n = m THEN last ELSE f[n]]
  <2>2. ASSUME NEW n \in 0 .. m
        PROVE  g[n] = KeptAt(l, g, n)
    <3>1. CASE n = m
      <4>1. g[n] = last /\ g[n - 1] = f[n - 1]
        BY <1>2, <1>4, <3>1
      <4> QED
        BY <1>2, <1>4, <3>1, <4>1 DEF KeptAt
    <3>2. CASE n # m
      <4>1. f[n] = KeptAt(l, f, n)
        BY <1>2, <1>4, <2>1, <3>2 DEF Kept
      <4>2. g[n] = f[n] /\ (n # 0 => g[n - 1] = f[n - 1])
        BY <1>2, <1>4, <3>2
      <4> QED
        BY <4>1, <4>2 DEF KeptAt
    <3> QED
      BY <3>1, <3>2
  <2>3. g = [n \in 0 .. m |-> KeptAt(l, g, n)]
    <3>1. g = [n \in 0 .. m |-> g[n]]
      OBVIOUS
    <3> HIDE DEF g
    <3> QED
      BY <2>2, <3>1
  <2>4. Kept(l, m, g)
    BY <2>3, Zenon DEF Kept
  <2> QED
    BY <1>2, <2>4
<1> QED
  BY <1>3, <1>4

(* The libraries that are run have RSA.                                    *)
LEMMA KeptAre ==
  ASSUME NEW S, NEW l \in Seq(S)
  PROVE  WithRsa(l) \in Seq({x \in S : HasRsa(x)})
<1> DEFINE T == {x \in S : HasRsa(x)}
           N == Len(l)
           f == CHOOSE g : Kept(l, N, g)
           Bad == {n \in 0 .. N : f[n] \notin Seq(T)}
<1>1. N \in Nat
  OBVIOUS
<1>2. WithRsa(l) = f[N]
  BY Zenon DEF WithRsa, Kept, KeptAt
<1>3. Kept(l, N, f)
  BY <1>1, KeptExists
<1> HIDE DEF f, N
<1>4. \A n \in 0 .. N : f[n] = KeptAt(l, f, n)
  BY <1>3 DEF Kept
<1>5. \A n \in 1 .. N : HasRsa(l[n]) => l[n] \in T
  BY DEF N
<1> HIDE DEF T
<1>6. ASSUME Bad # {}
      PROVE  FALSE
  <2>0. Bad \subseteq Nat
    BY <1>1
  <2>1. PICK n \in Bad : \A y \in Bad : n <= y
    BY <1>6, <2>0, LeastNat
  <2>2. n \in 0 .. N /\ f[n] \notin Seq(T) /\ f[n] = KeptAt(l, f, n)
    BY <1>4
  <2>3. n # 0
    BY <2>2 DEF KeptAt
  <2>4. f[n - 1] \in Seq(T)
    BY <1>1, <2>1, <2>2, <2>3
  <2>5. n \in 1 .. N
    BY <1>1, <2>2, <2>3
  <2>6. CASE HasRsa(l[n])
    <3>1. f[n] = Append(f[n - 1], l[n]) /\ l[n] \in T
      BY <1>5, <2>2, <2>3, <2>5, <2>6 DEF KeptAt
    <3> QED
      BY <2>2, <2>4, <3>1
  <2>7. CASE ~ HasRsa(l[n])
    BY <2>2, <2>3, <2>4, <2>7 DEF KeptAt
  <2> QED
    BY <2>6, <2>7
<1>7. N \in 0 .. N
  BY <1>1
<1>8. f[N] \in Seq(T)
  BY <1>6, <1>7
<1> QED
  BY <1>2, <1>8 DEF T

-----------------------------------------------------------------------------
(* The invariant holds initially, and the key files keep theirs. *)

(* Nothing is loaded and nothing is allocated at the start.                *)
LEMMA InvInit == Init => Inv
<1> SUFFICES ASSUME Init
             PROVE  Inv
  OBVIOUS
<1>1. OpenSSL!TypeOK /\ NoKeyLeak
  <2>1. openssl = [heap |-> [h \in OpenSSL!Handles |-> OpenSSL!FreePkey],
                   slot |-> [s \in Sides |-> Null], ctx |-> [c \in Operations |-> Null]]
    BY SameNames DEF Init, OpenSSL!Init
  <2>2. OpenSSL!FreePkey = [key |-> Null, refs |-> 0]
    BY DEF OpenSSL!FreePkey
  <2>3. OpenSSL!TypeOK
    BY <2>1, <2>2, SameNames DEF OpenSSL!TypeOK
  <2>4. \A g \in OpenSSL!Handles : Is(Null, g) = 0
    BY NullIsNone DEF Is, OpenSSL!Handles
  <2>5. \A g : References(openssl, g) = Is(Null, g) + Is(Null, g) + Is(Null, g) + Is(Null, g) + Is(Null, g) + Is(Null, g)
    BY <2>1 DEF References, Sides, Operations
  <2>6. Exact(openssl)
    BY <2>1, <2>2, <2>4, <2>5 DEF Exact
  <2> QED
    BY <2>3, <2>6, LeakIs
<1>2. MbedTLS!TypeOK /\ GnuTLS!TypeOK
  BY DEF Init, MbedTLS!Init, GnuTLS!Init, MbedTLS!TypeOK, GnuTLS!TypeOK
<1>3. Tomcrypt!TypeOK /\ OwnBackend
  BY OtherNames DEF Init, Tomcrypt!Init, Tomcrypt!TypeOK, OwnBackend
<1>4. Files!TypeOK /\ OwnSize
  <2>1. Files!FileSteps \in Nat
    BY RsaAssumption DEF Files!FileSteps
  <2> QED
    BY <2>1, OtherNames DEF Init, Files!Init, Files!TypeOK, OwnSize
<1>5. Places
  <2>1. PICK l \in Selections : tested = WithRsa(l)
    BY DEF Init
  <2>2. tested \in Seq(Usable)
    <3>1. l \in Seq({"openssl", "mbedtls", "gnutls"} \cup Instances)
      BY RsaAssumption
    <3> QED
      BY <2>1, <3>1, KeptAre DEF Usable
  <2>3. Len(Script[1].calls) = 2
    BY DEF Script, Once
  <2> QED
    BY <2>2, <2>3, RsaAssumption DEF Init, Places
<1> QED
  BY <1>1, <1>2, <1>3, <1>4, <1>5 DEF Init, Inv, LibTypes, Stage

(* generate_rsa_key() writes keys of the size in the name of their file.   *)
LEMMA FilesKept ==
  ASSUME Files!TypeOK, OwnSize, NEW g \in {Self, Other}, Files!WriteFile(g)
  PROVE  Files!TypeOK' /\ OwnSize'
<1> DEFINE n == written[g]
           size == Files!SizeAt(n)
           side == Files!SideAt(n)
           k == IF n % 2 = 0 THEN Null ELSE [bits |-> size, gen |-> g]
<1>1. /\ g \in Gens /\ n \in 0 .. Files!FileSteps /\ n < Files!FileSteps
      /\ Files!FileSteps = 4 * Len(SizeOrder) /\ Len(SizeOrder) \in Nat
      /\ files \in [Sizes -> [Sides -> Keys \cup {Null}]]
      /\ written \in [Gens -> 0 .. Files!FileSteps]
  BY RsaAssumption, OtherNames DEF Files!TypeOK, Files!WriteFile, Files!FileSteps
<1>2. size \in Sizes
  <2>1. n \div 4 + 1 \in 1 .. Len(SizeOrder)
    BY <1>1
  <2> QED
    BY <2>1, RsaAssumption DEF Files!SizeAt
<1>3. side \in Sides
  BY DEF Files!SideAt, Sides
<1>4. k \in Keys \cup {Null} /\ (k # Null => k.bits = size)
  BY <1>1, <1>2 DEF Keys
<1>5. /\ files' = [files EXCEPT ![size][side] = k]
      /\ written' = [written EXCEPT ![g] = n + 1]
  BY DEF Files!WriteFile
<1> HIDE DEF n, size, side, k
<1>6. written' \in [Gens -> 0 .. Files!FileSteps]
  BY <1>1, <1>5
<1>7. /\ files' \in [Sizes -> [Sides -> Keys \cup {Null}]]
      /\ \A s \in Sizes, d \in Sides : files'[s][d] = IF s = size /\ d = side THEN k ELSE files[s][d]
  BY <1>1, <1>2, <1>3, <1>4, <1>5
<1>8. Files!TypeOK'
  BY <1>6, <1>7, OtherNames DEF Files!TypeOK, Files!FileSteps
<1> QED
  BY <1>4, <1>7, <1>8 DEF OwnSize

(* What is not touched stays right.                                        *)
LEMMA LibsKept ==
  ASSUME LibsSafe, UNCHANGED libs
  PROVE  LibsSafe'
BY OpensslKept, MbedtlsKept, GnutlsKept, TomcryptKept DEF LibsSafe, LibTypes, libs

(* Steps which leave the key files alone keep what is known of them.       *)
LEMMA FileVarsKept ==
  ASSUME Files!TypeOK, OwnSize, UNCHANGED filevars
  PROVE  Files!TypeOK' /\ OwnSize'
BY DEF Files!TypeOK, OwnSize, filevars, Files!FileSteps

-----------------------------------------------------------------------------
(* The places of run_rsa(). *)

Loops == {4, 5, 6, 7, 9, 10, 11, 12, 14, 16}
Length(b) ==
  IF b = 2 THEN 10 ELSE IF b \in {3, 8} THEN 3 ELSE IF b \in {1, 6, 7, 11, 12} THEN 2 ELSE 1

(* The sixteen blocks of run_rsa(): their lengths, and the timed ones.     *)
LEMMA LengthsAre ==
  /\ Len(Script) = 16
  /\ \A b \in 1 .. 16 : Len(Script[b].calls) = Length(b) /\ (Script[b].loop <=> b \in Loops)
<1>1. Len(Script) = 16
  BY DEF Script
<1>2. ASSUME NEW b \in 1 .. 16
      PROVE  Len(Script[b].calls) = Length(b) /\ (Script[b].loop <=> b \in Loops)
  <2>1. CASE b = 1
    BY <2>1 DEF Script, Once, Length, Loops
  <2>2. CASE b = 2
    BY <2>2 DEF Script, AutoTest, Once, Length, Loops
  <2>3. CASE b = 3
    BY <2>3 DEF Script, Once, Length, Loops
  <2>4. CASE b = 4
    BY <2>4 DEF Script, Timed, Length, Loops
  <2>5. CASE b = 5
    BY <2>5 DEF Script, Timed, Length, Loops
  <2>6. CASE b = 6
    BY <2>6 DEF Script, Timed, Length, Loops
  <2>7. CASE b = 7
    BY <2>7 DEF Script, Timed, Length, Loops
  <2>8. CASE b = 8
    BY <2>8 DEF Script, Once, Length, Loops
  <2>9. CASE b = 9
    BY <2>9 DEF Script, Timed, Length, Loops
  <2>10. CASE b = 10
    BY <2>10 DEF Script, Timed, Length, Loops
  <2>11. CASE b = 11
    BY <2>11 DEF Script, Timed, Length, Loops
  <2>12. CASE b = 12
    BY <2>12 DEF Script, Timed, Length, Loops
  <2>13. CASE b = 13
    BY <2>13 DEF Script, Once, Length, Loops
  <2>14. CASE b = 14
    BY <2>14 DEF Script, Timed, Length, Loops
  <2>15. CASE b = 15
    BY <2>15 DEF Script, Once, Length, Loops
  <2>16. CASE b = 16
    BY <2>16 DEF Script, Timed, Length, Loops
  <2> QED
    BY <2>1, <2>2, <2>3, <2>4, <2>5, <2>6, <2>7, <2>8, <2>9, <2>10, <2>11, <2>12, <2>13, <2>14, <2>15, <2>16
<1> QED
  BY <1>1, <1>2

(* Where each kind of call is.                                             *)
Position(b, c, act, on) ==
  /\ act = "load" => b = 1 /\ on = IF c = 1 THEN "private" ELSE "public"
  /\ act = "check" => b = 2 /\ c = 1
  /\ act = "init" => on \in Operations /\ ((b = 2 /\ c = InitAt(on)) \/ (b \in {3, 8} /\ c < 3) \/ b \in {6, 7, 11, 12})
  /\ act = "test" => b = 2 /\ on \in Operations /\ c = InitAt(on) + 1
  /\ act = "refuse" => b = 2 /\ c = 10 /\ on = "verify"
  /\ act = "keep" => c = 3 /\ ((b = 3 /\ on = "encrypt") \/ (b = 8 /\ on = "sign"))
  /\ act = "time" => \/ b \in {4, 6} /\ on = "encrypt"
                     \/ b \in {5, 7} /\ on = "decrypt"
                     \/ b \in {9, 11} /\ on = "sign"
                     \/ b \in {10, 12} /\ on = "verify"
  /\ act = "read" => b \in {13, 15} /\ on \in Sides
  /\ act = "reload" => b \in {14, 16} /\ on \in Sides

(* Each call of run_rsa() is at one of the positions listed above.         *)
LEMMA PositionsAre ==
  ASSUME NEW b \in 1 .. 16, NEW c \in 1 .. Length(b)
  PROVE  Position(b, c, Script[b].calls[c].act, Script[b].calls[c].on)
<1>1. CASE b = 1
  BY <1>1 DEF Script, Once, Call, Length, Position, Operations, Sides
<1>2. CASE b = 2
  <2>0. c \in 1 .. 10
    BY <1>2 DEF Length
  <2>1. CASE c = 1
    BY <1>2, <2>1 DEF Script, AutoTest, Once, Call, Position, InitAt, Operations
  <2>2. CASE c = 2
    BY <1>2, <2>2 DEF Script, AutoTest, Once, Call, Position, InitAt, Operations
  <2>3. CASE c = 3
    BY <1>2, <2>3 DEF Script, AutoTest, Once, Call, Position, InitAt, Operations
  <2>4. CASE c = 4
    BY <1>2, <2>4 DEF Script, AutoTest, Once, Call, Position, InitAt, Operations
  <2>5. CASE c = 5
    BY <1>2, <2>5 DEF Script, AutoTest, Once, Call, Position, InitAt, Operations
  <2>6. CASE c = 6
    BY <1>2, <2>6 DEF Script, AutoTest, Once, Call, Position, InitAt, Operations
  <2>7. CASE c = 7
    BY <1>2, <2>7 DEF Script, AutoTest, Once, Call, Position, InitAt, Operations
  <2>8. CASE c = 8
    BY <1>2, <2>8 DEF Script, AutoTest, Once, Call, Position, InitAt, Operations
  <2>9. CASE c = 9
    BY <1>2, <2>9 DEF Script, AutoTest, Once, Call, Position, InitAt, Operations
  <2>10. CASE c = 10
    BY <1>2, <2>10 DEF Script, AutoTest, Once, Call, Position, InitAt, Operations
  <2> QED
    BY <2>0, <2>1, <2>2, <2>3, <2>4, <2>5, <2>6, <2>7, <2>8, <2>9, <2>10
<1>3. CASE b = 3
  BY <1>3 DEF Script, Once, Call, Length, Position, Operations, Sides
<1>4. CASE b = 4
  BY <1>4 DEF Script, Timed, Call, Length, Position, Operations, Sides
<1>5. CASE b = 5
  BY <1>5 DEF Script, Timed, Call, Length, Position, Operations, Sides
<1>6. CASE b = 6
  BY <1>6 DEF Script, Timed, Call, Length, Position, Operations, Sides
<1>7. CASE b = 7
  BY <1>7 DEF Script, Timed, Call, Length, Position, Operations, Sides
<1>8. CASE b = 8
  BY <1>8 DEF Script, Once, Call, Length, Position, Operations, Sides
<1>9. CASE b = 9
  BY <1>9 DEF Script, Timed, Call, Length, Position, Operations, Sides
<1>10. CASE b = 10
  BY <1>10 DEF Script, Timed, Call, Length, Position, Operations, Sides
<1>11. CASE b = 11
  BY <1>11 DEF Script, Timed, Call, Length, Position, Operations, Sides
<1>12. CASE b = 12
  BY <1>12 DEF Script, Timed, Call, Length, Position, Operations, Sides
<1>13. CASE b = 13
  BY <1>13 DEF Script, Once, Call, Length, Position, Operations, Sides
<1>14. CASE b = 14
  BY <1>14 DEF Script, Timed, Call, Length, Position, Operations, Sides
<1>15. CASE b = 15
  BY <1>15 DEF Script, Once, Call, Length, Position, Operations, Sides
<1>16. CASE b = 16
  BY <1>16 DEF Script, Timed, Call, Length, Position, Operations, Sides
<1> QED
  BY <1>1, <1>2, <1>3, <1>4, <1>5, <1>6, <1>7, <1>8, <1>9, <1>10, <1>11, <1>12, <1>13, <1>14, <1>15, <1>16

(* The place after a call.                                                 *)
Follows(b, c, b2, c2) ==
  \/ b \notin Loops /\ c < Length(b) /\ b2 = b /\ c2 = c + 1
  \/ b \notin Loops /\ c = Length(b) /\ b2 = b + 1 /\ c2 = 1
  \/ b \in Loops /\ b2 = b /\ c2 \in 1 .. Length(b)

(* After a call comes the next one of the block, or another block.         *)
LEMMA NextCallIs ==
  ASSUME Places, phase = "rsa", NextCall
  PROVE  /\ phase' = "rsa" /\ tested' = tested /\ sizes' = sizes
         /\ block' \in 1 .. 16 /\ call' \in 1 .. Length(block')
         /\ Follows(block, call, block', call')
<1>1. block \in 1 .. 16 /\ call \in 1 .. Length(block)
  BY LengthsAre DEF Places
<1>2. Length(block) \in Nat /\ Length(block + 1) \in Nat \ {0}
  BY DEF Length
<1>3. Len(Script) = 16 /\ Len(Script[block].calls) = Length(block) /\ (Script[block].loop <=> block \in Loops)
  BY <1>1, LengthsAre
<1>4. CASE call < Length(block)
  BY <1>1, <1>2, <1>3, <1>4 DEF NextCall, Follows
<1>5. CASE call = Length(block) /\ block \in Loops
  BY <1>1, <1>2, <1>3, <1>5 DEF NextCall, Follows
<1>6. CASE call = Length(block) /\ block \notin Loops
  <2>1. block + 1 <= 16
    BY <1>1, <1>6 DEF Loops
  <2>2. EnterBlock(block + 1)
    BY <1>1, <1>2, <1>3, <1>6 DEF NextCall
  <2>3. call' = 1 /\ block' = block + 1 /\ UNCHANGED <<phase, tested, sizes>>
    BY <1>3, <2>1, <2>2 DEF EnterBlock
  <2> QED
    BY <1>1, <1>2, <1>6, <2>1, <2>3 DEF Follows
<1> QED
  BY <1>1, <1>2, <1>4, <1>5, <1>6

(* What a call of a library finds: the library has RSA, and the call is    *)
(* one of the script.                                                      *)
LEMMA InCall ==
  ASSUME Places, NEW act, AtCall(act)
  PROVE  /\ Lib \in Usable /\ Size \in Sizes
         /\ block \in 1 .. 16 /\ call \in 1 .. Length(block)
         /\ Position(block, call, act, Current.on)
<1>1. tested \in Seq(Usable) /\ tested # <<>> /\ sizes \in Seq(Sizes) /\ sizes # <<>>
  BY DEF Places, AtCall
<1>2. block \in 1 .. 16 /\ call \in 1 .. Length(block)
  BY LengthsAre DEF Places
<1>3. Position(block, call, Current.act, Current.on)
  BY <1>2, PositionsAre DEF Current
<1>4. Current.act = act
  BY DEF AtCall
<1> QED
  BY <1>1, <1>2, <1>3, <1>4 DEF Lib, Size

-----------------------------------------------------------------------------
(* Every call of run_rsa() preserves the invariant. *)

BufferTypes ==
  /\ output \in Uses \cup {Null} /\ encrypted \in Uses \cup {Null} /\ sig \in Uses \cup {Null}
  /\ der \in Keys \cup {Null}

(* The parts of the invariant which a step of run_rsa() may disturb.       *)
LEMMA InvParts ==
  ASSUME Inv
  PROVE  LibsSafe /\ Files!TypeOK /\ OwnSize /\ Places /\ BufferTypes /\ Stage
BY DEF Inv, LibsSafe, BufferTypes, Places

(* A call that ends the program.                                           *)
LEMMA FatalCall ==
  ASSUME Places, Fatal, LibsSafe', Files!TypeOK', OwnSize', BufferTypes'
  PROVE  Inv'
<1>1. phase' = "fatal" /\ UNCHANGED <<tested, sizes, block, call>>
  BY DEF Fatal
<1>2. Places'
  BY <1>1 DEF Places, BufferTypes, Usable, HasRsa, Tomcrypt!rsa_available
<1>3. Stage'
  BY <1>1 DEF Stage
<1> QED
  BY <1>2, <1>3 DEF Inv, LibsSafe

(* A call that goes on.                                                    *)
LEMMA CallGoesOn ==
  ASSUME Places, NEW act, AtCall(act), NextCall
  PROVE  /\ tested' = tested /\ Lib' = Lib /\ Size' = Size
         /\ block' \in 1 .. 16 /\ call' \in 1 .. Length(block')
         /\ Follows(block, call, block', call')
         /\ BufferTypes' => Places'
<1>1. phase = "rsa"
  BY DEF AtCall
<1>2. /\ phase' = "rsa" /\ tested' = tested /\ sizes' = sizes
      /\ block' \in 1 .. 16 /\ call' \in 1 .. Length(block')
      /\ Follows(block, call, block', call')
  BY <1>1, NextCallIs
<1>3. Len(Script[block'].calls) = Length(block')
  BY <1>2, LengthsAre
<1>4. BufferTypes' => Places'
  BY <1>1, <1>2, <1>3 DEF Places, BufferTypes, Usable, HasRsa, Tomcrypt!rsa_available
<1> QED
  BY <1>2, <1>4 DEF Lib, Size

(* What the library says of its keys after a call that does not load any.  *)
LEMMA SameKeys ==
  ASSUME tested' = tested,
         \A l : l = Lib => \A side \in Sides : LoadedBy(l, side)' = LoadedBy(l, side)
  PROVE  \A side \in Sides : LoadedKey(side)' = LoadedKey(side)
<1>1. PICK l : l = Lib
  OBVIOUS
<1>2. \A side : LoadedKey(side)' = LoadedBy(l, side)' /\ LoadedKey(side) = LoadedBy(l, side)
  BY <1>1 DEF LoadedKey, LoadedBy, Lib
<1> QED
  BY <1>1, <1>2

(* The call of init_rsa_operation().                                       *)
LEMMA InvInitCall == ASSUME Inv, InitCall PROVE Inv'
<1>1. LibsSafe /\ Files!TypeOK /\ OwnSize /\ Places /\ BufferTypes /\ Stage
  BY InvParts
<1>2. AtCall("init") /\ InitContext(Current.on) /\ NextCall /\ UNCHANGED <<filevars, buffers>>
  BY DEF InitCall
<1>3. /\ Lib \in Usable /\ Size \in Sizes
      /\ block \in 1 .. 16 /\ call \in 1 .. Length(block)
      /\ Position(block, call, "init", Current.on)
  BY <1>1, <1>2, InCall
<1>4. /\ tested' = tested /\ Lib' = Lib /\ Size' = Size
      /\ block' \in 1 .. 16 /\ call' \in 1 .. Length(block')
      /\ Follows(block, call, block', call')
      /\ BufferTypes' => Places'
  BY <1>1, <1>2, CallGoesOn
<1>5. PICK op \in Operations : op = Current.on
  BY <1>3 DEF Position
<1>6. /\ LibsSafe'
      /\ \A l : l = Lib => \A side \in Sides : LoadedBy(l, side)' = LoadedBy(l, side)
      /\ mbedtls' = mbedtls
      /\ Lib = "openssl" =>
           /\ openssl'.slot = openssl.slot
           /\ openssl'.ctx = [openssl.ctx EXCEPT ![op] = openssl.slot[SideOf(op)]]
  <2>1. InitContext(op)
    BY <1>2, <1>5
  <2> QED
    BY <1>1, <1>3, <2>1, InitContextIs
<1>7. \A side \in Sides : LoadedKey(side)' = LoadedKey(side)
  BY <1>4, <1>6, SameKeys
<1>8. BufferTypes' /\ Places' /\ Files!TypeOK' /\ OwnSize'
  BY <1>1, <1>2, <1>4, FileVarsKept DEF BufferTypes, buffers
<1>9. /\ KeysLoaded /\ ContextsMade /\ PaddingLeft /\ OnePair /\ BuffersFit
      /\ Position(block, call, "init", op)
  BY <1>1, <1>2, <1>3, <1>5 DEF Stage, AtCall
<1>10. KeysLoaded'
  BY <1>3, <1>4, <1>7, <1>9 DEF KeysLoaded, HasKey, Follows, Position, Loops, Length
<1>11. ContextsMade'
  <2> SUFFICES ASSUME Lib = "openssl", NEW o \in Operations, HasContext(o, block', call')
               PROVE  openssl'.ctx[o] = openssl'.slot[SideOf(o)]
    BY <1>4 DEF ContextsMade
  <2>1. openssl.ctx \in [Operations -> OpenSSL!Handles \cup {Null}]
    BY <1>1, ReferenceTypes DEF LibsSafe, LibTypes
  <2>2. o = op \/ HasContext(o, block, call)
    BY <1>3, <1>4, <1>9 DEF HasContext, Follows, Position, Loops, Length, InitAt, Operations
  <2> QED
    BY <1>6, <1>9, <2>1, <2>2 DEF ContextsMade
<1>12. PaddingLeft'
  BY <1>3, <1>4, <1>6, <1>9 DEF PaddingLeft, HasPadding, Follows, Position, Loops, Length, InitAt, Sides, Operations
<1>13. OnePair'
  BY <1>3, <1>4, <1>7, <1>9 DEF OnePair, Paired, Follows, Position, Loops, Length, InitAt, Sides, Operations
<1>14. BuffersFit'
  BY <1>2, <1>3, <1>4, <1>7, <1>9 DEF BuffersFit, Encrypted, Signed, buffers, Follows, Position, Loops, Length, InitAt, Sides, Operations
<1> QED
  BY <1>6, <1>8, <1>10, <1>11, <1>12, <1>13, <1>14 DEF Inv, LibsSafe, Stage

(* An operation of the library finds its key loaded and its context made.  *)
Acts == {"test", "refuse", "keep", "time"}
(* A call of an operation finds its key and its context in place.          *)
LEMMA OperationCall ==
  ASSUME Inv, NEW act \in Acts, AtCall(act)
  PROVE  /\ Current.on \in Operations /\ SideOf(Current.on) \in Sides
         /\ block \in 2 .. 12
         /\ Lib \in Usable /\ Position(block, call, act, Current.on)
         /\ HasContext(Current.on, block, call)
         /\ \A side \in Sides : LoadedKey(side) \in Keys /\ LoadedKey(side).bits = Size
         /\ Lib = "openssl" => openssl.ctx[Current.on] = openssl.slot[SideOf(Current.on)]
<1>1. LibsSafe /\ Places /\ Stage
  BY InvParts
<1>2. /\ Lib \in Usable /\ Size \in Sizes
      /\ block \in 1 .. 16 /\ call \in 1 .. Length(block)
      /\ Position(block, call, act, Current.on)
  BY <1>1, InCall
<1>3. Current.on \in Operations /\ block \in 2 .. 12 /\ HasContext(Current.on, block, call)
  BY <1>2 DEF Acts, Position, Operations, HasContext, InitAt
<1>4. KeysLoaded /\ ContextsMade
  BY <1>1 DEF Stage, AtCall
<1>5. SideOf(Current.on) \in Sides
  BY DEF SideOf, Sides
<1>6. \A side \in Sides : LoadedKey(side) \in Keys /\ LoadedKey(side).bits = Size
  BY <1>3, <1>4 DEF KeysLoaded, HasKey
<1> QED
  BY <1>2, <1>3, <1>4, <1>5, <1>6 DEF ContextsMade

(* What an operation preserves when the program goes on.                   *)
LEMMA OperationGoesOn ==
  ASSUME Inv, NEW act \in Acts, AtCall(act), Perform(Current.on), NextCall
  PROVE  /\ tested' = tested /\ Lib' = Lib /\ Size' = Size
         /\ Follows(block, call, block', call')
         /\ BufferTypes' => Places'
         /\ \A side \in Sides : LoadedKey(side)' = LoadedKey(side)
         /\ KeysLoaded' /\ ContextsMade' /\ PaddingLeft'
<1>1. LibsSafe /\ Places /\ Stage
  BY InvParts
<1>2. /\ Lib \in Usable /\ Size \in Sizes
      /\ block \in 1 .. 16 /\ call \in 1 .. Length(block)
      /\ Position(block, call, act, Current.on)
  BY <1>1, InCall
<1>3. /\ tested' = tested /\ Lib' = Lib /\ Size' = Size
      /\ block' \in 1 .. 16 /\ call' \in 1 .. Length(block')
      /\ Follows(block, call, block', call')
      /\ BufferTypes' => Places'
  BY <1>1, CallGoesOn
<1>4. PICK op \in Operations : op = Current.on
  BY OperationCall
<1>5. /\ block \in 2 .. 12
      /\ LoadedKey(SideOf(op)) \in Keys
      /\ \A side \in Sides : LoadedKey(side) \in Keys /\ LoadedKey(side).bits = Size
  BY <1>4, OperationCall
<1>6. /\ openssl' = openssl
      /\ \A l : l = Lib => \A side \in Sides : LoadedBy(l, side)' = LoadedBy(l, side)
      /\ Lib = "mbedtls" => \A side \in Sides :
           /\ op \in {"encrypt", "decrypt"} /\ side = SideOf(op) => mbedtls'[side].padding = "v21"
           /\ mbedtls[side].padding = "v21" => mbedtls'[side].padding = "v21"
  <2>1. Perform(op)
    BY <1>4
  <2> QED
    BY <1>1, <1>2, <1>5, <2>1, PerformIs
<1>7. \A side \in Sides : LoadedKey(side)' = LoadedKey(side)
  BY <1>3, <1>6, SameKeys
<1>8. KeysLoaded /\ ContextsMade /\ PaddingLeft /\ Position(block, call, act, op)
  BY <1>1, <1>2, <1>4 DEF Stage, AtCall
<1>9. KeysLoaded'
  BY <1>3, <1>5, <1>7 DEF KeysLoaded
<1>10. ContextsMade'
  <2> SUFFICES ASSUME Lib = "openssl", NEW o \in Operations, HasContext(o, block', call')
               PROVE  openssl'.ctx[o] = openssl'.slot[SideOf(o)]
    BY <1>3 DEF ContextsMade
  <2>1. HasContext(o, block, call)
    BY <1>2, <1>3, <1>8 DEF Acts, HasContext, Follows, Position, Loops, Length, InitAt, Operations
  <2> QED
    BY <1>6, <1>8, <2>1 DEF ContextsMade
<1>11. PaddingLeft'
  <2> SUFFICES ASSUME Lib = "mbedtls", NEW side \in Sides, HasPadding(side, block', call')
               PROVE  mbedtls'[side].padding = "v21"
    BY <1>3 DEF PaddingLeft
  <2>1. HasPadding(side, block, call) \/ (op \in {"encrypt", "decrypt"} /\ side = SideOf(op))
    BY <1>2, <1>3, <1>8, SameNames DEF Acts, HasPadding, Follows, Position, Loops, Length, InitAt, Operations, Sides
  <2> QED
    BY <1>6, <1>8, <2>1 DEF PaddingLeft
<1> QED
  BY <1>3, <1>7, <1>9, <1>10, <1>11

(* What an operation preserves in any case.                                *)
LEMMA OperationKeeps ==
  ASSUME Inv, NEW act \in Acts, AtCall(act), Perform(Current.on)
  PROVE  LibsSafe'
<1>1. PICK op \in Operations : op = Current.on
  BY OperationCall
<1>2. LibsSafe /\ Lib \in Usable /\ LoadedKey(SideOf(op)) \in Keys /\ Perform(op)
  BY <1>1, OperationCall, InvParts
<1> QED
  BY <1>2, PerformIs

(* The key and padding of that operation.                                  *)
LEMMA OperationUse ==
  ASSUME Inv, NEW act \in Acts, AtCall(act)
  PROVE  LET op == Current.on
         IN  /\ UseOf(op) \in Uses
             /\ UseOf(op).key = LoadedKey(SideOf(op))
             /\ op \in {"encrypt", "decrypt"} => UseOf(op) = Encrypted(LoadedKey(SideOf(op)))
             /\ op \in {"sign", "verify"} => UseOf(op) = Signed(LoadedKey(SideOf(op)))
<1>1. LibsSafe /\ Places /\ Stage
  BY InvParts
<1>2. PICK op \in Operations : op = Current.on
  BY OperationCall
<1>3. /\ Lib \in Usable /\ Position(block, call, act, op) /\ SideOf(op) \in Sides
      /\ block \in 2 .. 12 /\ HasContext(op, block, call)
      /\ LoadedKey(SideOf(op)) \in Keys
      /\ Lib = "openssl" => openssl.ctx[op] = openssl.slot[SideOf(op)]
  BY <1>2, OperationCall
<1>4. op \in {"sign", "verify"} /\ Lib = "mbedtls" => mbedtls[SideOf(op)].padding = "v21"
  <2>1. PaddingLeft
    BY <1>1 DEF Stage, AtCall
  <2>2. op \in {"sign", "verify"} => HasPadding(SideOf(op), block, call)
    <3>1. call \in 1 .. Length(block) /\ Length(block) \in Nat
      BY <1>1, InCall DEF Length
    <3> QED
      BY <1>3, <3>1, SameNames DEF HasContext, HasPadding, InitAt
  <2> QED
    BY <1>3, <2>1, <2>2 DEF PaddingLeft
<1> QED
  BY <1>1, <1>2, <1>3, <1>4, UseIs

(* The signature of another message is refused.                            *)
LEMMA InvRefuseCall == ASSUME Inv, RefuseCall PROVE Inv'
<1>1. AtCall("refuse") /\ Perform(Current.on) /\ NextCall /\ UNCHANGED <<filevars, buffers>> /\ "refuse" \in Acts
  BY DEF RefuseCall, Acts
<1>2. Files!TypeOK /\ OwnSize /\ BufferTypes /\ Stage
  BY InvParts
<1>3. /\ tested' = tested /\ Lib' = Lib /\ Size' = Size
      /\ Follows(block, call, block', call')
      /\ BufferTypes' => Places'
      /\ \A side \in Sides : LoadedKey(side)' = LoadedKey(side)
      /\ KeysLoaded' /\ ContextsMade' /\ PaddingLeft'
  BY <1>1, OperationGoesOn
<1>4. LibsSafe' /\ BufferTypes' /\ Files!TypeOK' /\ OwnSize'
  BY <1>1, <1>2, OperationKeeps, FileVarsKept DEF BufferTypes, buffers
<1>5. Position(block, call, "refuse", Current.on) /\ OnePair
  BY <1>1, <1>2, OperationCall DEF Stage, AtCall
<1>6. OnePair' /\ BuffersFit'
  BY <1>3, <1>5 DEF OnePair, Paired, BuffersFit, Follows, Position, Loops, Length, Sides
<1> QED
  BY <1>3, <1>4, <1>6 DEF Inv, LibsSafe, Stage

(* An operation whose result the next ones use.                            *)
LEMMA InvKeepCall == ASSUME Inv, KeepCall PROVE Inv'
<1>1. AtCall("keep") /\ Perform(Current.on) /\ NextCall /\ UNCHANGED <<filevars, output, der>> /\ "keep" \in Acts
  BY DEF KeepCall, Acts
<1>2. Files!TypeOK /\ OwnSize /\ BufferTypes /\ Stage
  BY InvParts
<1>3. /\ tested' = tested /\ Lib' = Lib /\ Size' = Size
      /\ Follows(block, call, block', call')
      /\ BufferTypes' => Places'
      /\ \A side \in Sides : LoadedKey(side)' = LoadedKey(side)
      /\ KeysLoaded' /\ ContextsMade' /\ PaddingLeft'
  BY <1>1, OperationGoesOn
<1>4. /\ Position(block, call, "keep", Current.on) /\ OnePair
      /\ UseOf(Current.on) \in Uses
      /\ Current.on = "encrypt" => UseOf(Current.on) = Encrypted(LoadedKey("public"))
      /\ Current.on = "sign" => UseOf(Current.on) = Signed(LoadedKey("private"))
  BY <1>1, <1>2, OperationCall, OperationUse, SameNames DEF Stage, AtCall
<1>5. /\ Current.on = "encrypt" => encrypted' = Encrypted(LoadedKey("public")) /\ encrypted' \in Uses /\ sig' = sig
      /\ Current.on = "sign" => sig' = Signed(LoadedKey("private")) /\ sig' \in Uses /\ encrypted' = encrypted
  BY <1>4 DEF KeepCall
<1>6. LibsSafe' /\ BufferTypes' /\ Files!TypeOK' /\ OwnSize'
  BY <1>1, <1>2, <1>4, <1>5, OperationKeeps, FileVarsKept DEF BufferTypes, Position
<1>7. OnePair'
  BY <1>3, <1>4 DEF OnePair, Paired, Follows, Position, Loops, Length, Sides
<1>8. BuffersFit'
  BY <1>3, <1>4, <1>5 DEF BuffersFit, Encrypted, Signed, Follows, Position, Loops, Length, Sides
<1> QED
  BY <1>3, <1>6, <1>7, <1>8 DEF Inv, LibsSafe, Stage

(* An operation which is timed.                                            *)
LEMMA InvTimedCall == ASSUME Inv, TimedCall PROVE Inv'
<1>1. AtCall("time") /\ Perform(Current.on) /\ (NextCall \/ Fatal) /\ UNCHANGED <<filevars, buffers>> /\ "time" \in Acts
  BY DEF TimedCall, Acts
<1>2. Files!TypeOK /\ OwnSize /\ BufferTypes /\ Stage /\ Places
  BY InvParts
<1>3. LibsSafe' /\ BufferTypes' /\ Files!TypeOK' /\ OwnSize'
  BY <1>1, <1>2, OperationKeeps, FileVarsKept DEF BufferTypes, buffers
<1>4. CASE Fatal
  BY <1>2, <1>3, <1>4, FatalCall
<1>5. CASE NextCall
  <2>1. /\ tested' = tested /\ Lib' = Lib /\ Size' = Size
        /\ Follows(block, call, block', call')
        /\ BufferTypes' => Places'
        /\ \A side \in Sides : LoadedKey(side)' = LoadedKey(side)
        /\ KeysLoaded' /\ ContextsMade' /\ PaddingLeft'
    BY <1>1, <1>5, OperationGoesOn
  <2>2. /\ Position(block, call, "time", Current.on) /\ OnePair /\ BuffersFit
    BY <1>1, <1>2, OperationCall DEF Stage, AtCall
  <2>3. block' = block /\ block \in {4, 5, 6, 7, 9, 10, 11, 12}
    BY <2>1, <2>2 DEF Follows, Position, Loops
  <2>4. OnePair'
    BY <2>1, <2>2, <2>3 DEF OnePair, Paired, Sides
  <2>5. BuffersFit'
    BY <1>1, <2>1, <2>2, <2>3 DEF BuffersFit, Encrypted, Signed, buffers, Sides
  <2> QED
    BY <1>3, <2>1, <2>4, <2>5 DEF Inv, LibsSafe, Stage
<1> QED
  BY <1>1, <1>4, <1>5

(* An operation of the auto-test.                                          *)
LEMMA InvTestCall == ASSUME Inv, TestCall PROVE Inv'
<1> DEFINE op == Current.on
<1>1. /\ AtCall("test") /\ Perform(op) /\ "test" \in Acts
      /\ IF TestPasses(op) THEN NextCall ELSE Fatal
      /\ output' = CASE op \in {"encrypt", "sign"} -> UseOf(op) [] op = "decrypt" -> Null [] OTHER -> output
      /\ UNCHANGED <<filevars, encrypted, sig, der>>
  BY DEF TestCall, Acts
<1>2. Files!TypeOK /\ OwnSize /\ BufferTypes /\ Stage /\ Places
  BY InvParts
<1>3. op \in Operations /\ Position(block, call, "test", op)
  BY <1>1, OperationCall
<1>4. /\ UseOf(op) \in Uses
      /\ op = "encrypt" => UseOf(op) = Encrypted(LoadedKey("public"))
      /\ op = "decrypt" => UseOf(op) = Encrypted(LoadedKey("private"))
      /\ op = "sign" => UseOf(op) = Signed(LoadedKey("private"))
  BY <1>1, OperationUse, SameNames
<1> HIDE DEF op
<1>5. /\ op \in {"encrypt", "sign"} => output' = UseOf(op)
      /\ op = "decrypt" => output' = Null
      /\ op = "verify" => output' = output
  BY <1>1, <1>3 DEF Operations
<1>6. LibsSafe' /\ BufferTypes' /\ Files!TypeOK' /\ OwnSize'
  <2>1. LibsSafe'
    BY <1>1, OperationKeeps DEF op
  <2> QED
    BY <1>1, <1>2, <1>3, <1>4, <1>5, <2>1, FileVarsKept DEF BufferTypes, Operations
<1>7. CASE ~ TestPasses(op)
  BY <1>1, <1>2, <1>6, <1>7, FatalCall
<1>8. CASE TestPasses(op)
  <2>1. /\ tested' = tested /\ Lib' = Lib /\ Size' = Size
        /\ Follows(block, call, block', call')
        /\ BufferTypes' => Places'
        /\ \A side \in Sides : LoadedKey(side)' = LoadedKey(side)
        /\ KeysLoaded' /\ ContextsMade' /\ PaddingLeft'
    BY <1>1, <1>8, OperationGoesOn DEF op
  <2>2. OnePair /\ BuffersFit
    BY <1>1, <1>2 DEF Stage, AtCall
  <2>3. block = 2 /\ block' = 2 /\ call' = call + 1 /\ call = InitAt(op) + 1
    BY <1>3, <2>1 DEF Position, Follows, Loops, Length, InitAt, Operations
  <2>4. OnePair'
    <3>1. CASE op = "encrypt"
      BY <2>1, <2>3, <3>1 DEF OnePair, Paired, InitAt
    <3>2. CASE op = "decrypt"
      <4>1. output = Encrypted(LoadedKey("public")) /\ output = UseOf("decrypt")
        BY <1>8, <2>2, <2>3, <3>2 DEF BuffersFit, InitAt, TestPasses, Accepts
      <4>2. LoadedKey("public") = LoadedKey("private")
        BY <1>4, <3>2, <4>1 DEF Encrypted
      <4> QED
        BY <2>1, <4>2 DEF OnePair, Sides
    <3>3. CASE op \in {"sign", "verify"}
      BY <2>1, <2>2, <2>3, <3>3 DEF OnePair, Paired, InitAt, Sides
    <3> QED
      BY <1>3, <3>1, <3>2, <3>3 DEF Operations
  <2>5. BuffersFit'
    <3>1. Encrypted(LoadedKey("public"))' = Encrypted(LoadedKey("public"))
          /\ Signed(LoadedKey("private"))' = Signed(LoadedKey("private"))
      BY <2>1 DEF Encrypted, Signed, Sides
    <3>2. call' \in {4, 5} => op = "encrypt"
      BY <1>3, <2>3 DEF InitAt, Operations
    <3>3. call' \in {8, 9} => op = "sign"
      BY <1>3, <2>3 DEF InitAt, Operations
    <3> QED
      BY <1>4, <1>5, <2>3, <3>1, <3>2, <3>3 DEF BuffersFit
  <2> QED
    BY <1>6, <2>1, <2>4, <2>5 DEF Inv, LibsSafe, Stage
<1> QED
  BY <1>7, <1>8

(* The test of the sizes of the two keys which are loaded.                 *)
LEMMA InvCheckKeys == ASSUME Inv, CheckKeys PROVE Inv'
<1>1. /\ AtCall("check") /\ (Fatal \/ NextCall) /\ UNCHANGED <<filevars, buffers>>
      /\ IF Lib \in Instances
           THEN Tomcrypt!Touch(Lib) /\ UNCHANGED <<tomcrypt, openssl, mbedtls, gnutls>>
           ELSE UNCHANGED libs
  BY DEF CheckKeys
<1>2. LibsSafe /\ Files!TypeOK /\ OwnSize /\ BufferTypes /\ Stage /\ Places
  BY InvParts
<1>3. /\ Lib \in Usable
      /\ block \in 1 .. 16 /\ call \in 1 .. Length(block)
      /\ Position(block, call, "check", Current.on)
  BY <1>1, <1>2, InCall
<1>4. LibsSafe' /\ \A l : l = Lib => \A side \in Sides : LoadedBy(l, side)' = LoadedBy(l, side)
  <2>1. CASE Lib \in Instances
    <3>1. PICK t \in Instances : t = Lib
      BY <2>1
    <3>2. Tomcrypt!Touch(t) /\ UNCHANGED <<tomcrypt, openssl, mbedtls, gnutls>>
      BY <1>1, <2>1, <3>1
    <3>3. mixed' = FALSE /\ ltc_mp' \in {MathDesc[u] : u \in Instances} \cup {Null}
      BY <1>2, <3>2, TouchIs DEF LibsSafe, LibTypes
    <3>4. Tomcrypt!TypeOK' /\ OwnBackend'
      BY <1>2, <3>2, <3>3 DEF LibsSafe, LibTypes, Tomcrypt!TypeOK, OwnBackend
    <3>5. LibsSafe'
      BY <1>2, <3>2, <3>4, OpensslKept, MbedtlsKept, GnutlsKept DEF LibsSafe, LibTypes
    <3> QED
      BY <3>2, <3>5 DEF LoadedBy, OpenSSL!Loaded, MbedTLS!Loaded, GnuTLS!Loaded, Tomcrypt!Loaded
  <2>2. CASE Lib \notin Instances
    <3>1. UNCHANGED libs
      BY <1>1, <2>2
    <3>2. LibsSafe'
      BY <1>2, <3>1, LibsKept
    <3> QED
      BY <3>1, <3>2 DEF libs, tomvars, LoadedBy, OpenSSL!Loaded, MbedTLS!Loaded, GnuTLS!Loaded, Tomcrypt!Loaded
  <2> QED
    BY <2>1, <2>2
<1>5. BufferTypes' /\ Files!TypeOK' /\ OwnSize'
  BY <1>1, <1>2, FileVarsKept DEF BufferTypes, buffers
<1>6. CASE Fatal
  BY <1>2, <1>4, <1>5, <1>6, FatalCall
<1>7. CASE NextCall
  <2>1. /\ tested' = tested /\ Lib' = Lib /\ Size' = Size
        /\ Follows(block, call, block', call')
        /\ BufferTypes' => Places'
    BY <1>1, <1>2, <1>7, CallGoesOn
  <2>2. \A side \in Sides : LoadedKey(side)' = LoadedKey(side)
    BY <1>4, <2>1, SameKeys
  <2>3. block = 2 /\ block' = 2 /\ call' = 2
    BY <1>3, <2>1 DEF Position, Follows, Loops, Length
  <2>4. KeysLoaded
    BY <1>1, <1>2 DEF Stage, AtCall
  <2>5. KeysLoaded'
    BY <2>1, <2>2, <2>3, <2>4 DEF KeysLoaded, HasKey
  <2>6. ContextsMade' /\ PaddingLeft' /\ OnePair' /\ BuffersFit'
    BY <2>3 DEF ContextsMade, PaddingLeft, OnePair, BuffersFit, HasContext, HasPadding, Paired, InitAt
  <2> QED
    BY <1>4, <1>5, <2>1, <2>5, <2>6 DEF Inv, LibsSafe, Stage
<1> QED
  BY <1>1, <1>6, <1>7

(* The library under test has the key that was just loaded.                *)
LEMMA LoadedAfter ==
  ASSUME LibsSafe, Lib \in Usable, tested' = tested, NEW side \in Sides, NEW k \in Keys, LoadKey(side, k)
  PROVE  /\ LoadedKey(side)' = k
         /\ \A other \in Sides : other # side => LoadedKey(other)' = LoadedKey(other)
<1>1. PICK l : l = Lib
  OBVIOUS
<1>2. \A d : LoadedKey(d)' = LoadedBy(l, d)' /\ LoadedKey(d) = LoadedBy(l, d)
  BY <1>1 DEF LoadedKey, LoadedBy, Lib
<1>3. LoadedBy(l, side)' = k /\ \A other \in Sides : other # side => LoadedBy(l, other)' = LoadedBy(l, other)
  BY <1>1, LoadKeyIs
<1> QED
  BY <1>2, <1>3

(* A key is loaded from its file.                                          *)
LEMMA InvLoadFile == ASSUME Inv, LoadFile PROVE Inv'
<1>1. AtCall("load") /\ UNCHANGED <<filevars, buffers>>
  BY DEF LoadFile
<1>2. LibsSafe /\ Files!TypeOK /\ OwnSize /\ BufferTypes /\ Stage /\ Places
  BY InvParts
<1>3. /\ Lib \in Usable /\ Size \in Sizes
      /\ block \in 1 .. 16 /\ call \in 1 .. Length(block)
      /\ Position(block, call, "load", Current.on)
  BY <1>1, <1>2, InCall
<1>4. block = 1 /\ call \in {1, 2} /\ Current.on = IF call = 1 THEN "private" ELSE "public"
  BY <1>3 DEF Position, Length
<1>5. BufferTypes' /\ Files!TypeOK' /\ OwnSize'
  BY <1>1, <1>2, FileVarsKept DEF BufferTypes, buffers
<1>6. PICK side, k : side = Current.on /\ k = files[Size][side] /\ side \in Sides
  BY <1>4 DEF Sides
<1>7. CASE k = Null
  <2>1. Fatal /\ UNCHANGED libs
    BY <1>6, <1>7 DEF LoadFile
  <2> QED
    BY <1>2, <1>5, <2>1, LibsKept, FatalCall
<1>8. CASE k # Null
  <2>1. LoadKey(side, k) /\ NextCall
    BY <1>6, <1>8 DEF LoadFile
  <2>2. k \in Keys /\ k.bits = Size
    <3>1. files \in [Sizes -> [Sides -> Keys \cup {Null}]]
      BY <1>2, OtherNames DEF Files!TypeOK
    <3> QED
      BY <1>2, <1>3, <1>6, <1>8, <3>1 DEF OwnSize
  <2>3. /\ tested' = tested /\ Lib' = Lib /\ Size' = Size
        /\ Follows(block, call, block', call')
        /\ BufferTypes' => Places'
    BY <1>1, <1>2, <2>1, CallGoesOn
  <2>4. LibsSafe'
    BY <1>2, <1>3, <1>6, <2>1, <2>2, LoadKeyIs
  <2>5. LoadedKey(side)' = k /\ \A other \in Sides : other # side => LoadedKey(other)' = LoadedKey(other)
    BY <1>2, <1>3, <1>6, <2>1, <2>2, <2>3, LoadedAfter
  <2>6. (call = 1 /\ block' = 1 /\ call' = 2) \/ (call = 2 /\ block' = 2 /\ call' = 1)
    BY <1>4, <2>3 DEF Follows, Loops, Length
  <2>7. KeysLoaded
    BY <1>1, <1>2 DEF Stage, AtCall
  <2>8. KeysLoaded'
    BY <1>4, <1>6, <2>2, <2>3, <2>5, <2>6, <2>7 DEF KeysLoaded, HasKey, Sides
  <2>9. ContextsMade' /\ PaddingLeft' /\ OnePair' /\ BuffersFit'
    BY <2>6 DEF ContextsMade, PaddingLeft, OnePair, BuffersFit, HasContext, HasPadding, Paired, InitAt
  <2> QED
    BY <1>5, <2>3, <2>4, <2>8, <2>9 DEF Inv, LibsSafe, Stage
<1> QED
  BY <1>7, <1>8

(* A key is loaded again, from the bytes that were read.                   *)
LEMMA InvReloadCall == ASSUME Inv, ReloadCall PROVE Inv'
<1>1. AtCall("reload") /\ UNCHANGED <<filevars, buffers>>
  BY DEF ReloadCall
<1>2. LibsSafe /\ Files!TypeOK /\ OwnSize /\ BufferTypes /\ Stage /\ Places
  BY InvParts
<1>3. /\ Lib \in Usable /\ Size \in Sizes
      /\ block \in 1 .. 16 /\ call \in 1 .. Length(block)
      /\ Position(block, call, "reload", Current.on)
  BY <1>1, <1>2, InCall
<1>4. block \in {14, 16} /\ Current.on \in Sides
  BY <1>3 DEF Position
<1>5. BufferTypes' /\ Files!TypeOK' /\ OwnSize'
  BY <1>1, <1>2, FileVarsKept DEF BufferTypes, buffers
<1>6. PICK side, k : side = Current.on /\ k = der /\ side \in Sides
  BY <1>4
<1>7. CASE k = Null
  <2>1. Fatal /\ UNCHANGED libs
    BY <1>6, <1>7 DEF ReloadCall
  <2> QED
    BY <1>2, <1>5, <2>1, LibsKept, FatalCall
<1>8. CASE k # Null
  <2>1. LoadKey(side, k) /\ NextCall
    BY <1>6, <1>8 DEF ReloadCall
  <2>2. KeysLoaded /\ BuffersFit
    BY <1>1, <1>2 DEF Stage, AtCall
  <2>3. k \in Keys /\ k.bits = Size
    BY <1>2, <1>4, <1>6, <1>8, <2>2 DEF BufferTypes, BuffersFit
  <2>4. /\ tested' = tested /\ Lib' = Lib /\ Size' = Size
        /\ Follows(block, call, block', call')
        /\ BufferTypes' => Places'
    BY <1>1, <1>2, <2>1, CallGoesOn
  <2>5. LibsSafe'
    BY <1>2, <1>3, <1>6, <2>1, <2>3, LoadKeyIs
  <2>6. LoadedKey(side)' = k /\ \A other \in Sides : other # side => LoadedKey(other)' = LoadedKey(other)
    BY <1>2, <1>3, <1>6, <2>1, <2>3, <2>4, LoadedAfter
  <2>7. block' = block /\ block' \in {14, 16}
    BY <1>4, <2>4 DEF Follows, Loops, Length
  <2>8. KeysLoaded'
    BY <1>4, <2>2, <2>3, <2>4, <2>6 DEF KeysLoaded, HasKey
  <2>9. ContextsMade' /\ PaddingLeft' /\ OnePair'
    BY <2>7 DEF ContextsMade, PaddingLeft, OnePair, HasContext, HasPadding, Paired
  <2>10. BuffersFit'
    BY <1>1, <1>4, <2>2, <2>4, <2>7 DEF BuffersFit, buffers
  <2> QED
    BY <1>5, <2>4, <2>5, <2>8, <2>9, <2>10 DEF Inv, LibsSafe, Stage
<1> QED
  BY <1>7, <1>8

(* Steps that touch no library.                                            *)
LEMMA KeysSame ==
  ASSUME UNCHANGED libs, tested' = tested
  PROVE  \A side : LoadedKey(side)' = LoadedKey(side)
BY DEF libs, tomvars, Lib, LoadedKey, OpenSSL!Loaded, MbedTLS!Loaded, GnuTLS!Loaded, Tomcrypt!Loaded

(* The bytes of a key file are read, and the key is not loaded.            *)
LEMMA InvReadCall == ASSUME Inv, ReadCall PROVE Inv'
<1>1. /\ AtCall("read") /\ NextCall /\ der' = files[Size][Current.on]
      /\ UNCHANGED <<libs, filevars, output, encrypted, sig>>
  BY DEF ReadCall
<1>2. LibsSafe /\ Files!TypeOK /\ OwnSize /\ BufferTypes /\ Stage /\ Places
  BY InvParts
<1>3. /\ Lib \in Usable /\ Size \in Sizes
      /\ block \in 1 .. 16 /\ call \in 1 .. Length(block)
      /\ Position(block, call, "read", Current.on)
  BY <1>1, <1>2, InCall
<1>4. block \in {13, 15} /\ Current.on \in Sides
  BY <1>3 DEF Position
<1>5. der' \in Keys \cup {Null} /\ (der' # Null => der'.bits = Size)
  <2>1. files \in [Sizes -> [Sides -> Keys \cup {Null}]]
    BY <1>2, OtherNames DEF Files!TypeOK
  <2> QED
    BY <1>1, <1>2, <1>3, <1>4, <2>1 DEF OwnSize
<1>6. BufferTypes' /\ Files!TypeOK' /\ OwnSize' /\ LibsSafe'
  BY <1>1, <1>2, <1>5, FileVarsKept, LibsKept DEF BufferTypes
<1>7. /\ tested' = tested /\ Lib' = Lib /\ Size' = Size
      /\ Follows(block, call, block', call')
      /\ BufferTypes' => Places'
  BY <1>1, <1>2, CallGoesOn
<1>8. \A side : LoadedKey(side)' = LoadedKey(side)
  BY <1>1, <1>7, KeysSame
<1>9. block' \in {14, 16}
  BY <1>3, <1>4, <1>7 DEF Follows, Loops, Length
<1>10. KeysLoaded
  BY <1>1, <1>2 DEF Stage, AtCall
<1>11. KeysLoaded'
  BY <1>4, <1>7, <1>8, <1>10 DEF KeysLoaded, HasKey
<1>12. ContextsMade' /\ PaddingLeft' /\ OnePair'
  BY <1>9 DEF ContextsMade, PaddingLeft, OnePair, HasContext, HasPadding, Paired
<1>13. BuffersFit'
  BY <1>5, <1>7, <1>9 DEF BuffersFit
<1> QED
  BY <1>6, <1>7, <1>11, <1>12, <1>13 DEF Inv, LibsSafe, Stage

(* A timed loop is left; the last one ends run_rsa().                      *)
LEMMA InvLeaveLoop == ASSUME Inv, LeaveLoop PROVE Inv'
<1>1. LibsSafe /\ Files!TypeOK /\ OwnSize /\ BufferTypes /\ Stage /\ Places
  BY InvParts
<1>2. phase = "rsa" /\ call = 1 /\ EnterBlock(block + 1) /\ UNCHANGED <<libs, filevars>> /\ Script[block].loop
  BY DEF LeaveLoop
<1>3. block \in Loops /\ block \in 1 .. 16 /\ Len(Script) = 16
  BY <1>1, <1>2, LengthsAre DEF Places
<1>4. LibsSafe' /\ Files!TypeOK' /\ OwnSize'
  BY <1>1, <1>2, LibsKept, FileVarsKept
<1>5. BufferTypes'
  BY <1>1, <1>2 DEF LeaveLoop, buffers, BufferTypes
<1>6. CASE block # 16
  <2>1. UNCHANGED buffers
    BY <1>3, <1>6 DEF LeaveLoop
  <2>2. block' = block + 1 /\ call' = 1 /\ UNCHANGED <<phase, tested, sizes>>
    BY <1>2, <1>3, <1>6 DEF EnterBlock
  <2>3. Len(Script[block'].calls) = Length(block') /\ Length(block') \in Nat \ {0} /\ block' \in 1 .. 16
    <3>1. block' \in 1 .. 16
      BY <1>3, <1>6, <2>2
    <3>2. \A b : Length(b) \in Nat \ {0}
      BY DEF Length
    <3> QED
      BY <3>1, <3>2, LengthsAre
  <2>4. Places'
    BY <1>1, <1>2, <1>5, <2>2, <2>3 DEF Places, BufferTypes, Usable, HasRsa, Tomcrypt!rsa_available
  <2>5. \A side : LoadedKey(side)' = LoadedKey(side)
    BY <1>2, <2>2, KeysSame
  <2>6. KeysLoaded /\ ContextsMade /\ PaddingLeft /\ OnePair /\ BuffersFit
    BY <1>1, <1>2 DEF Stage
  <2>7. \/ block \in {4, 5, 6, 7, 9, 10, 11, 12} /\ block' \in {5, 6, 7, 8, 10, 11, 12, 13}
        \/ block = 14 /\ block' = 15
    <3>1. block \in {4, 5, 6, 7, 9, 10, 11, 12} \/ block = 14
      BY <1>3, <1>6 DEF Loops
    <3>2. block' = block + 1 /\ block \in Int
      BY <1>3, <2>2
    <3>3. block \in {4, 5, 6, 7, 9, 10, 11, 12} => block' \in {5, 6, 7, 8, 10, 11, 12, 13}
      BY <3>2
    <3> QED
      BY <3>1, <3>2, <3>3
  <2>8. KeysLoaded'
    BY <2>2, <2>5, <2>6, <2>7 DEF KeysLoaded, HasKey, Size
  <2>9. ContextsMade' /\ PaddingLeft' /\ OnePair'
    BY <1>2, <2>2, <2>5, <2>6, <2>7 DEF ContextsMade, PaddingLeft, OnePair, HasContext, HasPadding, Paired, Lib, libs
  <2>10. BuffersFit'
    BY <1>3, <1>6, <2>1, <2>2, <2>5, <2>6 DEF BuffersFit, Encrypted, Signed, buffers, Lib, Loops
  <2> QED
    BY <1>4, <2>4, <2>8, <2>9, <2>10 DEF Inv, LibsSafe, Stage
<1>7. CASE block = 16
  <2>1. /\ block' = 1 /\ call' = 1
        /\ IF Len(sizes) > 1
             THEN sizes' = Tail(sizes) /\ UNCHANGED <<phase, tested>>
             ELSE /\ sizes' = SizeOrder
                  /\ tested' = Tail(tested)
                  /\ phase' = IF Len(tested) = 1 THEN "destroy" ELSE phase
    BY <1>2, <1>3, <1>7 DEF EnterBlock
  <2>2. tested \in Seq(Usable) /\ tested # <<>> /\ sizes \in Seq(Sizes) /\ sizes # <<>>
    BY <1>1, <1>2 DEF Places
  <2>3. sizes' \in Seq(Sizes) /\ sizes' # <<>>
    <3>1. CASE Len(sizes) > 1
      <4>1. sizes' = Tail(sizes)
        BY <2>1, <3>1
      <4>2. Tail(sizes) \in Seq(Sizes) /\ Len(Tail(sizes)) = Len(sizes) - 1 /\ Len(sizes) \in Nat
        BY <2>2
      <4> QED
        BY <3>1, <4>1, <4>2
    <3>2. CASE ~ (Len(sizes) > 1)
      BY <2>1, <3>2, RsaAssumption
    <3> QED
      BY <3>1, <3>2
  <2>4. tested' \in Seq(Usable) /\ (phase' = "rsa" => tested' # <<>>) /\ phase' \in {"rsa", "destroy"}
    <3>1. /\ Tail(tested) \in Seq(Usable) /\ Len(Tail(tested)) = Len(tested) - 1
          /\ Len(tested) \in Nat /\ Len(tested) # 0
      BY <2>2
    <3>2. Len(tested) # 1 => Tail(tested) # <<>>
      <4>1. Len(<<>>) = 0
        OBVIOUS
      <4> DEFINE rest == Tail(tested)
      <4>2. Len(rest) = Len(tested) - 1 /\ Len(tested) \in Nat
        BY <3>1
      <4> HIDE DEF rest
      <4>3. Len(tested) # 1 => Len(rest) # 0
        BY <4>2
      <4>4. Len(tested) # 1 => rest # <<>>
        BY <4>1, <4>3
      <4> QED
        BY <4>4 DEF rest
    <3>3. \/ phase' = "rsa" /\ tested' = tested
          \/ phase' = "destroy" /\ tested' = Tail(tested)
          \/ phase' = "rsa" /\ tested' = Tail(tested) /\ Len(tested) # 1
      BY <1>2, <2>1
    <3> QED
      BY <2>2, <3>1, <3>2, <3>3
  <2>5. Len(Script[1].calls) = 2
    BY LengthsAre DEF Length
  <2>6. Places'
    BY <1>5, <2>1, <2>3, <2>4, <2>5 DEF Places, BufferTypes, Usable, HasRsa, Tomcrypt!rsa_available
  <2>7. Stage'
    BY <2>1 DEF Stage, KeysLoaded, ContextsMade, PaddingLeft, OnePair, BuffersFit, HasKey, HasContext, HasPadding, Paired, InitAt
  <2> QED
    BY <1>4, <2>6, <2>7 DEF Inv, LibsSafe
<1> QED
  BY <1>6, <1>7

-----------------------------------------------------------------------------
(* The steps outside run_rsa(). *)

(* Steps outside run_rsa() leave its position alone.                       *)
LEMMA PlacesKept ==
  ASSUME Places, UNCHANGED <<position, buffers>>
  PROVE  Places'
BY DEF Places, position, buffers, Usable, HasRsa, Tomcrypt!rsa_available

(* Steps outside run_rsa() leave what it has loaded alone.                 *)
LEMMA StageKept ==
  ASSUME Stage, UNCHANGED <<libs, position, buffers>>
  PROVE  Stage'
<1>1. \A side : LoadedKey(side)' = LoadedKey(side)
  BY KeysSame DEF position
<1> QED
  BY <1>1 DEF Stage, KeysLoaded, ContextsMade, PaddingLeft, OnePair, BuffersFit, Encrypted, Signed,
              Lib, Size, libs, position, buffers

(* A step of a generator of keys, of this program or another one.          *)
LEMMA InvWriteFile ==
  ASSUME Inv, NEW g \in {Self, Other}, Files!WriteFile(g), UNCHANGED <<libs, position, buffers>>
  PROVE  Inv'
<1>1. LibsSafe /\ Files!TypeOK /\ OwnSize /\ BufferTypes /\ Stage /\ Places
  BY InvParts
<1>2. LibsSafe' /\ Files!TypeOK' /\ OwnSize' /\ Places' /\ Stage'
  BY <1>1, LibsKept, FilesKept, PlacesKept, StageKept
<1> QED
  BY <1>2 DEF Inv, LibsSafe

(* run_rsa() starts on a library and a size.                               *)
LEMMA InvStartRsa == ASSUME Inv, StartRsa PROVE Inv'
<1>1. LibsSafe /\ Files!TypeOK /\ OwnSize /\ BufferTypes /\ Stage /\ Places
  BY InvParts
<1>2. /\ phase = "generate" /\ phase' = (IF tested = <<>> THEN "destroy" ELSE "rsa")
      /\ UNCHANGED <<libs, filevars, tested, sizes, block, call, buffers>>
  BY DEF StartRsa
<1>3. LibsSafe' /\ Files!TypeOK' /\ OwnSize'
  BY <1>1, <1>2, LibsKept, FileVarsKept
<1>4. block' = 1 /\ call' = 1
  BY <1>1, <1>2 DEF Places
<1>5. Places'
  BY <1>1, <1>2, <1>4 DEF Places, buffers, Usable, HasRsa, Tomcrypt!rsa_available
<1>6. Stage'
  BY <1>4 DEF Stage, KeysLoaded, ContextsMade, PaddingLeft, OnePair, BuffersFit, HasKey, HasContext, HasPadding, Paired, InitAt
<1> QED
  BY <1>3, <1>5, <1>6 DEF Inv, LibsSafe

(* A call of a library fails, which ends the program.                      *)
LEMMA InvLibraryFails == ASSUME Inv, LibraryFails PROVE Inv'
<1>1. LibsSafe /\ Files!TypeOK /\ OwnSize /\ BufferTypes /\ Stage /\ Places
  BY InvParts
<1>2. Fatal /\ UNCHANGED <<libs, filevars, buffers>>
  BY DEF LibraryFails
<1>3. LibsSafe' /\ Files!TypeOK' /\ OwnSize' /\ BufferTypes'
  BY <1>1, <1>2, LibsKept, FileVarsKept DEF BufferTypes, buffers
<1> QED
  BY <1>1, <1>2, <1>3, FatalCall

(* A destructor frees its keys, with their own backend.                    *)
LEMMA DestroyTomcrypt ==
  ASSUME Tomcrypt!TypeOK, OwnBackend, NEW t \in Instances, Tomcrypt!Destroy(t)
  PROVE  Tomcrypt!TypeOK' /\ OwnBackend'
<1> DEFINE backends == {MathDesc[u] : u \in Instances} \cup {Null}
           none == [s \in Sides |-> Null]
<1>1. /\ tomcrypt \in [Instances -> [Sides -> [key : Keys, mp : backends] \cup {Null}]]
      /\ ltc_mp \in backends /\ mixed = FALSE
      /\ \A u \in Instances, s \in Sides :
           tomcrypt[u][s] # Null => MathDesc[u] # Null /\ tomcrypt[u][s].mp = MathDesc[u]
  BY OtherNames DEF Tomcrypt!TypeOK, OwnBackend
<1>2. tomcrypt' = [tomcrypt EXCEPT ![t] = none]
  BY OtherNames DEF Tomcrypt!Destroy
<1>3. ltc_mp' \in backends /\ mixed' = FALSE
  <2>1. CASE MathDesc[t] # Null
    <3>1. Tomcrypt!Touch(t)
      BY <2>1 DEF Tomcrypt!Destroy
    <3> QED
      BY <3>1, TouchIs
  <2>2. CASE MathDesc[t] = Null
    <3>1. UNCHANGED <<ltc_mp, mixed>>
      BY <2>2 DEF Tomcrypt!Destroy
    <3> QED
      BY <1>1, <3>1
  <2> QED
    BY <2>1, <2>2
<1>4. none \in [Sides -> [key : Keys, mp : backends] \cup {Null}] /\ \A s \in Sides : none[s] = Null
  OBVIOUS
<1> HIDE DEF none, backends
<1>5. /\ tomcrypt' \in [Instances -> [Sides -> [key : Keys, mp : backends] \cup {Null}]]
      /\ \A u \in Instances : tomcrypt'[u] = IF u = t THEN none ELSE tomcrypt[u]
  BY <1>1, <1>2, <1>4
<1>6. Tomcrypt!TypeOK'
  BY <1>3, <1>5, OtherNames DEF Tomcrypt!TypeOK, backends
<1>7. OwnBackend'
  BY <1>1, <1>3, <1>4, <1>5 DEF OwnBackend
<1> QED
  BY <1>6, <1>7

(* The libraries are destroyed in turn.                                    *)
LEMMA InvDestroyNext == ASSUME Inv, DestroyNext PROVE Inv'
<1>1. LibsSafe /\ Files!TypeOK /\ OwnSize /\ BufferTypes /\ Stage /\ Places
  BY InvParts
<1>2. /\ phase = "destroy" /\ DestroyObject(Destructors[block])
      /\ IF block < Len(Destructors)
           THEN block' = block + 1 /\ UNCHANGED phase
           ELSE block' = 1 /\ phase' = "done"
      /\ UNCHANGED <<tested, sizes, call, filevars, buffers>>
  BY DEF DestroyNext
<1>3. block \in 1 .. 5 /\ call = 1 /\ Len(Destructors) = 5
  BY <1>1, <1>2 DEF Places, Destructors
<1>4. Destructors[block] \in {"tomcrypt_gmp", "tomcrypt", "gnutls", "mbedtls", "openssl"}
  BY <1>3 DEF Destructors
<1>5. LibsSafe'
  <2>1. CASE Destructors[block] = "openssl"
    <3>1. OpenSSL!Destroy /\ UNCHANGED <<mbedtls, gnutls, tomvars>>
      BY <1>2, <2>1 DEF DestroyObject
    <3> QED
      BY <1>1, <3>1, DestroyOpenssl, MbedtlsKept, GnutlsKept, TomcryptKept DEF LibsSafe, LibTypes
  <2>2. CASE Destructors[block] = "mbedtls"
    <3>1. MbedTLS!Destroy /\ UNCHANGED <<openssl, gnutls, tomvars>>
      BY <1>2, <2>2 DEF DestroyObject
    <3>2. MbedTLS!TypeOK'
      BY <3>1 DEF MbedTLS!Destroy, MbedTLS!TypeOK
    <3> QED
      BY <1>1, <3>1, <3>2, OpensslKept, GnutlsKept, TomcryptKept DEF LibsSafe, LibTypes
  <2>3. CASE Destructors[block] = "gnutls"
    <3>1. GnuTLS!Destroy /\ UNCHANGED <<openssl, mbedtls, tomvars>>
      BY <1>2, <2>3 DEF DestroyObject
    <3>2. GnuTLS!TypeOK'
      BY <3>1 DEF GnuTLS!Destroy, GnuTLS!TypeOK
    <3> QED
      BY <1>1, <3>1, <3>2, OpensslKept, MbedtlsKept, TomcryptKept DEF LibsSafe, LibTypes
  <2>4. CASE Destructors[block] \in {"tomcrypt", "tomcrypt_gmp"}
    <3>1. PICK t \in Instances : t = Destructors[block]
      BY <2>4, RsaAssumption
    <3>2. Tomcrypt!Destroy(t) /\ UNCHANGED <<openssl, mbedtls, gnutls>>
      BY <1>2, <2>4, <3>1 DEF DestroyObject
    <3> QED
      BY <1>1, <3>2, DestroyTomcrypt, OpensslKept, MbedtlsKept, GnutlsKept DEF LibsSafe, LibTypes
  <2> QED
    BY <1>4, <2>1, <2>2, <2>3, <2>4
<1>6. Files!TypeOK' /\ OwnSize'
  BY <1>1, <1>2, FileVarsKept
<1>7. Places'
  <2>1. \A b \in 1 .. 16 : Len(Script[b].calls) \in Nat \ {0}
    <3>1. \A b : Length(b) \in Nat \ {0}
      BY DEF Length
    <3> QED
      BY <3>1, LengthsAre
  <2>2. phase' \in {"destroy", "done"} /\ block' \in 1 .. 5 /\ call' = 1
    BY <1>2, <1>3
  <2>3. block' \in 1 .. 16 /\ call' \in 1 .. Len(Script[block'].calls)
    <3>1. block' \in 1 .. 16
      BY <2>2
    <3>2. Len(Script[block'].calls) \in Nat \ {0}
      BY <2>1, <3>1
    <3> QED
      BY <2>2, <3>1, <3>2
  <2> QED
    BY <1>1, <1>2, <2>2, <2>3 DEF Places, buffers, Usable, HasRsa, Tomcrypt!rsa_available
<1>8. Stage'
  BY <1>2 DEF Stage
<1> QED
  BY <1>5, <1>6, <1>7, <1>8 DEF Inv, LibsSafe

(* Each step keeps the invariant.                                          *)
LEMMA InvNext == Inv /\ [Next]_vars => Inv'
<1> SUFFICES ASSUME Inv, [Next]_vars
             PROVE  Inv'
  OBVIOUS
<1>1. CASE Generate
  BY <1>1, InvWriteFile DEF Generate
<1>2. CASE StartRsa
  BY <1>2, InvStartRsa
<1>3. CASE OtherProcess
  BY <1>3, InvWriteFile DEF OtherProcess
<1>4. CASE LoadFile
  BY <1>4, InvLoadFile
<1>5. CASE CheckKeys
  BY <1>5, InvCheckKeys
<1>6. CASE InitCall
  BY <1>6, InvInitCall
<1>7. CASE TestCall
  BY <1>7, InvTestCall
<1>8. CASE RefuseCall
  BY <1>8, InvRefuseCall
<1>9. CASE KeepCall
  BY <1>9, InvKeepCall
<1>10. CASE TimedCall
  BY <1>10, InvTimedCall
<1>11. CASE ReadCall
  BY <1>11, InvReadCall
<1>12. CASE ReloadCall
  BY <1>12, InvReloadCall
<1>13. CASE LeaveLoop
  BY <1>13, InvLeaveLoop
<1>14. CASE LibraryFails
  BY <1>14, InvLibraryFails
<1>15. CASE DestroyNext
  BY <1>15, InvDestroyNext
<1>16. CASE UNCHANGED vars
  <2>1. LibsSafe /\ Files!TypeOK /\ OwnSize /\ BufferTypes /\ Stage /\ Places
    BY InvParts
  <2>2. UNCHANGED <<libs, filevars, position, buffers>>
    BY <1>16 DEF vars
  <2>3. LibsSafe' /\ Files!TypeOK' /\ OwnSize' /\ Places' /\ Stage'
    BY <2>1, <2>2, LibsKept, FileVarsKept, PlacesKept, StageKept
  <2> QED
    BY <2>3 DEF Inv, LibsSafe
<1> QED
  BY <1>1, <1>2, <1>3, <1>4, <1>5, <1>6, <1>7, <1>8, <1>9, <1>10, <1>11, <1>12, <1>13, <1>14, <1>15, <1>16 DEF Next

(* The invariant holds.                                                    *)
LEMMA InvHolds == Spec => []Inv
BY InvInit, InvNext, PTL DEF Spec

-----------------------------------------------------------------------------
(* What the runs check. *)

(* Every variable keeps its type, whatever the selection of libraries.     *)
THEOREM TypeCorrect == Spec => []TypeOK
<1>1. Inv => TypeOK
  <2> SUFFICES ASSUME Inv
               PROVE  TypeOK
    OBVIOUS
  <2>1. \A b \in 1 .. 16 : Len(Script[b].calls) \in 1 .. 10
    <3>1. \A b : Length(b) \in 1 .. 10
      BY DEF Length
    <3> QED
      BY <3>1, LengthsAre
  <2>2. Len(Script) = 16
    BY LengthsAre
  <2>3. block \in 1 .. 16 /\ call \in 1 .. Len(Script[block].calls)
    BY DEF Inv, Places
  <2>4. Len(Script[block].calls) \in 1 .. 10
    BY <2>1, <2>3
  <2>5. call \in 1 .. 10
    <3>1. PICK n : n = Len(Script[block].calls)
      OBVIOUS
    <3>2. call \in 1 .. n /\ n \in 1 .. 10
      BY <2>3, <2>4, <3>1
    <3> QED
      BY <3>2
  <2> QED
    BY <2>2, <2>3, <2>5 DEF Inv, LibTypes, Places, TypeOK
<1> QED
  BY <1>1, InvHolds, PTL

(* No EVP_PKEY of lib_openssl.cpp is leaked or used after it was freed.    *)
THEOREM NoLeak == Spec => []NoKeyLeak
<1>1. Inv => NoKeyLeak
  BY DEF Inv
<1> QED
  BY <1>1, InvHolds, PTL

(* The two objects of class lib_tomcrypt take turns on ltc_mp, and no key  *)
(* ever meets the backend of the other object.                             *)
THEOREM BackendsDoNotMix == Spec => []BackendMatches
<1>1. Inv => BackendMatches
  BY DEF Inv, OwnBackend, BackendMatches, Tomcrypt!BackendMatches
<1> QED
  BY <1>1, InvHolds, PTL

(* Every operation works with the key that was loaded last, of the size    *)
(* under which its result is reported.                                     *)
THEOREM ContextsAreFresh == Spec => []FreshContexts
<1>1. Inv => FreshContexts
  <2> SUFFICES ASSUME Inv, NEW act \in Acts, AtCall(act)
               PROVE  /\ UseOf(Current.on).key = LoadedKey(SideOf(Current.on))
                      /\ UseOf(Current.on).key.bits = Size
    BY DEF FreshContexts, UsesKey, Acts
  <2>1. UseOf(Current.on).key = LoadedKey(SideOf(Current.on))
    BY OperationUse
  <2>2. LoadedKey(SideOf(Current.on)).bits = Size
    BY OperationCall
  <2> QED
    BY <2>1, <2>2
<1> QED
  BY <1>1, InvHolds, PTL

(* The timed decryptions and verifications get a ciphertext and a          *)
(* signature that fit their key and padding, although another run of the   *)
(* program may have replaced one of the two key files in between.          *)
THEOREM InputsMatch == Spec => []TimedInputsMatch
<1>1. Inv => TimedInputsMatch
  <2> SUFFICES ASSUME Inv, AtCall("time")
               PROVE  TimedAccepts(Current.on)
    BY DEF TimedInputsMatch
  <2> DEFINE op == Current.on
  <2>0. "time" \in Acts
    BY DEF Acts
  <2>1. Position(block, call, "time", op) /\ op \in Operations
    BY <2>0, OperationCall
  <2>2. /\ op = "decrypt" => UseOf(op) = Encrypted(LoadedKey("private"))
        /\ op = "verify" => UseOf(op) = Signed(LoadedKey("public"))
    BY <2>0, OperationUse, SameNames
  <2>3. OnePair /\ BuffersFit
    BY InvParts DEF Stage, AtCall
  <2> HIDE DEF op
  <2>4. CASE op = "decrypt"
    <3>1. block \in {5, 7}
      BY <2>1, <2>4 DEF Position
    <3>2. encrypted = UseOf(op)
      BY <2>2, <2>3, <2>4, <3>1 DEF OnePair, Paired, BuffersFit
    <3> QED
      BY <2>4, <3>2 DEF TimedAccepts, Accepts, op
  <2>5. CASE op = "verify"
    <3>1. block \in {10, 12}
      BY <2>1, <2>5 DEF Position
    <3>2. sig = UseOf(op)
      BY <2>2, <2>3, <2>5, <3>1 DEF OnePair, Paired, BuffersFit
    <3> QED
      BY <2>5, <3>2 DEF TimedAccepts, Accepts, op
  <2>6. CASE op \notin {"decrypt", "verify"}
    BY <2>6 DEF TimedAccepts, op
  <2> QED
    BY <2>4, <2>5, <2>6
<1> QED
  BY <1>1, InvHolds, PTL

(* rsa_auto_test() accepts the two halves of one key pair: what one test   *)
(* leaves in the library does not disturb the next one.                    *)
THEOREM OnePairPasses == Spec => []AutoTestComplete
<1>1. Inv => AutoTestComplete
  <2> SUFFICES ASSUME Inv, AtCall("test"), LoadedKey("private") = LoadedKey("public")
               PROVE  TestPasses(Current.on)
    BY DEF AutoTestComplete
  <2> DEFINE op == Current.on
  <2>0. "test" \in Acts
    BY DEF Acts
  <2>1. Position(block, call, "test", op) /\ op \in Operations /\ Lib \in Usable
    BY <2>0, OperationCall
  <2>2. /\ UseOf(op).key = LoadedKey(SideOf(op)) /\ SideOf(op) \in Sides
        /\ op = "decrypt" => UseOf(op) = Encrypted(LoadedKey("private"))
        /\ op = "verify" => UseOf(op) = Signed(LoadedKey("public"))
    BY <2>0, OperationUse, OperationCall, SameNames
  <2>3. \A side \in Sides : LoadedKey(side) \in Keys /\ LoadedKey(side).bits = Size
    BY <2>0, OperationCall
  <2>4. BuffersFit
    BY InvParts DEF Stage, AtCall
  <2> HIDE DEF op
  <2>5. CASE op \in {"encrypt", "sign"}
    <3>1. KeyBits("public") = Size
      BY <2>1, <2>3, BitsAre DEF Sides
    <3> QED
      BY <2>2, <2>3, <2>5, <3>1 DEF TestPasses, op
  <2>6. CASE op = "decrypt"
    <3>1. block = 2 /\ call = 5
      BY <2>1, <2>6 DEF Position, InitAt
    <3>2. output = UseOf(op)
      BY <2>2, <2>4, <2>6, <3>1 DEF BuffersFit
    <3> QED
      BY <2>6, <3>2 DEF TestPasses, Accepts, op
  <2>7. CASE op = "verify"
    <3>1. block = 2 /\ call = 9
      BY <2>1, <2>7 DEF Position, InitAt
    <3>2. output = UseOf(op)
      BY <2>2, <2>4, <2>7, <3>1 DEF BuffersFit
    <3> QED
      BY <2>7, <3>2 DEF TestPasses, Accepts, op
  <2> QED
    BY <2>1, <2>5, <2>6, <2>7 DEF Operations
<1> QED
  BY <1>1, InvHolds, PTL

=============================================================================
