-------------------------- MODULE CryptoBenchProofs --------------------------
(***************************************************************************)
(* Proofs about the program as a whole, for any command line, any list of  *)
(* libraries and whatever they have: the arguments mean what the set of    *)
(* them means, and decide alone which benchmarks are run.                  *)
(***************************************************************************)
EXTENDS CryptoBench, FiniteSetTheorems, WellFoundedInduction, TLAPS

(* A set of naturals has a least element, unless it is empty.              *)
LEMMA LeastNat ==
  ASSUME NEW T, T \subseteq Nat, T # {}
  PROVE  \E x \in T : \A y \in T : x <= y
<1>1. IsWellFoundedOn(OpToRel(<, Nat), Nat)
  BY NatLessThanWellFounded
<1> DEFINE R == {ss \in Nat \X Nat : ss[1] < ss[2]}
<1>2. OpToRel(<, Nat) = R
  BY DEF OpToRel
<1>3. IsWellFoundedOn(R, Nat)
  BY <1>1, <1>2
<1>4. \E x \in T : \A y \in T : ~ (<<y, x>> \in R)
  <2> HIDE DEF R
  <2> QED
    BY <1>3, WFMin
<1>5. \A x, y \in Nat : <<y, x>> \notin R => x <= y
  OBVIOUS
<1> QED
  BY <1>4, <1>5

-----------------------------------------------------------------------------
(* Only: the elements of a list which are in a set. *)

(* Its recursion, up to the first m elements.                              *)
KeptAt(list, S, f, n) ==
  IF n = 0 THEN <<>> ELSE IF list[n] \in S THEN Append(f[n - 1], list[n]) ELSE f[n - 1]
Kept(list, S, m, f) == f = [n \in 0 .. m |-> KeptAt(list, S, f, n)]

(* There is such a function: one for m - 1 is extended to m.               *)
LEMMA KeptExists ==
  ASSUME NEW list, NEW S
  PROVE  \A m \in Nat : \E f : Kept(list, S, m, f)
<1> DEFINE Bad == {m \in Nat : ~ \E f : Kept(list, S, m, f)}
<1> SUFFICES ASSUME Bad # {}
             PROVE  FALSE
  OBVIOUS
<1>1. PICK m \in Bad : \A y \in Bad : m <= y
  BY LeastNat
<1>2. m \in Nat /\ ~ \E f : Kept(list, S, m, f)
  OBVIOUS
<1>3. CASE m = 0
  <2>1. Kept(list, S, 0, [n \in 0 .. 0 |-> <<>>])
    BY DEF Kept, KeptAt
  <2> QED
    BY <1>2, <1>3, <2>1
<1>4. CASE m # 0
  <2>1. PICK f : Kept(list, S, m - 1, f)
    BY <1>1, <1>2, <1>4
  <2> DEFINE last == IF list[m] \in S THEN Append(f[m - 1], list[m]) ELSE f[m - 1]
             g == [n \in 0 .. m |-> IF n = m THEN last ELSE f[n]]
  <2>2. ASSUME NEW n \in 0 .. m
        PROVE  g[n] = KeptAt(list, S, g, n)
    <3>1. CASE n = m
      <4>1. g[n] = last /\ g[n - 1] = f[n - 1]
        BY <1>2, <1>4, <3>1
      <4> QED
        BY <1>2, <1>4, <3>1, <4>1 DEF KeptAt
    <3>2. CASE n # m
      <4>1. f[n] = KeptAt(list, S, f, n)
        BY <1>2, <1>4, <2>1, <3>2 DEF Kept
      <4>2. g[n] = f[n] /\ (n # 0 => g[n - 1] = f[n - 1])
        BY <1>2, <1>4, <3>2
      <4> QED
        BY <4>1, <4>2 DEF KeptAt
    <3> QED
      BY <3>1, <3>2
  <2>3. g = [n \in 0 .. m |-> KeptAt(list, S, g, n)]
    <3>1. g = [n \in 0 .. m |-> g[n]]
      OBVIOUS
    <3> HIDE DEF g
    <3> QED
      BY <2>2, <3>1
  <2>4. Kept(list, S, m, g)
    BY <2>3, Zenon DEF Kept
  <2> QED
    BY <1>2, <2>4
<1> QED
  BY <1>3, <1>4

(* Elements and Distinct(l): what a list has, and that it has it once.     *)
Elements(l) == {l[n] : n \in 1 .. Len(l)}
Distinct(l) == \A m, n \in 1 .. Len(l) : l[m] = l[n] => m = n

(* A list without repetition keeps its elements that are in S, once each.  *)
LEMMA OnlyIs ==
  ASSUME NEW T, NEW list \in Seq(T), NEW S, Distinct(list)
  PROVE  /\ Only(list, S) \in Seq(T) /\ Distinct(Only(list, S))
         /\ Elements(Only(list, S)) = Elements(list) \cap S
<1> DEFINE N == Len(list)
           f == CHOOSE g : Kept(list, S, N, g)
           First(n) == {list[k] : k \in 1 .. n}
           Good(n) == f[n] \in Seq(T) /\ Distinct(f[n]) /\ Elements(f[n]) = First(n) \cap S
           Bad == {n \in 0 .. N : ~ Good(n)}
<1>1. N \in Nat /\ \A n \in 1 .. N : list[n] \in T
  OBVIOUS
<1>2. Only(list, S) = f[N]
  BY Zenon DEF Only, Kept, KeptAt
<1>3. Kept(list, S, N, f)
  BY <1>1, KeptExists
<1> HIDE DEF f
<1>4. \A n \in 0 .. N : f[n] = KeptAt(list, S, f, n)
  BY <1>3 DEF Kept
<1>5. \A n \in 1 .. N : list[n] \notin First(n - 1) /\ First(n) = First(n - 1) \cup {list[n]}
  BY <1>1 DEF Distinct
<1>6. First(0) = {}
  OBVIOUS
<1>7. First(N) = Elements(list)
  BY DEF Elements
<1> HIDE DEF N, First
<1>8. ASSUME Bad # {}
      PROVE  FALSE
  <2>0. Bad \subseteq Nat
    BY <1>1
  <2>1. PICK n \in Bad : \A y \in Bad : n <= y
    BY <1>8, <2>0, LeastNat
  <2>2. n \in 0 .. N /\ ~ Good(n) /\ f[n] = KeptAt(list, S, f, n)
    BY <1>4
  <2>3. CASE n = 0
    <3>1. f[n] = <<>>
      BY <2>2, <2>3 DEF KeptAt
    <3>2. <<>> \in Seq(T) /\ Distinct(<<>>) /\ Elements(<<>>) = {}
      BY DEF Distinct, Elements
    <3>3. First(n) \cap S = {}
      BY <1>6, <2>3
    <3>4. Good(n)
      BY <3>1, <3>2, <3>3
    <3> QED
      BY <2>2, <3>4
  <2>4. CASE n # 0
    <3>1. n \in 1 .. N /\ Good(n - 1)
      BY <1>1, <2>1, <2>2, <2>4
    <3>2. PICK p : p = f[n - 1]
      OBVIOUS
    <3>3. p \in Seq(T) /\ Distinct(p) /\ Elements(p) = First(n - 1) \cap S
      BY <3>1, <3>2
    <3>4. CASE list[n] \in S
      <4>1. f[n] = Append(p, list[n])
        BY <2>2, <2>4, <3>2, <3>4 DEF KeptAt
      <4>2. list[n] \in T /\ list[n] \notin Elements(p)
        BY <1>1, <1>5, <3>1, <3>3
      <4> DEFINE e == list[n]
      <4>3. PICK q : q = Append(p, e)
        OBVIOUS
      <4>4. /\ q \in Seq(T) /\ Len(q) = Len(p) + 1 /\ Len(p) \in Nat /\ q[Len(p) + 1] = e
            /\ \A k \in 1 .. Len(p) : q[k] = p[k]
        BY <3>3, <4>2, <4>3
      <4> HIDE DEF e
      <4>5. Distinct(q)
        BY <3>3, <4>2, <4>4 DEF Distinct, Elements, e
      <4>6. Elements(q) = Elements(p) \cup {e}
        BY <4>4 DEF Elements
      <4>7. Good(n)
        BY <1>5, <3>1, <3>3, <3>4, <4>1, <4>3, <4>4, <4>5, <4>6 DEF e
      <4> QED
        BY <2>2, <4>7
    <3>5. CASE list[n] \notin S
      <4>1. f[n] = p
        BY <2>2, <2>4, <3>2, <3>5 DEF KeptAt
      <4> QED
        BY <1>5, <2>2, <3>1, <3>3, <3>5, <4>1
    <3> QED
      BY <3>4, <3>5
  <2> QED
    BY <2>3, <2>4
<1>9. Good(N)
  BY <1>1, <1>8
<1> QED
  BY <1>2, <1>7, <1>9

-----------------------------------------------------------------------------
(* The command line. *)

(* The recursion of IsValue over an argument list.                         *)
ValueRule(a, f) == f = [p \in 1 .. Len(a) |-> p > 1 /\ a[p - 1] \in Numeric /\ ~ f[p - 1]]

(* A word is a value when it follows an option with a value and when that  *)
(* option is not a value itself: decided from the left, for any list.      *)
LEMMA ValuesExist ==
  ASSUME NEW a
  PROVE  \A m \in Nat : \E f : f = [p \in 1 .. m |-> p > 1 /\ a[p - 1] \in Numeric /\ ~ f[p - 1]]
<1> DEFINE At(f, p) == p > 1 /\ a[p - 1] \in Numeric /\ ~ f[p - 1]
           Bad == {m \in Nat : ~ \E f : f = [p \in 1 .. m |-> At(f, p)]}
<1>0. SUFFICES ASSUME Bad # {}
               PROVE  FALSE
  BY Zenon
<1>1. PICK m \in Bad : \A y \in Bad : m <= y
  BY <1>0, LeastNat
<1>2. m \in Nat /\ ~ \E f : f = [p \in 1 .. m |-> At(f, p)]
  OBVIOUS
<1> HIDE DEF At
<1>3. CASE m = 0
  <2> DEFINE g == [p \in 1 .. 0 |-> FALSE]
  <2>1. g = [p \in 1 .. 0 |-> At(g, p)]
    OBVIOUS
  <2> QED
    BY <1>2, <1>3, <2>1
<1>4. CASE m # 0
  <2>1. m - 1 \in Nat /\ m - 1 \notin Bad
    BY <1>1, <1>2, <1>4
  <2>2. PICK f : f = [p \in 1 .. m - 1 |-> At(f, p)]
    BY <2>1
  <2> DEFINE g == [p \in 1 .. m |-> IF p = m THEN At(f, m) ELSE f[p]]
  <2>3. ASSUME NEW p \in 1 .. m
        PROVE  g[p] = At(g, p)
    <3>1. p > 1 => p - 1 \in 1 .. m /\ p - 1 # m /\ g[p - 1] = f[p - 1]
      BY <1>2
    <3>2. At(g, p) = At(f, p)
      <4>1. CASE p > 1
        BY <3>1, <4>1 DEF At
      <4>2. CASE ~ (p > 1)
        BY <4>2 DEF At
      <4> QED
        BY <4>1, <4>2
    <3>3. g[p] = At(f, p)
      <4>1. CASE p = m
        BY <4>1
      <4>2. CASE p # m
        <5>1. p \in 1 .. m - 1
          BY <1>2, <4>2
        <5>2. f[p] = At(f, p)
          BY <2>2, <5>1
        <5> QED
          BY <4>2, <5>2
      <4> QED
        BY <4>1, <4>2
    <3> QED
      BY <3>2, <3>3
  <2>4. g = [p \in 1 .. m |-> At(g, p)]
    <3>1. g = [p \in 1 .. m |-> g[p]]
      OBVIOUS
    <3> HIDE DEF g
    <3> QED
      BY <2>3, <3>1
  <2> QED
    BY <1>2, <2>4
<1> QED
  BY <1>3, <1>4

(* So IsValue obeys its recursion.                                         *)
LEMMA IsValueIs ==
  ASSUME argv \in Seq(Words)
  PROVE  \A p \in 1 .. Len(argv) :
           IsValue[p] <=> p > 1 /\ argv[p - 1] \in Numeric /\ ~ IsValue[p - 1]
<1> DEFINE f == CHOOSE f : ValueRule(argv, f)
<1>1. IsValue = f
  BY Zenon DEF IsValue, ValueRule
<1>2. Len(argv) \in Nat
  OBVIOUS
<1>3. \E g : ValueRule(argv, g)
  BY <1>2, ValuesExist DEF ValueRule
<1>4. ValueRule(argv, f)
  BY <1>3
<1> HIDE DEF f
<1>5. ASSUME NEW p \in 1 .. Len(argv)
      PROVE  f[p] <=> p > 1 /\ argv[p - 1] \in Numeric /\ ~ f[p - 1]
  <2>1. f[p] = (p > 1 /\ argv[p - 1] \in Numeric /\ ~ f[p - 1])
    BY <1>4 DEF ValueRule
  <2> QED
    BY <2>1
<1> QED
  BY <1>1, <1>5

(* What has been read when the word at position k is next, and what the    *)
(* last option n among it makes of its value.                              *)
Seen(k) == {argv[p] : p \in {q \in Positions : q < k}}
ValueAt(n, k, v) ==
  \/ v = "default" /\ \A p \in Positions : p < k => argv[p] # n
  \/ \E p \in Positions :
       /\ p < k /\ argv[p] = n
       /\ \A q \in Positions : q < k /\ argv[q] = n => q <= p
       /\ v = IF argv[p + 1] = "number" THEN "given" ELSE "zero"

(* The options o that reading the words before position k must have set.   *)
Meaning(k, o) ==
  /\ k > 1 /\ argv[k - 1] \in Numeric => IsValue[k - 1]
  /\ Seen(k) \cap {"help", "number", "other"} = {}
  /\ o.reference <=> "reference" \in Seen(k)
  /\ o.all_algos <=> Seen(k) \cap (Algos \cup {"reference"}) = {}
  /\ o.algos = Seen(k) \cap Algos
  /\ o.all_libs <=> Seen(k) \cap (Libs \cup {"reference"}) = {}
  /\ o.libs = Seen(k) \cap Libs
  /\ \A n \in Numeric : ValueAt(n, k, o.value[n])

Opts == [reference : BOOLEAN, all_algos : BOOLEAN, algos : SUBSET Algos,
         all_libs : BOOLEAN, libs : SUBSET Libs, value : [Numeric -> Values]]

OptionsInv ==
  /\ OptionsTypeOK
  /\ parsed = "no" => Meaning(i, opt)
  /\ OrderIrrelevant

(* The arguments do not change, nor does what they mean.                   *)
LEMMA SameArguments ==
  ASSUME argv' = argv, NEW k, NEW o
  PROVE  IsValue' = IsValue /\ Positions' = Positions /\ Seen(k)' = Seen(k)
         /\ Given' = Given /\ (Invalid' <=> Invalid) /\ (Meaning(k, o)' <=> Meaning(k, o))
         /\ \A n : ValueOf(n)' = ValueOf(n)
<1>1. IsValue' = IsValue
  BY Zenon DEF IsValue
<1>2. Positions' = Positions
  BY <1>1 DEF Positions
<1>3. Seen(k)' = Seen(k) /\ Given' = Given
  BY <1>2 DEF Seen, Given
<1>4. Invalid' <=> Invalid
  BY <1>2, <1>3 DEF Invalid
<1>5. \A n : ValueOf(n)' = ValueOf(n)
  BY <1>2, Zenon DEF ValueOf
<1>6. \A n, v : ValueAt(n, k, v)' <=> ValueAt(n, k, v)
  BY <1>2, Zenon DEF ValueAt
<1>7. Meaning(k, o)' <=> Meaning(k, o)
  BY <1>1, <1>3, <1>6 DEF Meaning
<1> QED
  BY <1>1, <1>2, <1>3, <1>4, <1>5, <1>7

(* The next word is an option of its own, never the value of another.      *)
LEMMA ArgIsGiven ==
  ASSUME argv \in Seq(Words), NEW k \in 1 .. Len(argv), NEW o, Meaning(k, o)
  PROVE  k \in Positions
<1>1. IsValue[k] <=> k > 1 /\ argv[k - 1] \in Numeric /\ ~ IsValue[k - 1]
  BY IsValueIs
<1> QED
  BY <1>1 DEF Positions, Meaning

(* What has been read, one word later and, after a value, two words later. *)
LEMMA SeenNext ==
  ASSUME argv \in Seq(Words), NEW k \in 1 .. Len(argv), k \in Positions
  PROVE  /\ Seen(k + 1) = Seen(k) \cup {argv[k]}
         /\ \A p \in Positions : p < k + 1 <=> p < k \/ p = k
         /\ argv[k] \in Numeric /\ k < Len(argv) =>
              /\ IsValue[k + 1] /\ Seen(k + 2) = Seen(k) \cup {argv[k]}
              /\ \A p \in Positions : p < k + 2 <=> p < k \/ p = k
<1>1. Len(argv) \in Nat /\ Positions \subseteq 1 .. Len(argv) /\ ~ IsValue[k]
  BY DEF Positions
<1>2. \A p \in Positions : p < k + 1 <=> p < k \/ p = k
  BY <1>1
<1>3. Seen(k + 1) = Seen(k) \cup {argv[k]}
  BY <1>2 DEF Seen
<1>4. ASSUME argv[k] \in Numeric, k < Len(argv)
      PROVE  /\ IsValue[k + 1] /\ Seen(k + 2) = Seen(k) \cup {argv[k]}
             /\ \A p \in Positions : p < k + 2 <=> p < k \/ p = k
  <2>1. k + 1 \in 1 .. Len(argv) /\ k + 1 > 1 /\ (k + 1) - 1 = k
    BY <1>1, <1>4
  <2>2. IsValue[k + 1]
    <3>1. IsValue[k + 1] <=> k + 1 > 1 /\ argv[(k + 1) - 1] \in Numeric /\ ~ IsValue[(k + 1) - 1]
      BY <2>1, IsValueIs
    <3> QED
      BY <1>1, <1>4, <2>1, <3>1
  <2>3. k + 1 \notin Positions
    BY <2>2 DEF Positions
  <2>4. \A p \in Positions : p < k + 2 <=> p < k \/ p = k
    BY <1>1, <2>3
  <2>5. Seen(k + 2) = Seen(k) \cup {argv[k]}
    BY <2>4 DEF Seen
  <2> QED
    BY <2>2, <2>4, <2>5
<1> QED
  BY <1>2, <1>3, <1>4

(* The words of each kind: none is of two kinds.                           *)
LEMMA Kinds ==
  /\ Libs \cap Algos = {} /\ Libs \cap Numeric = {} /\ "reference" \notin Libs
  /\ Libs \cap {"help", "number", "other"} = {} /\ "reference" \notin Algos
  /\ Numeric \cap (Algos \cup {"reference", "help", "number", "other"}) = {}
  /\ Algos \cap {"help", "number", "other"} = {}
BY OptionsAssumption DEF Algos, Numeric

(* Reading the word at position k, an option n with a value: the word      *)
(* after it decides its value, whatever was given before.                  *)
LEMMA ValueRead ==
  ASSUME argv \in Seq(Words), NEW k \in 1 .. Len(argv), k \in Positions, NEW j,
         \A p \in Positions : p < j <=> p < k \/ p = k,
         NEW o, \A n \in Numeric : ValueAt(n, k, o[n]), o \in [Numeric -> Values],
         argv[k] \in Numeric
  PROVE  LET v == IF argv[k + 1] = "number" THEN "given" ELSE "zero"
         IN  \A n \in Numeric : ValueAt(n, j, [o EXCEPT ![argv[k]] = v][n])
<1> DEFINE v == IF argv[k + 1] = "number" THEN "given" ELSE "zero"
<1>1. Positions \subseteq 1 .. Len(argv) /\ Len(argv) \in Nat
  BY DEF Positions
<1>2. SUFFICES ASSUME NEW n \in Numeric
               PROVE  ValueAt(n, j, [o EXCEPT ![argv[k]] = v][n])
  OBVIOUS
<1>3. CASE n = argv[k]
  <2>1. [o EXCEPT ![argv[k]] = v][n] = v
    BY <1>3
  <2>2. \A q \in Positions : q < j /\ argv[q] = n => q <= k
    BY <1>1
  <2> HIDE DEF v
  <2> QED
    BY <1>3, <2>1, <2>2 DEF ValueAt, v
<1>4. CASE n # argv[k]
  <2>1. [o EXCEPT ![argv[k]] = v][n] = o[n]
    BY <1>4
  <2>2. PICK w : w = o[n]
    OBVIOUS
  <2>3. ValueAt(n, k, w)
    BY <2>2
  <2>4. \A p \in Positions : argv[p] = n => (p < j <=> p < k)
    BY <1>4
  <2>5. ValueAt(n, j, w)
    BY <2>3, <2>4 DEF ValueAt
  <2> QED
    BY <2>1, <2>2, <2>5
<1> QED
  BY <1>3, <1>4

(* Reading an option without a value changes the value of none.            *)
LEMMA ValueUnread ==
  ASSUME NEW k, NEW j, \A p \in Positions : p < j <=> p < k \/ p = k,
         argv[k] \notin Numeric, NEW n \in Numeric, NEW w, ValueAt(n, k, w)
  PROVE  ValueAt(n, j, w)
<1>1. \A p \in Positions : argv[p] = n => (p < j <=> p < k)
  OBVIOUS
<1> QED
  BY <1>1 DEF ValueAt

(* The last occurrence is the one that ValueOf chooses.                    *)
LEMMA ValueIs ==
  ASSUME argv \in Seq(Words), NEW n, NEW v, ValueAt(n, Len(argv) + 1, v)
  PROVE  v = ValueOf(n)
<1> DEFINE at == {p \in Positions : argv[p] = n}
           last == CHOOSE p \in at : \A q \in at : q <= p
<1>1. Positions \subseteq Nat /\ \A p \in Positions : p < Len(argv) + 1
  BY DEF Positions
<1>2. CASE v = "default" /\ \A p \in Positions : p < Len(argv) + 1 => argv[p] # n
  <2>1. at = {}
    BY <1>1, <1>2
  <2> QED
    BY <1>2, <2>1 DEF ValueOf
<1>3. ASSUME NEW p \in Positions, argv[p] = n,
             \A q \in Positions : q < Len(argv) + 1 /\ argv[q] = n => q <= p,
             v = IF argv[p + 1] = "number" THEN "given" ELSE "zero"
      PROVE  v = ValueOf(n)
  <2>1. p \in at /\ \A q \in at : q <= p
    BY <1>1, <1>3
  <2>2. last \in at /\ \A q \in at : q <= last
    BY <2>1
  <2>3. last = p
    <3>1. last <= p /\ p <= last /\ p \in Nat /\ last \in Nat
      BY <1>1, <2>1, <2>2
    <3> HIDE DEF last
    <3> QED
      BY <3>1
  <2>4. at # {} /\ ValueOf(n) = IF argv[last + 1] = "number" THEN "given" ELSE "zero"
    BY <2>1 DEF ValueOf
  <2> QED
    BY <1>3, <2>3, <2>4
<1> QED
  BY <1>2, <1>3 DEF ValueAt

-----------------------------------------------------------------------------

(* Nothing is read at the start.                                           *)
LEMMA OptionsInit ==
  ASSUME InitOptions
  PROVE  OptionsInv
<1>1. argv \in Seq(Words) /\ i = 1 /\ parsed = "no" /\ argv \in CommandLines
  BY OptionsAssumption DEF InitOptions
<1>2. Len(argv) \in Nat
  BY <1>1
<1>3. OptionsTypeOK
  BY <1>1, <1>2 DEF InitOptions, OptionsTypeOK, Values
<1>4. \A q \in Positions : ~ (q < 1)
  BY <1>2 DEF Positions
<1>5. Seen(1) = {}
  BY <1>4 DEF Seen
<1>6. \A n \in Numeric : ValueAt(n, 1, opt.value[n])
  BY <1>4 DEF ValueAt, InitOptions
<1>7. Meaning(1, opt)
  BY <1>5, <1>6 DEF Meaning, InitOptions
<1> QED
  BY <1>1, <1>3, <1>7 DEF OptionsInv, OrderIrrelevant

(* An option and its value.                                                *)
LEMMA NumericStep ==
  ASSUME OptionsInv, NumericOption
  PROVE  OptionsInv'
<1>1. /\ parsed = "no" /\ parsed' = "no" /\ argv' = argv /\ i' = i + 2 /\ Meaning(i, opt)
      /\ i \in 1 .. Len(argv) /\ i < Len(argv) /\ argv \in Seq(Words) /\ argv[i] \in Numeric
      /\ argv \in CommandLines /\ opt \in Opts
  BY OptionsAssumption
  DEF NumericOption, Parsing, HasValue, Arg, OptionsInv, OptionsTypeOK, Opts
<1> DEFINE v == IF argv[i + 1] = "number" THEN "given" ELSE "zero"
           val == [opt.value EXCEPT ![argv[i]] = v]
<1>2. opt' = [opt EXCEPT !.value = val]
  BY <1>1, Zenon DEF NumericOption, Arg
<1>3. val \in [Numeric -> Values]
  BY <1>1 DEF Opts, Values
<1>4. opt' \in Opts
  <2> HIDE DEF val
  <2> QED
    BY <1>1, <1>2, <1>3 DEF Opts
<1>5. i \in Positions
  BY <1>1, ArgIsGiven
<1>6. /\ IsValue[i + 1] /\ Seen(i + 2) = Seen(i) \cup {argv[i]}
      /\ \A p \in Positions : p < i + 2 <=> p < i \/ p = i
  BY <1>1, <1>5, SeenNext
<1>7. \A n \in Numeric : ValueAt(n, i + 2, val[n])
  <2>1. opt.value \in [Numeric -> Values] /\ \A n \in Numeric : ValueAt(n, i, opt.value[n])
    BY <1>1 DEF Opts, Meaning
  <2>2. PICK o : o = opt.value
    OBVIOUS
  <2>3. PICK j : j = i + 2
    OBVIOUS
  <2> QED
    BY <1>1, <1>5, <1>6, <2>1, ValueRead, Zenon
<1>8. /\ opt'.value = val /\ opt'.reference = opt.reference /\ opt'.algos = opt.algos
      /\ opt'.all_algos = opt.all_algos /\ opt'.libs = opt.libs /\ opt'.all_libs = opt.all_libs
  <2> HIDE DEF val
  <2> QED
    BY <1>1, <1>2 DEF Opts
<1>9. Meaning(i + 2, opt')
  <2> HIDE DEF val
  <2>1. (i + 2) - 1 = i + 1
    BY <1>1
  <2>2. PICK k : k = i + 2
    OBVIOUS
  <2>3. PICK o : o = opt'
    OBVIOUS
  <2>4. \A x : x \notin Numeric => (x \in Seen(k) <=> x \in Seen(i))
    BY <1>1, <1>6, <2>2
  <2>5. IsValue[k - 1]
    BY <1>6, <2>1, <2>2
  <2>6. Seen(k) \cap {"help", "number", "other"} = Seen(i) \cap {"help", "number", "other"}
    <3>1. \A x \in {"help", "number", "other"} : x \notin Numeric
      BY Kinds
    <3> QED
      BY <2>4, <3>1
  <2>7. /\ Seen(k) \cap Algos = Seen(i) \cap Algos /\ Seen(k) \cap Libs = Seen(i) \cap Libs
        /\ Seen(k) \cap (Algos \cup {"reference"}) = Seen(i) \cap (Algos \cup {"reference"})
        /\ Seen(k) \cap (Libs \cup {"reference"}) = Seen(i) \cap (Libs \cup {"reference"})
        /\ "reference" \in Seen(k) <=> "reference" \in Seen(i)
    <3>1. \A x \in Algos \cup Libs \cup {"reference"} : x \notin Numeric
      BY Kinds
    <3>2. \A x \in Algos \cup Libs \cup {"reference"} : x \in Seen(k) <=> x \in Seen(i)
      BY <2>4, <3>1
    <3>3. Seen(k) \cap Algos = Seen(i) \cap Algos
      BY <3>2
    <3>4. Seen(k) \cap Libs = Seen(i) \cap Libs
      BY <3>2
    <3>5. "reference" \in Seen(k) <=> "reference" \in Seen(i)
      BY <3>2
    <3> QED
      BY <3>3, <3>4, <3>5
  <2>8. Meaning(k, o)
    BY <1>1, <1>7, <1>8, <2>2, <2>3, <2>5, <2>6, <2>7 DEF Meaning
  <2> QED
    BY <2>2, <2>3, <2>8
<1>10. Meaning(i, opt)'
  <2>1. PICK k : k = i + 2
    OBVIOUS
  <2>2. PICK o : o = opt'
    OBVIOUS
  <2>3. Meaning(k, o)' <=> Meaning(k, o)
    BY <1>1, SameArguments
  <2>4. k = i' /\ o = opt' /\ Meaning(k, o)
    BY <1>1, <1>9, <2>1, <2>2
  <2>5. Meaning(k, o)'
    BY <2>3, <2>4
  <2> QED
    BY <2>4, <2>5, Zenon DEF Meaning
<1>11. OptionsTypeOK'
  <2>1. i' \in 1 .. Len(argv') + 1
    BY <1>1
  <2> QED
    BY <1>1, <1>4, <2>1 DEF OptionsTypeOK, Opts
<1> QED
  BY <1>1, <1>10, <1>11 DEF OptionsInv, OrderIrrelevant

(* An option without a value.                                              *)
LEMMA SelectionStep ==
  ASSUME OptionsInv, Selection
  PROVE  OptionsInv'
<1>1. /\ parsed = "no" /\ parsed' = "no" /\ argv' = argv /\ i' = i + 1 /\ Meaning(i, opt)
      /\ i \in 1 .. Len(argv) /\ argv \in Seq(Words) /\ argv \in CommandLines /\ opt \in Opts
      /\ argv[i] \in Libs \cup Algos \cup {"reference"} /\ opt' = Selected(opt, argv[i])
  BY OptionsAssumption
  DEF Selection, Parsing, Arg, OptionsInv, OptionsTypeOK, Opts
<1>2. i \in Positions
  BY <1>1, ArgIsGiven
<1>3. Seen(i + 1) = Seen(i) \cup {argv[i]} /\ \A p \in Positions : p < i + 1 <=> p < i \/ p = i
  BY <1>1, <1>2, SeenNext
<1>4. PICK w : w = argv[i]
  OBVIOUS
<1>5. PICK j : j = i + 1
  OBVIOUS
<1>6. PICK o : o = opt'
  OBVIOUS
<1>7. w \notin Numeric /\ w \notin {"help", "number", "other"}
  BY <1>1, <1>4, Kinds
<1>8. o \in Opts /\ o.value = opt.value
  BY <1>1, <1>4, <1>6 DEF Opts, Selected
<1>9. \A n \in Numeric : ValueAt(n, j, o.value[n])
  <2>1. SUFFICES ASSUME NEW n \in Numeric
                 PROVE  ValueAt(n, j, o.value[n])
    OBVIOUS
  <2>2. PICK v : v = o.value[n]
    OBVIOUS
  <2>3. ValueAt(n, i, v)
    BY <1>1, <1>8, <2>2 DEF Meaning
  <2>4. ValueAt(n, j, v)
    BY <1>3, <1>4, <1>5, <1>7, <2>3, ValueUnread
  <2> QED
    BY <2>2, <2>4
<1>10. Seen(j) = Seen(i) \cup {w} /\ j - 1 = i
  BY <1>1, <1>3, <1>4, <1>5
<1>11. /\ o.reference <=> "reference" \in Seen(j)
       /\ o.all_algos <=> Seen(j) \cap (Algos \cup {"reference"}) = {}
       /\ o.algos = Seen(j) \cap Algos
       /\ o.all_libs <=> Seen(j) \cap (Libs \cup {"reference"}) = {}
       /\ o.libs = Seen(j) \cap Libs
  <2>1. /\ opt.reference <=> "reference" \in Seen(i)
        /\ opt.all_algos <=> Seen(i) \cap (Algos \cup {"reference"}) = {}
        /\ opt.algos = Seen(i) \cap Algos
        /\ opt.all_libs <=> Seen(i) \cap (Libs \cup {"reference"}) = {}
        /\ opt.libs = Seen(i) \cap Libs
    BY <1>1 DEF Meaning
  <2>2. CASE w = "reference"
    <3>1. /\ ~ o.all_algos /\ ~ o.all_libs /\ o.reference
          /\ o.algos = opt.algos /\ o.libs = opt.libs
      BY <1>1, <1>4, <1>6, <2>2 DEF Selected, Opts
    <3> QED
      BY <1>10, <2>1, <2>2, <3>1, Kinds
  <2>3. CASE w \in Algos
    <3>1. w # "reference" /\ w \notin Libs
      BY <2>3, Kinds
    <3>2. /\ ~ o.all_algos /\ o.all_libs = opt.all_libs /\ o.reference = opt.reference
          /\ o.algos = opt.algos \cup {w} /\ o.libs = opt.libs
      BY <1>1, <1>4, <1>6, <2>3, <3>1 DEF Selected, Opts
    <3> QED
      BY <1>10, <2>1, <2>3, <3>1, <3>2
  <2>4. CASE w \in Libs
    <3>1. w # "reference" /\ w \notin Algos
      BY <2>4, Kinds
    <3>2. /\ ~ o.all_libs /\ o.all_algos = opt.all_algos /\ o.reference = opt.reference
          /\ o.libs = opt.libs \cup {w} /\ o.algos = opt.algos
      BY <1>1, <1>4, <1>6, <2>4, <3>1 DEF Selected, Opts
    <3> QED
      BY <1>10, <2>1, <2>4, <3>1, <3>2
  <2> QED
    BY <1>1, <1>4, <2>2, <2>3, <2>4
<1>12. Meaning(j, o)
  <2>1. Seen(j) \cap {"help", "number", "other"} = {}
    BY <1>1, <1>7, <1>10 DEF Meaning
  <2>2. ~ (argv[j - 1] \in Numeric)
    BY <1>4, <1>7, <1>10
  <2> QED
    BY <1>9, <1>11, <2>1, <2>2 DEF Meaning
<1>13. Meaning(i, opt)'
  <2>1. Meaning(j, o)' <=> Meaning(j, o)
    BY <1>1, SameArguments
  <2>2. Meaning(j, o)' /\ j = i' /\ o = opt'
    BY <1>1, <1>5, <1>6, <1>12, <2>1
  <2> QED
    BY <2>2, Zenon DEF Meaning
<1>14. OptionsTypeOK'
  <2>1. i' \in 1 .. Len(argv') + 1 /\ opt' \in Opts
    BY <1>1, <1>6, <1>8
  <2> QED
    BY <1>1, <2>1 DEF OptionsTypeOK, Opts
<1> QED
  BY <1>1, <1>13, <1>14 DEF OptionsInv, OrderIrrelevant

(* Help, and the errors.                                                   *)
LEMMA ExitStep ==
  ASSUME OptionsInv, Exit
  PROVE  OptionsInv'
<1>1. /\ parsed = "no" /\ parsed' = "exit" /\ argv' = argv /\ i' = i /\ opt' = opt
      /\ Meaning(i, opt) /\ i \in 1 .. Len(argv) /\ argv \in Seq(Words)
      /\ argv[i] \in {"help", "number", "other"} \/ (argv[i] \in Numeric /\ i = Len(argv))
  BY OptionsAssumption DEF Exit, HasValue, Parsing, Arg, OptionsInv, OptionsTypeOK
<1>2. i \in Positions
  BY <1>1, ArgIsGiven
<1>3. Invalid
  BY <1>1, <1>2 DEF Invalid, Given
<1>4. Invalid'
  BY <1>1, <1>3, SameArguments
<1>5. OptionsTypeOK'
  BY <1>1 DEF OptionsInv, OptionsTypeOK
<1> QED
  BY <1>1, <1>4, <1>5 DEF OptionsInv, OrderIrrelevant

(* The defaults, once all arguments have been read.                        *)
LEMMA DefaultsStep ==
  ASSUME OptionsInv, Defaults
  PROVE  OptionsInv' /\ parsed' = "yes"
<1>1. /\ parsed = "no" /\ parsed' = "yes" /\ argv' = argv /\ i' = i /\ opt' = Defaulted(opt)
      /\ i = Len(argv) + 1 /\ Len(argv) \in Nat /\ Meaning(i, opt)
      /\ argv \in Seq(Words) /\ argv \in CommandLines /\ opt \in Opts
  BY OptionsAssumption DEF Defaults, OptionsInv, OptionsTypeOK, Opts
<1>2. PICK o : o = opt'
  OBVIOUS
<1>3. /\ o \in Opts /\ o.value = opt.value
      /\ o.reference <=> opt.reference \/ (opt.all_libs /\ opt.all_algos)
      /\ o.algos = IF opt.all_algos THEN Algos ELSE opt.algos
      /\ o.libs = IF opt.all_libs THEN Libs ELSE opt.libs
  BY <1>1, <1>2 DEF Opts, Defaulted
<1>4. Seen(i) = Given
  <2>1. \A q \in Positions : q < i
    BY <1>1 DEF Positions
  <2> QED
    BY <2>1 DEF Seen, Given
<1>5. /\ Len(argv) > 0 /\ argv[Len(argv)] \in Numeric => IsValue[Len(argv)]
      /\ Given \cap {"help", "number", "other"} = {}
      /\ opt.reference <=> "reference" \in Given
      /\ opt.all_algos <=> Given \cap (Algos \cup {"reference"}) = {}
      /\ opt.algos = Given \cap Algos
      /\ opt.all_libs <=> Given \cap (Libs \cup {"reference"}) = {}
      /\ opt.libs = Given \cap Libs
      /\ \A n \in Numeric : ValueAt(n, Len(argv) + 1, opt.value[n])
  <2>1. i - 1 = Len(argv) /\ (Len(argv) > 0 => i > 1)
    BY <1>1
  <2> QED
    BY <1>1, <1>4, <2>1 DEF Meaning
<1>6. ~ Invalid
  <2>1. Len(argv) \in Positions => Len(argv) > 0 /\ ~ IsValue[Len(argv)]
    BY <1>1 DEF Positions
  <2> QED
    BY <1>5, <2>1 DEF Invalid
<1>7. o.reference = (Given \cap (Libs \cup Algos) = {} \/ "reference" \in Given)
  <2>1. o.reference \in BOOLEAN
    BY <1>3 DEF Opts
  <2>2. o.reference <=> Given \cap (Libs \cup Algos) = {} \/ "reference" \in Given
    BY <1>3, <1>5
  <2> QED
    BY <2>1, <2>2
<1>8. /\ o.algos = IF Given \cap (Algos \cup {"reference"}) = {} THEN Algos ELSE Given \cap Algos
      /\ o.libs = IF Given \cap (Libs \cup {"reference"}) = {} THEN Libs ELSE Given \cap Libs
  BY <1>3, <1>5
<1>9. \A n \in Numeric : o.value[n] = ValueOf(n)
  <2>1. SUFFICES ASSUME NEW n \in Numeric
                 PROVE  o.value[n] = ValueOf(n)
    OBVIOUS
  <2>2. ValueAt(n, Len(argv) + 1, o.value[n])
    BY <1>3, <1>5
  <2> QED
    BY <1>1, <2>2, ValueIs
<1>10. OrderIrrelevant'
  <2>1. Given' = Given /\ (Invalid' <=> Invalid) /\ \A n : ValueOf(n)' = ValueOf(n)
    BY <1>1, SameArguments
  <2> QED
    BY <1>1, <1>2, <1>6, <1>7, <1>8, <1>9, <2>1 DEF OrderIrrelevant
<1>11. OptionsTypeOK'
  <2>1. i' \in 1 .. Len(argv') + 1 /\ opt' \in Opts
    BY <1>1, <1>2, <1>3
  <2> QED
    BY <1>1, <2>1 DEF OptionsTypeOK, Opts
<1> QED
  BY <1>1, <1>10, <1>11 DEF OptionsInv

(* Nothing of it depends on the rest of the program.                       *)
LEMMA OptionsKept ==
  ASSUME OptionsInv, UNCHANGED optionvars
  PROVE  OptionsInv'
<1>1. argv' = argv /\ i' = i /\ opt' = opt /\ parsed' = parsed
  BY DEF optionvars
<1>2. OptionsTypeOK'
  BY <1>1 DEF OptionsInv, OptionsTypeOK
<1>3. OrderIrrelevant'
  BY <1>1, SameArguments DEF OptionsInv, OrderIrrelevant
<1>4. parsed = "no" => Meaning(i, opt)'
  <2>1. PICK k : k = i
    OBVIOUS
  <2>2. PICK o : o = opt
    OBVIOUS
  <2>3. Meaning(k, o)' <=> Meaning(k, o)
    BY <1>1, SameArguments
  <2>4. parsed = "no" => Meaning(k, o)' /\ k = i' /\ o = opt'
    BY <1>1, <2>1, <2>2, <2>3 DEF OptionsInv
  <2> QED
    BY <2>4, Zenon DEF Meaning
<1> QED
  BY <1>1, <1>2, <1>3, <1>4 DEF OptionsInv

-----------------------------------------------------------------------------
(* The program. *)

(* What the arguments ask for in a stage, and in the stages before k.      *)
ItemsFor(s) == {Item(s, l) : l \in AskedLibs(s)}
DoneBefore(k) == UNION {ItemsFor(Stages[n]) : n \in 1 .. k - 1}

(* The libraries that are initialized: all of them from the command line   *)
(* on, and one less after each step of the cleanup.                        *)
ReadyInv ==
  /\ Len(ready) \in 0 .. 4 /\ ready = SubSeq(Initialized, 1, Len(ready))
  /\ pc = "init" => Len(ready) < 4
  /\ pc = "cleanup" => Len(ready) > 0
  /\ pc \in {"options", "run", "stage"} => Len(ready) = 4

(* Where the program is in the stages, and what it has run so far.         *)
StageInv ==
  /\ pc \in {"init", "options", "run", "stage", "cleanup", "done", "exit"}
  /\ stage \in 1 .. 6 /\ pending \in Seq(Libs \cup {"none"})
  /\ pc \in {"init", "options"} => work = <<>> /\ stage = 1 /\ parsed = "no"
  /\ pc \in {"run", "stage", "cleanup", "done"} => parsed = "yes"
  /\ pc = "run" => Performed = DoneBefore(stage)
  /\ pc = "stage" =>
       /\ stage < 6 /\ Distinct(pending) /\ Elements(pending) \subseteq AskedLibs(Stage)
       /\ Performed = DoneBefore(stage) \cup
                        {Item(Stage, l) : l \in AskedLibs(Stage) \ Elements(pending)}
  /\ pc \in {"cleanup", "done"} => Performed = DoneBefore(6)
  /\ pc = "exit" => Performed \subseteq DoneBefore(6)

(* What has been run, in order, and that it was run once.                  *)
WorkInv ==
  /\ work \in Seq([what : {"reference", "generate", "rsa", "aes", "math"}, lib : Libs \cup {"none"}])
  /\ IsFiniteSet(Performed) /\ Cardinality(Performed) = Len(work)
  /\ KeysAreFresh

Inv == OptionsInv /\ ReadyInv /\ StageInv /\ WorkInv

(* The five stages differ.                                                 *)
LEMMA StageNames ==
  /\ Len(Stages) = 5 /\ DOMAIN Stages = 1 .. 5
  /\ Stages[1] = "reference" /\ Stages[2] = "generate" /\ Stages[3] = "rsa"
  /\ Stages[4] = "aes" /\ Stages[5] = "math"
  /\ \A m, n \in 1 .. 5 : Stages[m] = Stages[n] => m = n
  /\ \A n \in 1 .. 5 : Stages[n] \in {"reference", "generate", "rsa", "aes", "math"}
<1>1. /\ Len(Stages) = 5 /\ DOMAIN Stages = 1 .. 5
      /\ Stages[1] = "reference" /\ Stages[2] = "generate" /\ Stages[3] = "rsa"
      /\ Stages[4] = "aes" /\ Stages[5] = "math"
  BY DEF Stages
<1>2. \A n \in 1 .. 5 : n = 1 \/ n = 2 \/ n = 3 \/ n = 4 \/ n = 5
  OBVIOUS
<1> QED
  BY <1>1, <1>2

(* What is asked for changes with the arguments only.                      *)
LEMMA SameAsked ==
  ASSUME argv' = argv
  PROVE  /\ Asked' = Asked
         /\ \A s : AskedLibs(s)' = AskedLibs(s) /\ ItemsFor(s)' = ItemsFor(s)
         /\ \A k : DoneBefore(k)' = DoneBefore(k)
<1>1. Given' = Given
  BY SameArguments
<1>2. \A s : AskedLibs(s)' = AskedLibs(s)
  BY <1>1, Zenon DEF AskedLibs, Wanted, WantedLib
<1>3. \A s : ItemsFor(s)' = ItemsFor(s)
  BY <1>2, Zenon DEF ItemsFor, Item
<1>4. \A k : DoneBefore(k)' = DoneBefore(k)
  BY <1>3, Zenon DEF DoneBefore, Stages
<1>5. Asked' = Asked
  BY <1>2, Zenon DEF Asked, Item, Stages
<1> QED
  BY <1>2, <1>3, <1>4, <1>5

(* What is asked for in each stage.                                        *)
LEMMA AskedIs ==
  /\ \A l : l \in AskedLibs("rsa") <=> l \in RsaAvailable /\ Wanted("rsa") /\ WantedLib(l)
  /\ \A l : l \in AskedLibs("aes") <=> l \in AesAvailable /\ Wanted("aes") /\ WantedLib(l)
  /\ \A l : l \in AskedLibs("math") <=> l = "none" /\ Wanted("math")
  /\ \A l : l \in AskedLibs("generate") <=> l = "none" /\ (Wanted("rsa") \/ Wanted("math"))
  /\ \A l : l \in AskedLibs("reference") <=>
       l = "none" /\ ("reference" \in Given \/ Given \cap (Libs \cup Algos) = {})
BY DEF AskedLibs

(* All stages together are all that is asked for.                          *)
LEMMA AllIsAsked == Asked = DoneBefore(6)
<1>1. DOMAIN Stages = 1 .. 5 /\ 1 .. 6 - 1 = 1 .. 5
  BY StageNames
<1>2. ASSUME NEW x
      PROVE  x \in Asked <=> \E n \in 1 .. 5 : x \in ItemsFor(Stages[n])
  BY <1>1 DEF Asked, ItemsFor
<1>3. ASSUME NEW x
      PROVE  x \in DoneBefore(6) <=> \E n \in 1 .. 5 : x \in ItemsFor(Stages[n])
  BY <1>1, Zenon DEF DoneBefore
<1> QED
  BY <1>2, <1>3

(* One stage more, and the items of the stages before are not its own.     *)
LEMMA DoneNext ==
  ASSUME NEW k \in 1 .. 5
  PROVE  /\ DoneBefore(k + 1) = DoneBefore(k) \cup ItemsFor(Stages[k])
         /\ \A x \in DoneBefore(k) : x.what # Stages[k]
         /\ DoneBefore(k + 1) \subseteq DoneBefore(6)
         /\ \A n \in 1 .. k - 1 : ItemsFor(Stages[n]) \subseteq DoneBefore(k)
<1>1. 1 .. (k + 1) - 1 = 1 .. k - 1 \cup {k} /\ 1 .. (k + 1) - 1 \subseteq 1 .. 6 - 1
  OBVIOUS
<1>2. DoneBefore(k + 1) = DoneBefore(k) \cup ItemsFor(Stages[k])
  BY <1>1 DEF DoneBefore
<1>3. ASSUME NEW x \in DoneBefore(k)
      PROVE  x.what # Stages[k]
  <2>1. PICK n \in 1 .. k - 1 : x \in ItemsFor(Stages[n])
    BY DEF DoneBefore
  <2>2. x.what = Stages[n]
    BY <2>1 DEF ItemsFor, Item
  <2> QED
    BY <2>2, StageNames
<1>4. DoneBefore(k + 1) \subseteq DoneBefore(6)
  BY <1>1 DEF DoneBefore
<1>5. \A n \in 1 .. k - 1 : ItemsFor(Stages[n]) \subseteq DoneBefore(k)
  BY DEF DoneBefore
<1> QED
  BY <1>2, <1>3, <1>4, <1>5

(* The options, once the command line is read, select what is asked for,   *)
(* and a stage goes once through the libraries that are asked for.         *)
LEMMA StageLibs ==
  ASSUME OptionsInv, parsed = "yes", NEW n \in 1 .. 5, NEW s, s = Stages[n],
         NEW p, p = IF IsRun(s) THEN LibsOf(s) ELSE <<>>
  PROVE  p \in Seq(Libs \cup {"none"}) /\ Distinct(p) /\ Elements(p) = AskedLibs(s)
<1>1. /\ opt.reference <=> Given \cap (Libs \cup Algos) = {} \/ "reference" \in Given
      /\ opt.algos = IF Given \cap (Algos \cup {"reference"}) = {} THEN Algos ELSE Given \cap Algos
      /\ opt.libs = IF Given \cap (Libs \cup {"reference"}) = {} THEN Libs ELSE Given \cap Libs
  BY DEF OptionsInv, OrderIrrelevant
<1>2. \A a \in Algos : a \in opt.algos <=> Wanted(a)
  BY <1>1 DEF Wanted
<1>3. \A l : l \in opt.libs <=> l \in Libs /\ WantedLib(l)
  BY <1>1 DEF WantedLib
<1>4. LibOrder \in Seq(Libs) /\ Distinct(LibOrder) /\ Elements(LibOrder) = Libs
  <2>1. LibOrder \in Seq(Libs)
    BY CryptoBenchAssumption
  <2>2. DOMAIN LibOrder = 1 .. Len(LibOrder)
    BY <2>1
  <2> QED
    BY <2>1, <2>2, CryptoBenchAssumption DEF Distinct, Elements
<1>5. /\ TestedLibs \in Seq(Libs) /\ Distinct(TestedLibs)
      /\ Elements(TestedLibs) = Libs \cap opt.libs
  BY <1>4, OnlyIs DEF TestedLibs
<1>6. \A S : /\ Only(TestedLibs, S) \in Seq(Libs) /\ Distinct(Only(TestedLibs, S))
             /\ Elements(Only(TestedLibs, S)) = Libs \cap opt.libs \cap S
  BY <1>5, OnlyIs
<1>7. /\ <<>> \in Seq(Libs \cup {"none"}) /\ Distinct(<<>>) /\ Elements(<<>>) = {}
      /\ <<"none">> \in Seq(Libs \cup {"none"}) /\ Distinct(<<"none">>)
  BY DEF Distinct, Elements
<1>8. Elements(<<"none">>) = {"none"}
  <2>1. Len(<<"none">>) = 1 /\ <<"none">>[1] = "none" /\ 1 .. 1 = {1}
    OBVIOUS
  <2> QED
    BY <2>1 DEF Elements
<1>9. \A q \in Seq(Libs) : q \in Seq(Libs \cup {"none"})
  OBVIOUS
<1>10. {"rsa", "aes", "math"} \subseteq Algos
  BY DEF Algos
<1>11. CASE s = "rsa"
  <2>1. p = IF Wanted("rsa") THEN Only(TestedLibs, RsaAvailable) ELSE <<>>
    BY <1>2, <1>10, <1>11 DEF IsRun, LibsOf
  <2>2. CASE Wanted("rsa")
    <3>1. p = Only(TestedLibs, RsaAvailable)
      BY <2>1, <2>2
    <3>2. Elements(p) = Libs \cap opt.libs \cap RsaAvailable
      BY <1>6, <3>1
    <3>3. RsaAvailable \subseteq Libs
      BY CryptoBenchAssumption
    <3>4. \A l : l \in AskedLibs("rsa") <=> l \in Libs \cap opt.libs \cap RsaAvailable
      BY <1>3, <2>2, <3>3, AskedIs
    <3>5. Elements(p) = AskedLibs("rsa")
      BY <3>2, <3>4
    <3> QED
      BY <1>6, <1>9, <1>11, <3>1, <3>5
  <2>3. CASE ~ Wanted("rsa")
    <3>1. p = <<>> /\ AskedLibs("rsa") = {}
      BY <2>1, <2>3, AskedIs
    <3> QED
      BY <1>7, <1>11, <3>1
  <2> QED
    BY <2>2, <2>3
<1>12. CASE s = "aes"
  <2>1. p = IF Wanted("aes") THEN Only(TestedLibs, AesAvailable) ELSE <<>>
    BY <1>2, <1>10, <1>12 DEF IsRun, LibsOf
  <2>2. CASE Wanted("aes")
    <3>1. p = Only(TestedLibs, AesAvailable)
      BY <2>1, <2>2
    <3>2. Elements(p) = Libs \cap opt.libs \cap AesAvailable
      BY <1>6, <3>1
    <3>3. AesAvailable \subseteq Libs
      BY CryptoBenchAssumption
    <3>4. \A l : l \in AskedLibs("aes") <=> l \in Libs \cap opt.libs \cap AesAvailable
      BY <1>3, <2>2, <3>3, AskedIs
    <3>5. Elements(p) = AskedLibs("aes")
      BY <3>2, <3>4
    <3> QED
      BY <1>6, <1>9, <1>12, <3>1, <3>5
  <2>3. CASE ~ Wanted("aes")
    <3>1. p = <<>> /\ AskedLibs("aes") = {}
      BY <2>1, <2>3, AskedIs
    <3> QED
      BY <1>7, <1>12, <3>1
  <2> QED
    BY <2>2, <2>3
<1>13. CASE s \notin {"rsa", "aes"}
  <2>1. LibsOf(s) = <<"none">>
    BY <1>13 DEF LibsOf
  <2>2. s \in {"reference", "generate", "math"}
    BY <1>13, StageNames
  <2>3. AskedLibs(s) = IF IsRun(s) THEN {"none"} ELSE {}
    <3>1. CASE s = "reference"
      BY <1>1, <3>1, AskedIs DEF IsRun
    <3>2. CASE s = "generate"
      <4>1. IsRun(s) <=> Wanted("rsa") \/ Wanted("math")
        BY <1>2, <1>10, <3>2 DEF IsRun
      <4> QED
        BY <3>2, <4>1, AskedIs
    <3>3. CASE s = "math"
      <4>1. IsRun(s) <=> Wanted("math")
        BY <1>2, <1>10, <3>3 DEF IsRun
      <4> QED
        BY <3>3, <4>1, AskedIs
    <3> QED
      BY <2>2, <3>1, <3>2, <3>3
  <2> QED
    BY <1>7, <1>8, <2>1, <2>3
<1> QED
  BY <1>11, <1>12, <1>13

-----------------------------------------------------------------------------
(* The invariant is inductive. *)

(* Nothing is initialized, read or run at the start.                       *)
LEMMA InvInit ==
  ASSUME Init
  PROVE  Inv
<1>1. OptionsInv /\ parsed = "no"
  BY OptionsInit DEF Init, InitOptions
<1>2. Performed = {} /\ work = <<>> /\ Len(<<>>) = 0 /\ Len(Initialized) = 4
  BY DEF Init, Performed, Initialized
<1>3. ReadyInv
  <2>1. <<>> = SubSeq(Initialized, 1, 0)
    BY <1>2 DEF Initialized
  <2> QED
    BY <1>2, <2>1 DEF Init, ReadyInv
<1>4. StageInv
  BY <1>1 DEF Init, StageInv
<1>5. WorkInv
  BY <1>2, FS_EmptySet DEF WorkInv, KeysAreFresh
<1> QED
  BY <1>1, <1>3, <1>4, <1>5 DEF Inv

(* What only the arguments and the work decide.                            *)
LEMMA WorkKept ==
  ASSUME WorkInv, work' = work
  PROVE  WorkInv' /\ Performed' = Performed
BY DEF WorkInv, KeysAreFresh, Performed

(* An initialization.                                                      *)
LEMMA InitLibraryStep ==
  ASSUME Inv, InitLibrary
  PROVE  Inv'
<1>1. /\ pc = "init" /\ Len(ready) \in 0 .. 3 /\ ready = SubSeq(Initialized, 1, Len(ready))
      /\ work = <<>> /\ stage = 1 /\ parsed = "no" /\ pending \in Seq(Libs \cup {"none"})
      /\ work' = work /\ stage' = stage /\ parsed' = parsed /\ pending' = pending
      /\ UNCHANGED optionvars /\ OptionsInv /\ WorkInv
  BY DEF Inv, InitLibrary, ReadyInv, StageInv, optionvars
<1>2. OptionsInv' /\ WorkInv'
  BY <1>1, OptionsKept, WorkKept
<1>3. Initialized \in Seq({"openssl", "mbedtls", "gnutls", "tomcrypt"}) /\ Len(Initialized) = 4
  BY DEF Initialized
<1>4. PICK m : m = Len(ready)
  OBVIOUS
<1>5. ready' = Append(SubSeq(Initialized, 1, m), Initialized[m + 1]) /\ m \in 0 .. 3
  BY <1>1, <1>4 DEF InitLibrary
<1>6. Append(SubSeq(Initialized, 1, m), Initialized[m + 1]) = SubSeq(Initialized, 1, m + 1)
  BY <1>3, <1>5
<1>7. Len(SubSeq(Initialized, 1, m + 1)) = m + 1
  BY <1>3, <1>5
<1>8. Len(ready') = m + 1 /\ ready' = SubSeq(Initialized, 1, m + 1)
  BY <1>5, <1>6, <1>7
<1>9. pc' = IF m = 3 THEN "options" ELSE "init"
  BY <1>1, <1>3, <1>5, <1>8 DEF InitLibrary
<1>10. ReadyInv'
  BY <1>5, <1>8, <1>9 DEF ReadyInv
<1>11. StageInv'
  BY <1>1, <1>9 DEF StageInv
<1> QED
  BY <1>2, <1>10, <1>11 DEF Inv

(* A step of the command line, which may be the last one.                  *)
LEMMA ParseStep ==
  ASSUME Inv, Parse
  PROVE  Inv'
<1>1. /\ pc = "options" /\ work = <<>> /\ stage = 1 /\ parsed = "no" /\ OptionsInv /\ WorkInv
      /\ pending \in Seq(Libs \cup {"none"}) /\ ReadyInv
      /\ work' = work /\ stage' = stage /\ pending' = pending /\ ready' = ready
      /\ pc' = CASE parsed' = "exit" -> "exit" [] parsed' = "yes" -> "run" [] OTHER -> pc
  BY DEF Inv, Parse, StageInv
<1>2. WorkInv' /\ Performed' = Performed
  BY <1>1, WorkKept
<1>3. OptionsInv'
  BY <1>1, NumericStep, SelectionStep, ExitStep, DefaultsStep DEF Parse, ParseNext
<1>4. parsed' \in {"no", "yes", "exit"}
  BY <1>3 DEF OptionsInv, OptionsTypeOK
<1>5. Performed = {}
  BY <1>1 DEF Performed
<1>6. pc' \in {"options", "run", "exit"} /\ (pc' = "run" => parsed' = "yes")
      /\ (pc' = "options" => parsed' = "no")
  BY <1>1, <1>4
<1>7. ReadyInv'
  BY <1>1, <1>6 DEF ReadyInv
<1>8. Performed' = {} /\ DoneBefore(stage)' = {}
  BY <1>1, <1>2, <1>5 DEF DoneBefore
<1>9. StageInv'
  BY <1>1, <1>6, <1>8 DEF StageInv
<1> QED
  BY <1>2, <1>3, <1>7, <1>9 DEF Inv

(* A stage starts, or there is none left.                                  *)
LEMMA EnterStageStep ==
  ASSUME Inv, EnterStage
  PROVE  Inv'
<1>1. /\ pc = "run" /\ work' = work /\ stage' = stage /\ ready' = ready /\ UNCHANGED optionvars
      /\ OptionsInv /\ WorkInv /\ ReadyInv /\ parsed = "yes" /\ parsed' = parsed /\ argv' = argv
      /\ Performed = DoneBefore(stage) /\ stage \in 1 .. 6
      /\ pending \in Seq(Libs \cup {"none"})
  BY DEF Inv, EnterStage, StageInv, optionvars
<1>2. WorkInv' /\ Performed' = Performed /\ OptionsInv'
  BY <1>1, WorkKept, OptionsKept
<1>3. PICK k : k = stage
  OBVIOUS
<1>4. DoneBefore(k)' = DoneBefore(k) /\ DoneBefore(6)' = DoneBefore(6)
      /\ \A s : AskedLibs(s)' = AskedLibs(s)
  BY <1>1, SameAsked
<1>5. CASE stage > 5
  <2>1. pc' = "cleanup" /\ pending' = pending /\ stage = 6
    BY <1>1, <1>5, StageNames DEF EnterStage
  <2>2. ReadyInv'
    BY <1>1, <2>1 DEF ReadyInv
  <2>3. Performed' = DoneBefore(6)'
    BY <1>1, <1>2, <1>4, <2>1
  <2>4. StageInv'
    BY <1>1, <2>1, <2>3 DEF StageInv
  <2> QED
    BY <1>2, <2>2, <2>4 DEF Inv
<1>6. CASE ~ (stage > 5)
  <2>1. PICK s : s = Stage
    OBVIOUS
  <2>2. stage \in 1 .. 5 /\ s = Stages[stage] /\ Stage' = s
    BY <1>1, <1>6, <2>1 DEF Stage, Stages
  <2>3. pc' = "stage" /\ pending' = IF IsRun(s) THEN LibsOf(s) ELSE <<>>
    BY <1>6, <2>1, StageNames DEF EnterStage
  <2>4. PICK p : p = pending'
    OBVIOUS
  <2>5. p \in Seq(Libs \cup {"none"}) /\ Distinct(p) /\ Elements(p) = AskedLibs(s)
    BY <1>1, <2>2, <2>3, <2>4, StageLibs
  <2>6. /\ pending' \in Seq(Libs \cup {"none"}) /\ Distinct(pending)'
        /\ Elements(pending)' = AskedLibs(s)
    BY <2>4, <2>5 DEF Distinct, Elements
  <2>7. AskedLibs(Stage)' = AskedLibs(s)
    <3>1. AskedLibs(s)' = AskedLibs(s)
      BY <1>4
    <3> QED
      BY <2>2, <3>1, Zenon DEF AskedLibs
  <2>8. DoneBefore(stage)' = DoneBefore(stage)
    BY <1>1, <1>3, <1>4, Zenon DEF DoneBefore
  <2>9. Performed' = DoneBefore(stage)' \cup
                       {Item(Stage', l) : l \in AskedLibs(Stage)' \ Elements(pending)'}
    BY <1>1, <1>2, <2>6, <2>7, <2>8
  <2>10. ReadyInv'
    BY <1>1, <2>3 DEF ReadyInv
  <2>11. StageInv'
    BY <1>1, <2>2, <2>3, <2>6, <2>7, <2>9 DEF StageInv
  <2> QED
    BY <1>2, <2>10, <2>11 DEF Inv
<1> QED
  BY <1>5, <1>6

(* One more element: it is added to what a list has, and is new or not.    *)
LEMMA TailIs ==
  ASSUME NEW T, NEW p \in Seq(T), p # <<>>, Distinct(p)
  PROVE  /\ Tail(p) \in Seq(T) /\ Distinct(Tail(p)) /\ p[1] \in Elements(p) /\ p[1] \in T
         /\ Elements(Tail(p)) = Elements(p) \ {p[1]}
<1>1. PICK q : q = Tail(p)
  OBVIOUS
<1>2. PICK m : m = Len(q)
  OBVIOUS
<1>3. /\ q \in Seq(T) /\ m \in Nat /\ Len(p) = m + 1 /\ \A k \in 1 .. m : q[k] = p[k + 1]
      /\ p[1] \in T /\ Len(q) = m
  BY <1>1, <1>2
<1>4. Distinct(q)
  <2>1. SUFFICES ASSUME NEW a \in 1 .. m, NEW b \in 1 .. m, q[a] = q[b]
                 PROVE  a = b
    BY <1>3 DEF Distinct
  <2>2. p[a + 1] = p[b + 1] /\ a + 1 \in 1 .. Len(p) /\ b + 1 \in 1 .. Len(p)
    BY <1>3, <2>1
  <2>3. a + 1 = b + 1
    BY <2>2 DEF Distinct
  <2> QED
    BY <1>3, <2>3
<1>5. p[1] \in Elements(p)
  <2>1. 1 \in 1 .. Len(p)
    BY <1>3
  <2> QED
    BY <2>1 DEF Elements
<1>6. ASSUME NEW x
      PROVE  x \in Elements(q) <=> x \in Elements(p) /\ x # p[1]
  <2>1. ASSUME x \in Elements(q)
        PROVE  x \in Elements(p) /\ x # p[1]
    <3>1. PICK k \in 1 .. m : x = q[k]
      BY <1>3, <2>1 DEF Elements
    <3>2. x = p[k + 1] /\ k + 1 \in 1 .. Len(p) /\ 1 \in 1 .. Len(p) /\ k + 1 # 1
      BY <1>3, <3>1
    <3> QED
      BY <3>2 DEF Elements, Distinct
  <2>2. ASSUME x \in Elements(p), x # p[1]
        PROVE  x \in Elements(q)
    <3>1. PICK k \in 1 .. Len(p) : x = p[k]
      BY <2>2 DEF Elements
    <3>2. k # 1 /\ k - 1 \in 1 .. m /\ (k - 1) + 1 = k
      BY <1>3, <2>2, <3>1
    <3>3. x = q[k - 1]
      BY <1>3, <3>1, <3>2
    <3> QED
      BY <1>3, <3>2, <3>3 DEF Elements
  <2> QED
    BY <2>1, <2>2
<1> QED
  BY <1>1, <1>3, <1>4, <1>5, <1>6

(* The item of the current stage that is run next was not run before.      *)
LEMMA RunItemStep ==
  ASSUME Inv, RunItem
  PROVE  Inv'
<1> DEFINE Items == [what : {"reference", "generate", "rsa", "aes", "math"}, lib : Libs \cup {"none"}]
<1>1. /\ pc = "stage" /\ pc' = pc /\ stage' = stage /\ ready' = ready /\ UNCHANGED optionvars
      /\ pending # <<>> /\ pending' = Tail(pending) /\ work' = Append(work, Item(Stage, pending[1]))
      /\ OptionsInv /\ WorkInv /\ ReadyInv /\ parsed = "yes" /\ parsed' = parsed /\ argv' = argv
      /\ stage \in 1 .. 5 /\ pending \in Seq(Libs \cup {"none"}) /\ Distinct(pending)
      /\ Elements(pending) \subseteq AskedLibs(Stage)
      /\ Performed = DoneBefore(stage) \cup
                       {Item(Stage, l) : l \in AskedLibs(Stage) \ Elements(pending)}
  BY DEF Inv, RunItem, StageInv, optionvars
<1>2. PICK s : s = Stage
  OBVIOUS
<1>3. PICK l : l = pending[1]
  OBVIOUS
<1>4. PICK q : q = Tail(pending)
  OBVIOUS
<1>5. /\ q \in Seq(Libs \cup {"none"}) /\ Distinct(q) /\ l \in Elements(pending)
      /\ l \in Libs \cup {"none"} /\ Elements(q) = Elements(pending) \ {l}
  BY <1>1, <1>3, <1>4, TailIs
<1>6. s = Stages[stage] /\ Stage' = s
  BY <1>1, <1>2 DEF Stage, Stages
<1>7. PICK x : x = Item(s, l)
  OBVIOUS
<1>8. x \in Items /\ x.what = s /\ x.lib = l
  BY <1>1, <1>5, <1>6, <1>7, StageNames DEF Item
<1>9. work \in Seq(Items) /\ work' = Append(work, x) /\ Len(work) \in Nat
  BY <1>1, <1>2, <1>3, <1>7 DEF WorkInv
<1>10. x \notin Performed
  <2>1. x \notin DoneBefore(stage)
    BY <1>1, <1>6, <1>8, DoneNext
  <2>2. \A m \in AskedLibs(s) \ Elements(pending) : Item(s, m) # x
    <3>1. \A m : Item(s, m).lib = m
      BY DEF Item
    <3> QED
      BY <1>5, <1>8, <3>1
  <2> QED
    BY <1>1, <1>2, <2>1, <2>2
<1> HIDE DEF Items
<1>11. /\ work' \in Seq(Items) /\ Len(work') = Len(work) + 1 /\ work'[Len(work) + 1] = x
       /\ \A n \in 1 .. Len(work) : work'[n] = work[n]
       /\ DOMAIN work' = 1 .. Len(work) + 1 /\ DOMAIN work = 1 .. Len(work)
  BY <1>8, <1>9
<1>12. Performed' = Performed \cup {x}
  BY <1>9, <1>11 DEF Performed
<1>13. IsFiniteSet(Performed') /\ Cardinality(Performed') = Len(work')
  <2>1. IsFiniteSet(Performed) /\ Cardinality(Performed) = Len(work)
    BY <1>1 DEF WorkInv
  <2> QED
    BY <1>10, <1>11, <1>12, <2>1, FS_AddElement
<1>14. KeysAreFresh'
  <2>1. KeysAreFresh
    BY <1>1 DEF WorkInv
  <2>2. ASSUME s \in {"rsa", "math"}
        PROVE  \E m \in 1 .. Len(work) : work[m].what = "generate"
    <3>1. l \in AskedLibs(s)
      BY <1>1, <1>2, <1>5
    <3>2. "none" \in AskedLibs("generate")
      BY <2>2, <3>1, AskedIs
    <3>3. 2 \in 1 .. stage - 1
      BY <1>1, <1>6, <2>2, StageNames
    <3>4. Item("generate", "none") \in ItemsFor(Stages[2])
      BY <3>2, StageNames DEF ItemsFor
    <3>5. Item("generate", "none") \in Performed
      BY <1>1, <3>3, <3>4, DoneNext
    <3> QED
      BY <1>11, <3>5 DEF Performed, Item
  <2>3. \A n \in 1 .. Len(work) : work[n].what \in {"rsa", "math"} =>
          \E m \in 1 .. n - 1 : work[m].what = "generate"
    BY <1>11, <2>1 DEF KeysAreFresh
  <2>4. SUFFICES ASSUME NEW n \in 1 .. Len(work) + 1, work'[n].what \in {"rsa", "math"}
                 PROVE  \E m \in 1 .. n - 1 : work'[m].what = "generate"
    BY <1>11 DEF KeysAreFresh
  <2>5. CASE n = Len(work) + 1
    <3>1. \E m \in 1 .. Len(work) : work[m].what = "generate"
      BY <1>8, <1>11, <2>2, <2>4, <2>5
    <3> QED
      BY <1>9, <1>11, <2>5, <3>1
  <2>6. CASE n # Len(work) + 1
    <3>1. n \in 1 .. Len(work) /\ work'[n] = work[n]
      BY <1>9, <1>11, <2>6
    <3>2. PICK m \in 1 .. n - 1 : work[m].what = "generate"
      BY <2>3, <2>4, <3>1
    <3>3. m \in 1 .. Len(work)
      BY <1>9, <3>1
    <3> QED
      BY <1>11, <3>2, <3>3
  <2> QED
    BY <2>5, <2>6
<1>15. WorkInv'
  BY <1>11, <1>13, <1>14 DEF WorkInv, Items
<1>16. ReadyInv' /\ OptionsInv'
  BY <1>1, OptionsKept DEF ReadyInv
<1>17. PICK k : k = stage
  OBVIOUS
<1>18. /\ AskedLibs(Stage)' = AskedLibs(s) /\ DoneBefore(stage)' = DoneBefore(stage)
  <2>1. AskedLibs(s)' = AskedLibs(s) /\ DoneBefore(k)' = DoneBefore(k)
    BY <1>1, SameAsked
  <2>2. AskedLibs(Stage)' = AskedLibs(s)
    BY <1>6, <2>1, Zenon DEF AskedLibs
  <2>3. DoneBefore(stage)' = DoneBefore(stage)
    BY <1>1, <1>17, <2>1, Zenon DEF DoneBefore
  <2> QED
    BY <2>2, <2>3
<1>19. Distinct(pending)' /\ Elements(pending)' = Elements(q) /\ pending' \in Seq(Libs \cup {"none"})
  BY <1>1, <1>4, <1>5 DEF Distinct, Elements
<1>20. Performed' = DoneBefore(stage) \cup {Item(s, m) : m \in AskedLibs(s) \ Elements(q)}
  <2>1. l \in AskedLibs(s)
    BY <1>1, <1>2, <1>5
  <2>2. AskedLibs(s) \ Elements(q) = (AskedLibs(s) \ Elements(pending)) \cup {l}
    BY <1>5, <2>1
  <2>3. Performed = DoneBefore(stage) \cup {Item(s, m) : m \in AskedLibs(s) \ Elements(pending)}
    BY <1>1, <1>2
  <2> QED
    BY <1>7, <1>12, <2>2, <2>3
<1>21. StageInv'
  <2>1. Elements(pending)' \subseteq AskedLibs(Stage)'
    BY <1>1, <1>2, <1>5, <1>18, <1>19
  <2>2. Performed' = DoneBefore(stage)' \cup
                       {Item(Stage', m) : m \in AskedLibs(Stage)' \ Elements(pending)'}
    BY <1>6, <1>18, <1>19, <1>20
  <2> QED
    BY <1>1, <1>19, <2>1, <2>2 DEF StageInv
<1> QED
  BY <1>15, <1>16, <1>21 DEF Inv

(* A stage that is left has run all that it was asked for.                 *)
LEMMA LeaveStageStep ==
  ASSUME Inv, LeaveStage
  PROVE  Inv'
<1>1. /\ pc = "stage" /\ pc' = "run" /\ stage' = stage + 1 /\ ready' = ready
      /\ UNCHANGED optionvars /\ pending = <<>> /\ pending' = pending /\ work' = work
      /\ OptionsInv /\ WorkInv /\ ReadyInv /\ parsed = "yes" /\ parsed' = parsed /\ argv' = argv
      /\ stage \in 1 .. 5 /\ pending \in Seq(Libs \cup {"none"})
      /\ Performed = DoneBefore(stage) \cup
                       {Item(Stage, l) : l \in AskedLibs(Stage) \ Elements(pending)}
  BY DEF Inv, LeaveStage, StageInv, optionvars
<1>2. WorkInv' /\ Performed' = Performed /\ OptionsInv' /\ ReadyInv'
  BY <1>1, WorkKept, OptionsKept DEF ReadyInv
<1>3. PICK k : k = stage + 1
  OBVIOUS
<1>4. Performed = DoneBefore(k)
  <2>1. Elements(pending) = {}
    <3>1. Len(<<>>) = 0
      OBVIOUS
    <3> QED
      BY <1>1, <3>1 DEF Elements
  <2>2. Stage = Stages[stage]
    BY DEF Stage
  <2>3. Performed = DoneBefore(stage) \cup ItemsFor(Stages[stage])
    BY <1>1, <2>1, <2>2 DEF ItemsFor
  <2> QED
    BY <1>1, <1>3, <2>3, DoneNext
<1>5. DoneBefore(stage)' = DoneBefore(k)
  <2>1. DoneBefore(k)' = DoneBefore(k)
    BY <1>1, SameAsked
  <2> QED
    BY <1>1, <1>3, <2>1, Zenon DEF DoneBefore
<1>6. stage' \in 1 .. 6
  BY <1>1
<1>7. StageInv'
  BY <1>1, <1>2, <1>4, <1>5, <1>6 DEF StageInv
<1> QED
  BY <1>2, <1>7 DEF Inv

(* A program that gives up has run nothing that was not asked for.         *)
LEMMA FatalStep ==
  ASSUME Inv, Fatal
  PROVE  Inv'
<1>1. /\ pc \in {"init", "stage"} /\ pc' = "exit" /\ stage' = stage /\ ready' = ready
      /\ UNCHANGED optionvars /\ pending' = pending /\ work' = work
      /\ OptionsInv /\ WorkInv /\ ReadyInv /\ StageInv /\ argv' = argv
  BY DEF Inv, Fatal, optionvars
<1>2. WorkInv' /\ Performed' = Performed /\ OptionsInv' /\ ReadyInv'
  BY <1>1, WorkKept, OptionsKept DEF ReadyInv
<1>3. Performed \subseteq DoneBefore(6)
  <2>1. CASE pc = "init"
    BY <2>1, <1>1 DEF StageInv, Performed
  <2>2. CASE pc = "stage"
    <3>1. /\ stage \in 1 .. 5 /\ Stage = Stages[stage]
          /\ Performed = DoneBefore(stage) \cup
                           {Item(Stage, l) : l \in AskedLibs(Stage) \ Elements(pending)}
      BY <1>1, <2>2 DEF StageInv, Stage
    <3>2. Performed \subseteq DoneBefore(stage) \cup ItemsFor(Stages[stage])
      BY <3>1 DEF ItemsFor
    <3> QED
      BY <3>1, <3>2, DoneNext
  <2> QED
    BY <1>1, <2>1, <2>2
<1>4. DoneBefore(6)' = DoneBefore(6)
  BY <1>1, SameAsked
<1>5. StageInv'
  BY <1>1, <1>2, <1>3, <1>4 DEF StageInv
<1> QED
  BY <1>2, <1>5 DEF Inv

(* The cleanup of the library that was initialized last.                   *)
LEMMA CleanupLibraryStep ==
  ASSUME Inv, CleanupLibrary
  PROVE  Inv'
<1>1. /\ pc = "cleanup" /\ ready' = SubSeq(ready, 1, Len(ready) - 1)
      /\ pc' = IF ready' = <<>> THEN "done" ELSE pc
      /\ stage' = stage /\ UNCHANGED optionvars /\ pending' = pending /\ work' = work
      /\ OptionsInv /\ WorkInv /\ ReadyInv /\ StageInv /\ argv' = argv
  BY DEF Inv, CleanupLibrary, optionvars
<1>2. WorkInv' /\ Performed' = Performed /\ OptionsInv'
  BY <1>1, WorkKept, OptionsKept
<1>3. pc' \in {"cleanup", "done"}
  BY <1>1
<1>4. ReadyInv'
  <2>1. Initialized \in Seq({"openssl", "mbedtls", "gnutls", "tomcrypt"}) /\ Len(Initialized) = 4
    BY DEF Initialized
  <2>2. PICK m : m = Len(ready)
    OBVIOUS
  <2>3. m \in 1 .. 4 /\ ready = SubSeq(Initialized, 1, m)
    BY <1>1, <2>2 DEF ReadyInv
  <2>4. SubSeq(SubSeq(Initialized, 1, m), 1, m - 1) = SubSeq(Initialized, 1, m - 1)
    BY <2>1, <2>3
  <2>5. Len(SubSeq(Initialized, 1, m - 1)) = m - 1
    BY <2>1, <2>3
  <2>6. ready' = SubSeq(Initialized, 1, m - 1) /\ Len(ready') = m - 1
    BY <1>1, <2>2, <2>3, <2>4, <2>5
  <2>7. m = 1 => ready' = <<>>
    BY <2>1, <2>6
  <2> QED
    BY <1>1, <1>3, <2>3, <2>6, <2>7 DEF ReadyInv
<1>5. DoneBefore(6)' = DoneBefore(6) /\ Performed = DoneBefore(6)
  BY <1>1, SameAsked DEF StageInv
<1>6. StageInv'
  <2>1. parsed' = parsed
    BY <1>1 DEF optionvars
  <2> QED
    BY <1>1, <1>2, <1>3, <1>5, <2>1 DEF StageInv
<1> QED
  BY <1>2, <1>4, <1>6 DEF Inv

(* A step that changes nothing.                                            *)
LEMMA StutterStep ==
  ASSUME Inv, UNCHANGED vars
  PROVE  Inv'
<1>1. /\ UNCHANGED optionvars /\ argv' = argv /\ parsed' = parsed /\ pc' = pc /\ ready' = ready
      /\ stage' = stage /\ pending' = pending /\ work' = work
      /\ OptionsInv /\ WorkInv /\ ReadyInv /\ StageInv
  BY DEF Inv, vars, optionvars, programvars
<1>2. WorkInv' /\ Performed' = Performed /\ OptionsInv' /\ ReadyInv'
  BY <1>1, WorkKept, OptionsKept DEF ReadyInv
<1>3. PICK k : k = stage
  OBVIOUS
<1>4. PICK s : s = Stage
  OBVIOUS
<1>5. DoneBefore(6)' = DoneBefore(6) /\ DoneBefore(k)' = DoneBefore(k)
      /\ AskedLibs(s)' = AskedLibs(s)
  BY <1>1, SameAsked
<1>6. DoneBefore(stage)' = DoneBefore(stage) /\ Stage' = Stage
  BY <1>1, <1>3, <1>5, Zenon DEF DoneBefore, Stage, Stages
<1>7. AskedLibs(Stage)' = AskedLibs(Stage)
  BY <1>4, <1>5, <1>6, Zenon DEF AskedLibs
<1>8. Elements(pending)' = Elements(pending) /\ (Distinct(pending)' <=> Distinct(pending))
  BY <1>1 DEF Elements, Distinct
<1>9. StageInv'
  BY <1>1, <1>2, <1>5, <1>6, <1>7, <1>8 DEF StageInv
<1> QED
  BY <1>2, <1>9 DEF Inv

(* The invariant holds.                                                    *)
LEMMA Invariance == Spec => []Inv
<1>1. ASSUME Inv, [Next]_vars
      PROVE  Inv'
  BY <1>1, InitLibraryStep, ParseStep, EnterStageStep, RunItemStep, FatalStep, LeaveStageStep,
     CleanupLibraryStep, StutterStep DEF Next
<1> QED
  BY <1>1, InvInit, PTL DEF Spec

-----------------------------------------------------------------------------

(* The program's state is what main() can reach: the libraries are         *)
(* initialized in one order and cleaned up in the reverse one.             *)
THEOREM TypeCorrect == Spec => []TypeOK
<1>1. ASSUME Inv
      PROVE  TypeOK
  BY <1>1, StageNames DEF Inv, OptionsInv, ReadyInv, StageInv, TypeOK
<1> QED
  BY <1>1, Invariance, PTL

(* options.cpp: for any list of arguments, what they select is the set of  *)
(* the options given, whatever their order; the last of a kind decides a   *)
(* value; and only an invalid command line ends the program.               *)
THEOREM ArgumentsMeanASet == Spec => []OrderIrrelevant
<1>1. ASSUME Inv
      PROVE  OrderIrrelevant
  BY <1>1 DEF Inv, OptionsInv
<1> QED
  BY <1>1, Invariance, PTL

(* run_all_benchmarks(): for any arguments and any libraries, whatever     *)
(* they have, each benchmark that is asked for is run once and nothing     *)
(* else is; all of them when the program comes to its end.                 *)
THEOREM AskedIsRun == Spec => []RunsWhatIsAsked
<1>1. ASSUME Inv
      PROVE  RunsWhatIsAsked
  <2>1. Performed \subseteq DoneBefore(6)
    <3>1. pc \in {"init", "options"} => Performed = {}
      BY <1>1 DEF Inv, StageInv, Performed
    <3>2. pc = "run" => Performed \subseteq DoneBefore(6)
      <4>1. ASSUME pc = "run"
            PROVE  Performed \subseteq DoneBefore(6)
        <5>1. Performed = DoneBefore(stage) /\ stage \in 1 .. 6
          BY <1>1, <4>1 DEF Inv, StageInv
        <5>2. stage \in 1 .. 5 => DoneBefore(stage) \subseteq DoneBefore(6)
          BY DoneNext
        <5> QED
          BY <5>1, <5>2
      <4> QED
        BY <4>1
    <3>3. pc = "stage" => Performed \subseteq DoneBefore(6)
      <4>1. ASSUME pc = "stage"
            PROVE  Performed \subseteq DoneBefore(6)
        <5>1. /\ stage \in 1 .. 5 /\ Stage = Stages[stage]
              /\ Performed = DoneBefore(stage) \cup
                               {Item(Stage, l) : l \in AskedLibs(Stage) \ Elements(pending)}
          BY <1>1, <4>1 DEF Inv, StageInv, Stage
        <5>2. Performed \subseteq DoneBefore(stage) \cup ItemsFor(Stages[stage])
          BY <5>1 DEF ItemsFor
        <5> QED
          BY <5>1, <5>2, DoneNext
      <4> QED
        BY <4>1
    <3> QED
      BY <1>1, <3>1, <3>2, <3>3 DEF Inv, StageInv
  <2> QED
    BY <1>1, <2>1, AllIsAsked DEF Inv, StageInv, WorkInv, RunsWhatIsAsked
<1> QED
  BY <1>1, Invariance, PTL

(* run_all_benchmarks(): the key files are generated before any benchmark  *)
(* that reads them, for any command line that leads to one.                *)
THEOREM KeysComeFirst == Spec => []KeysAreFresh
<1>1. ASSUME Inv
      PROVE  KeysAreFresh
  BY <1>1 DEF Inv, WorkInv
<1> QED
  BY <1>1, Invariance, PTL

=============================================================================
