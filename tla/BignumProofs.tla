---------------------------- MODULE BignumProofs ----------------------------
(***************************************************************************)
(* Proofs about class bignum, for any number of objects and addresses:     *)
(* every BIGNUM has one owner, and objects have value semantics.           *)
(***************************************************************************)
EXTENDS Bignum, TLAPS

(* The invariants of Bignum, address by address. *)
Sole == \A o, p \in Objects : Alive(o) /\ ptr[o] = ptr[p] => o = p
RawSole == \A o \in Objects : ptr[o] \notin raw
Held == \A h \in Handles : heap[h] # Free <=> (h \in raw \/ \E o \in Objects : ptr[o] = h)

Inv == TypeOK /\ Sole /\ RawSole /\ Held /\ broken = FALSE

(* The invariant holds initially. *)
LEMMA InitInv == Init => Inv
BY BignumAssumption DEF Init, Inv, TypeOK, Sole, RawSole, Held, Alive

(* The address of an object is allocated, and freeing it is sound. *)
LEMMA AliveHeld ==
  ASSUME Inv, NEW o \in Objects, Alive(o)
  PROVE  ptr[o] \in Handles /\ heap[ptr[o]] \in Values /\ ~FreedTwice(ptr[o])
BY BignumAssumption DEF Inv, TypeOK, Held, Alive, FreedTwice

(* Every operation of the class preserves the invariant. *)
LEMMA StepInv == Inv /\ [Next]_vars => Inv'
<1> SUFFICES ASSUME Inv, [Next]_vars PROVE Inv'
  OBVIOUS
<1> USE BignumAssumption DEF Inv, TypeOK, Sole, RawSole, Held, Alive
<1>1. CASE GetParam
  BY <1>1 DEF GetParam
<1>2. ASSUME NEW o \in Objects, Construct(o) PROVE Inv'
  <2>1. PICK h \in Handles :
          /\ ptr' = [ptr EXCEPT ![o] = h]
          /\ \/ heap[h] = Free /\ heap' = [heap EXCEPT ![h] = Zero] /\ UNCHANGED raw
             \/ h \in raw /\ raw' = raw \ {h} /\ UNCHANGED heap
    BY <1>2 DEF Construct
  <2>2. ptr[o] = Absent /\ broken' = broken
    BY <1>2 DEF Construct
  <2>3. TypeOK'
    BY <2>1, <2>2
  <2>4. h \notin {ptr[p] : p \in Objects}
    BY <2>1
  <2>5. Sole' /\ RawSole'
    BY <2>1, <2>2, <2>4
  <2>6. Held'
    BY <2>1, <2>2, <2>4
  <2> QED
    BY <2>2, <2>3, <2>5, <2>6
<1>3. ASSUME NEW o \in Objects, Capture(o) PROVE Inv'
  <2> DEFINE freed == BN_free(heap, ptr[o])
  <2>1. PICK h \in Handles :
          /\ ptr' = [ptr EXCEPT ![o] = h]
          /\ \/ freed[h] = Free /\ heap' = [freed EXCEPT ![h] = Zero] /\ UNCHANGED raw
             \/ h \in raw /\ raw' = raw \ {h} /\ heap' = freed
    BY <1>3 DEF Capture
  <2>2. ptr[o] \in Handles /\ ptr[o] # Null /\ broken' = broken
    BY <1>3, AliveHeld DEF Capture
  <2>3. freed = [heap EXCEPT ![ptr[o]] = Free]
    BY <2>2 DEF BN_free
  <2> HIDE DEF freed
  <2>4. freed \in [Handles -> Values \cup {Free}]
    BY <2>2, <2>3
  <2>5. TypeOK'
    BY <2>1, <2>2, <2>4
  <2>6. h \notin {ptr[p] : p \in Objects \ {o}}
    BY <2>1, <2>2, <2>3
  <2>7. Sole' /\ RawSole'
    BY <2>1, <2>2, <2>3, <2>6
  <2>8. Held'
    BY <2>1, <2>2, <2>3, <2>6
  <2> QED
    BY <2>2, <2>5, <2>7, <2>8
<1>4. ASSUME NEW o \in Objects, Compute(o) PROVE Inv'
  BY <1>4, AliveHeld DEF Compute
<1>5. ASSUME NEW o \in Objects, Destroy(o) PROVE Inv'
  <2>1. CASE ptr[o] = Null
    BY <1>5, <2>1 DEF Destroy, BN_free, FreedTwice
  <2>2. CASE ptr[o] # Null
    <3>1. ptr[o] \in Handles /\ broken' = broken /\ raw' = raw
      BY <1>5, <2>2, AliveHeld DEF Destroy
    <3>2. ptr' = [ptr EXCEPT ![o] = Absent] /\ heap' = [heap EXCEPT ![ptr[o]] = Free]
      BY <1>5, <2>2 DEF Destroy, BN_free
    <3> QED
      BY <3>1, <3>2
  <2> QED
    BY <2>1, <2>2
<1>6. ASSUME NEW o \in Objects, NEW p \in Objects, CopyConstruct(o, p) PROVE Inv'
  <2>1. PICK h \in Handles :
          /\ heap[h] = Free
          /\ ptr' = [ptr EXCEPT ![o] = h]
          /\ heap' = [heap EXCEPT ![h] = heap[ptr[p]]]
    BY <1>6 DEF CopyConstruct
  <2>2. ptr[o] = Absent /\ heap[ptr[p]] \in Values /\ raw' = raw /\ broken' = broken
    BY <1>6, AliveHeld DEF CopyConstruct
  <2>3. h \notin raw /\ \A q \in Objects : ptr[q] # h
    BY <2>1
  <2>4. TypeOK' /\ Sole' /\ RawSole'
    BY <2>1, <2>2, <2>3
  <2>5. Held'
    BY <2>1, <2>2, <2>3
  <2> QED
    BY <2>2, <2>4, <2>5
<1>7. ASSUME NEW o \in Objects, NEW p \in Objects, MoveConstruct(o, p) PROVE Inv'
  BY <1>7 DEF MoveConstruct
<1>8. ASSUME NEW o \in Objects, NEW p \in Objects, CopyAssign(o, p) PROVE Inv'
  BY <1>8, AliveHeld DEF CopyAssign
<1>9. ASSUME NEW o \in Objects, NEW p \in Objects, MoveAssign(o, p) PROVE Inv'
  <2>1. CASE o = p
    BY <1>9, <2>1 DEF MoveAssign
  <2>2. CASE o # p
    <3>1. /\ ptr[o] \in Handles /\ ptr[p] \in Handles /\ ptr[o] # ptr[p]
          /\ broken' = broken /\ raw' = raw
      BY <1>9, <2>2, AliveHeld DEF MoveAssign
    <3>2. /\ ptr' = [ptr EXCEPT ![o] = ptr[p], ![p] = Null]
          /\ heap' = [heap EXCEPT ![ptr[o]] = Free]
      BY <1>9, <2>2, <3>1 DEF MoveAssign, BN_free
    <3>3. TypeOK' /\ Sole' /\ RawSole'
      BY <2>2, <3>1, <3>2
    <3>4. Held'
      BY <2>2, <3>1, <3>2
    <3> QED
      BY <3>1, <3>3, <3>4
  <2> QED
    BY <2>1, <2>2
<1>10. CASE UNCHANGED vars
  BY <1>10 DEF vars
<1> QED
  BY <1>1, <1>2, <1>3, <1>4, <1>5, <1>6, <1>7, <1>8, <1>9, <1>10
     DEF Next, Changed, Copied, Moved

(* The inductive invariant: one owner for each address, and an address     *)
(* holds a BIGNUM exactly when it has an owner (bignum.cpp:14-73).         *)
THEOREM Invariance == Spec => []Inv
BY InitInv, StepInv, PTL DEF Spec

(* The variables of Bignum keep their types.                               *)
THEOREM TypeCorrect == Spec => []TypeOK
<1>1. Inv => TypeOK
  BY DEF Inv
<1> QED
  BY <1>1, Invariance, PTL

(* No BIGNUM has two owners, for any use of the class.                     *)
THEOREM Ownership == Spec => []SoleOwner
<1>1. Inv => SoleOwner
  BY BignumAssumption DEF Inv, TypeOK, Sole, RawSole, SoleOwner, Owned, Alive
<1> QED
  BY <1>1, Invariance, PTL

(* No BIGNUM is leaked, used after it was freed or freed twice.            *)
THEOREM Safety == Spec => []NoLeakNoDangling
<1>1. Inv => NoLeakNoDangling
  <2> SUFFICES ASSUME Inv PROVE NoLeakNoDangling
    OBVIOUS
  <2>1. \A h \in Handles : heap[h] # Free <=> h \in Owned \cup raw
    BY DEF Inv, Held, Owned, Alive
  <2>2. Owned \cup raw \subseteq Handles
    BY DEF Inv, TypeOK, Owned, Alive
  <2> QED
    BY <2>1, <2>2 DEF Inv, NoLeakNoDangling
<1> QED
  BY <1>1, Invariance, PTL

-----------------------------------------------------------------------------
(* Value semantics: each call changes the number of one object, copies or  *)
(* moves it, and a step which is no call changes nothing an object sees.   *)

Number == [o \in Objects |-> NumberOf(o)]

Changes(o) == \E v \in Values \cup {Absent} : Number' = [Number EXCEPT ![o] = v]
Copies(o, p) ==
  /\ Number[p] \in Values
  /\ Number' = [Number EXCEPT ![o] = Number[p]]
Moves(o, p) ==
  /\ Number[p] \in Values
  /\ Number' = IF o = p THEN Number ELSE [Number EXCEPT ![o] = Number[p], ![p] = Null]

(* An object whose pointer did not change, to an address which did not     *)
(* either, has the same number.                                            *)
LEMMA SameNumber ==
  ASSUME NEW o \in Objects, ptr'[o] = ptr[o], Alive(o) => heap'[ptr[o]] = heap[ptr[o]]
  PROVE  NumberOf(o)' = NumberOf(o)
BY DEF NumberOf, Alive

(* When only the number of o may have changed, one new number is enough.   *)
LEMMA OneChange ==
  ASSUME NEW o \in Objects,
         \A q \in Objects \ {o} : NumberOf(q)' = NumberOf(q),
         NumberOf(o)' \in Values \cup {Absent}
  PROVE  Changes(o)
<1>1. Number' = [Number EXCEPT ![o] = NumberOf(o)']
  BY DEF Number
<1> QED
  BY <1>1 DEF Changes

(* When o gets the number of p, and no other object changes, it is a copy. *)
LEMMA OneCopy ==
  ASSUME Inv, NEW o \in Objects, NEW p \in Objects, Alive(p),
         \A q \in Objects \ {o} : NumberOf(q)' = NumberOf(q),
         NumberOf(o)' = NumberOf(p)
  PROVE  Copies(o, p)
<1>1. NumberOf(p) \in Values
  BY AliveHeld DEF NumberOf
<1>2. Number' = [Number EXCEPT ![o] = NumberOf(p)]
  BY DEF Number
<1> QED
  BY <1>1, <1>2 DEF Copies, Number

(* Every step changes the numbers as its call says.                        *)
LEMMA StepNumber ==
  ASSUME Inv, [Next]_vars
  PROVE  \/ Number' = Number /\ asked' = asked
         \/ \E o \in Objects : Changes(o) /\ asked' = <<"change", o>>
         \/ \E o, p \in Objects : Copies(o, p) /\ asked' = <<"copy", o, p>>
         \/ \E o, p \in Objects : Moves(o, p) /\ asked' = <<"move", o, p>>
<1> USE BignumAssumption
<1>0. TypeOK /\ Sole /\ RawSole /\ Held /\ Inv'
  BY StepInv DEF Inv
<1>1. ASSUME GetParam PROVE Number' = Number
  <2>1. PICK h \in Handles, v \in Values :
          heap[h] = Free /\ heap' = [heap EXCEPT ![h] = v] /\ ptr' = ptr
    BY <1>1 DEF GetParam
  <2>2. \A q \in Objects : NumberOf(q)' = NumberOf(q)
    BY <1>0, <2>1 DEF Held, TypeOK, NumberOf, Alive
  <2> QED
    BY <2>2 DEF Number
<1>2. ASSUME NEW o \in Objects, Construct(o) PROVE Changes(o)
  <2>1. PICK h \in Handles :
          /\ ptr' = [ptr EXCEPT ![o] = h]
          /\ \/ heap[h] = Free /\ heap' = [heap EXCEPT ![h] = Zero] /\ UNCHANGED raw
             \/ h \in raw /\ raw' = raw \ {h} /\ UNCHANGED heap
    BY <1>2 DEF Construct
  <2>2. \A q \in Objects \ {o} : NumberOf(q)' = NumberOf(q)
    BY <1>0, <2>1 DEF Held, RawSole, TypeOK, NumberOf, Alive
  <2>3. NumberOf(o)' \in Values
    BY <1>0, <2>1 DEF Held, TypeOK, NumberOf, Alive
  <2> QED
    BY <2>2, <2>3, OneChange
<1>3. ASSUME NEW o \in Objects, Capture(o) PROVE Changes(o)
  <2>1. PICK h \in Handles : ptr' = [ptr EXCEPT ![o] = h]
    BY <1>3 DEF Capture
  <2>2. \A q \in Objects \ {o} : NumberOf(q)' = NumberOf(q)
    BY <1>3, <1>0 DEF Capture, BN_free, Held, Sole, RawSole, TypeOK, NumberOf, Alive
  <2>3. Alive(o)' /\ NumberOf(o)' \in Values
    <3>1. ptr'[o] = h /\ h \in Handles
      BY <1>0, <2>1 DEF TypeOK
    <3>2. heap'[h] \in Values
      BY <1>0, <3>1, <2>1 DEF Inv, Held, TypeOK
    <3> QED
      BY <3>1, <3>2 DEF Alive, NumberOf
  <2> QED
    BY <2>2, <2>3, OneChange
<1>4. ASSUME NEW o \in Objects, Compute(o) PROVE Changes(o)
  <2>1. PICK v \in Values : heap' = [heap EXCEPT ![ptr[o]] = v] /\ ptr' = ptr /\ Alive(o)
    BY <1>4 DEF Compute
  <2>2. \A q \in Objects \ {o} : NumberOf(q)' = NumberOf(q)
    BY <1>0, <2>1 DEF Sole, TypeOK, NumberOf, Alive
  <2>3. NumberOf(o)' \in Values
    BY <1>0, <2>1 DEF TypeOK, NumberOf, Alive
  <2> QED
    BY <2>2, <2>3, OneChange
<1>5. ASSUME NEW o \in Objects, Destroy(o) PROVE Changes(o)
  <2>1. ptr' = [ptr EXCEPT ![o] = Absent] /\ ptr[o] # Absent
        /\ heap' = IF ptr[o] = Null THEN heap ELSE [heap EXCEPT ![ptr[o]] = Free]
    BY <1>5 DEF Destroy, BN_free
  <2>2. \A q \in Objects \ {o} : NumberOf(q)' = NumberOf(q)
    BY <1>0, <2>1 DEF Sole, TypeOK, NumberOf, Alive
  <2>3. NumberOf(o)' = Absent
    BY <1>0, <2>1 DEF TypeOK, NumberOf, Alive
  <2> QED
    BY <2>2, <2>3, OneChange
<1>6. ASSUME NEW o \in Objects, NEW p \in Objects, CopyConstruct(o, p) PROVE Copies(o, p)
  <2>1. PICK h \in Handles :
          /\ heap[h] = Free
          /\ ptr' = [ptr EXCEPT ![o] = h]
          /\ heap' = [heap EXCEPT ![h] = heap[ptr[p]]]
    BY <1>6 DEF CopyConstruct
  <2>2. Alive(p) /\ heap[ptr[p]] \in Values
    BY <1>6, AliveHeld DEF CopyConstruct
  <2>3. \A q \in Objects \ {o} : NumberOf(q)' = NumberOf(q)
    BY <1>0, <2>1 DEF Held, TypeOK, NumberOf, Alive
  <2>4. NumberOf(o)' = NumberOf(p)
    BY <1>0, <2>1, <2>2 DEF TypeOK, NumberOf, Alive
  <2> QED
    BY <2>2, <2>3, <2>4, OneCopy
<1>7. ASSUME NEW o \in Objects, NEW p \in Objects, MoveConstruct(o, p) PROVE Moves(o, p)
  <2>1. /\ ptr' = [ptr EXCEPT ![o] = ptr[p], ![p] = Null] /\ heap' = heap
        /\ ptr[o] = Absent /\ ptr[p] \in Handles /\ o # p
    BY <1>7 DEF MoveConstruct, Alive
  <2>2. \A q \in Objects \ {o, p} : NumberOf(q)' = NumberOf(q)
    BY <1>0, <2>1 DEF TypeOK, NumberOf, Alive
  <2>3. NumberOf(o)' = NumberOf(p) /\ NumberOf(p)' = Null /\ NumberOf(p) \in Values
    BY <1>0, <1>7, <2>1, AliveHeld DEF TypeOK, NumberOf, Alive, MoveConstruct
  <2> QED
    BY <2>1, <2>2, <2>3 DEF Moves, Number
<1>8. ASSUME NEW o \in Objects, NEW p \in Objects, CopyAssign(o, p) PROVE Copies(o, p)
  <2>1. heap' = [heap EXCEPT ![ptr[o]] = heap[ptr[p]]] /\ ptr' = ptr /\ Alive(o)
    BY <1>8 DEF CopyAssign
  <2>2. Alive(p) /\ heap[ptr[p]] \in Values
    BY <1>8, AliveHeld DEF CopyAssign
  <2>3. \A q \in Objects \ {o} : NumberOf(q)' = NumberOf(q)
    BY <1>0, <2>1 DEF Sole, TypeOK, NumberOf, Alive
  <2>4. NumberOf(o)' = NumberOf(p)
    BY <1>0, <2>1, <2>2 DEF TypeOK, NumberOf, Alive
  <2> QED
    BY <2>2, <2>3, <2>4, OneCopy
<1>9. ASSUME NEW o \in Objects, NEW p \in Objects, MoveAssign(o, p) PROVE Moves(o, p)
  <2>0. NumberOf(p) \in Values
    BY <1>9, AliveHeld DEF MoveAssign, NumberOf
  <2>1. CASE o = p
    <3>1. Number' = Number
      BY <1>9, <2>1 DEF MoveAssign, Number, NumberOf, Alive
    <3> QED
      BY <2>0, <2>1, <3>1 DEF Moves, Number
  <2>2. CASE o # p
    <3>1. /\ ptr' = [ptr EXCEPT ![o] = ptr[p], ![p] = Null]
          /\ heap' = [heap EXCEPT ![ptr[o]] = Free]
          /\ ptr[o] \in Handles /\ ptr[p] \in Handles /\ ptr[o] # ptr[p]
      BY <1>0, <1>9, <2>2 DEF MoveAssign, BN_free, Alive, Sole
    <3>2. \A q \in Objects \ {o, p} : NumberOf(q)' = NumberOf(q)
      BY <1>0, <3>1 DEF TypeOK, Sole, NumberOf, Alive
    <3>3. NumberOf(o)' = NumberOf(p) /\ NumberOf(p)' = Null
      BY <1>0, <2>2, <3>1 DEF TypeOK, NumberOf, Alive
    <3> QED
      BY <2>0, <2>2, <3>2, <3>3 DEF Moves, Number
  <2> QED
    BY <2>1, <2>2
<1>10. CASE UNCHANGED vars
  <2>1. Number' = Number
    BY <1>10 DEF vars, Number, NumberOf, Alive
  <2> QED
    BY <1>10, <2>1 DEF vars
<1>11. ASSUME NEW o \in Objects, Changed(o) PROVE Changes(o)
  BY <1>2, <1>3, <1>4, <1>5, <1>11 DEF Changed
<1>12. ASSUME NEW o \in Objects, NEW p \in Objects, Copied(o, p) PROVE Copies(o, p)
  BY <1>6, <1>8, <1>12 DEF Copied
<1>13. ASSUME NEW o \in Objects, NEW p \in Objects, Moved(o, p) PROVE Moves(o, p)
  BY <1>7, <1>9, <1>13 DEF Moved
<1> QED
  BY <1>1, <1>10, <1>11, <1>12, <1>13 DEF Next

(* Class bignum implements Numbers: whatever the code which uses it does,  *)
(* a copy or a move gives the number of its source, and an operation on    *)
(* one object is never seen through another one.                           *)
THEOREM Implements == Spec => ValueSemantics
<1>1. Init => Promise!Init
  BY BignumAssumption DEF Init, Promise!Init, NumberOf, Alive
<1>2. Inv /\ [Next]_vars => [Promise!Next]_<<Number, asked>>
  <2> SUFFICES ASSUME Inv, [Next]_vars, ~(Number' = Number /\ asked' = asked)
               PROVE  Promise!Next
    OBVIOUS
  <2>1. CASE \E o \in Objects : Changes(o) /\ asked' = <<"change", o>>
    BY <2>1 DEF Promise!Next, Promise!Change, Changes, Number
  <2>2. CASE \E o, p \in Objects : Copies(o, p) /\ asked' = <<"copy", o, p>>
    BY <2>2 DEF Promise!Next, Promise!Copy, Copies, Number
  <2>3. CASE \E o, p \in Objects : Moves(o, p) /\ asked' = <<"move", o, p>>
    BY <2>3 DEF Promise!Next, Promise!Move, Moves, Number
  <2> QED
    BY <2>1, <2>2, <2>3, StepNumber
<1> QED
  BY <1>1, <1>2, Invariance, PTL DEF Spec, ValueSemantics, Promise!Spec, Number

=============================================================================
