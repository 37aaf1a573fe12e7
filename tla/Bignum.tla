------------------------------- MODULE Bignum -------------------------------
(***************************************************************************)
(* Class bignum, bignum.cpp: an object owns one BIGNUM of OpenSSL through  *)
(* a pointer.  The code which uses the class is free: it constructs,       *)
(* copies, moves, captures and destroys in any order, within two rules     *)
(* which the class states: an object which was moved is used no more,      *)
(* "except in destructor" (bignum.cpp:35, 53), and a captured pointer is   *)
(* given away (bignum.h:34).  A failed allocation ends the program.        *)
(***************************************************************************)
EXTENDS FiniteSets

CONSTANTS
  Objects,   (* The variables of type bignum.                             *)
  Handles,   (* Addresses of BIGNUM structures.                           *)
  Values,    (* Numbers.                                                  *)
  Zero,      (* The number in a new BIGNUM.                               *)
  Free,      (* Content of an address without a BIGNUM.                   *)
  Absent,    (* An object not constructed, or destroyed.                  *)
  Null       (* The null pointer, left by a move.                         *)

ASSUME BignumAssumption ==
  /\ Zero \in Values /\ Free \notin Values
  /\ Absent \notin Handles /\ Null \notin Handles /\ Absent # Null
  /\ Absent \notin Values /\ Null \notin Values

VARIABLES
  heap,    (* [Handles -> Values or Free].                                *)
  ptr,     (* [Objects -> Handles, Null or Absent]: _ptr.                 *)
  raw,     (* Addresses returned by OpenSSL to the code using the class.  *)
  broken,  (* Ghost: a BIGNUM was freed twice.                            *)
  asked    (* Ghost: the last call of the class and its operands.         *)

vars == <<heap, ptr, raw, broken, asked>>

Init ==
  /\ heap = [h \in Handles |-> Free]
  /\ ptr = [o \in Objects |-> Absent]
  /\ raw = {} /\ broken = FALSE /\ asked = <<"none">>

Alive(o) == ptr[o] \in Handles

(* BN_free, which accepts a null pointer. *)
BN_free(hp, h) == IF h = Null THEN hp ELSE [hp EXCEPT ![h] = Free]
FreedTwice(h) == h # Null /\ heap[h] = Free

(* Mutant of GetParam: failure is not checked. *)
GetParamUnchecked ==
  /\ raw' = raw \cup {Null}
  /\ UNCHANGED <<heap, ptr, broken>>

(* EVP_PKEY_get_bn_param: a new BIGNUM which the caller owns, or a fatal   *)
(* error.                                                                  *)
GetParam ==
  \E h \in Handles, v \in Values :
    /\ heap[h] = Free
    /\ heap' = [heap EXCEPT ![h] = v]
    /\ raw' = raw \cup {h}
    /\ UNCHANGED <<ptr, broken>>

(* bignum(nullptr) and bignum(bn). *)
Construct(o) ==
  /\ ptr[o] = Absent
  /\ \E h \in Handles :
       /\ ptr' = [ptr EXCEPT ![o] = h]
       /\ \/ heap[h] = Free /\ heap' = [heap EXCEPT ![h] = Zero] /\ UNCHANGED raw
          \/ h \in raw /\ raw' = raw \ {h} /\ UNCHANGED heap
  /\ UNCHANGED broken

(* Mutant of CopyConstruct: the pointer is copied. *)
CopyConstructShallow(o, p) ==
  /\ ptr[o] = Absent /\ Alive(p)
  /\ ptr' = [ptr EXCEPT ![o] = ptr[p]]
  /\ UNCHANGED <<heap, raw, broken>>

CopyConstruct(o, p) ==
  /\ ptr[o] = Absent /\ Alive(p)
  /\ \E h \in Handles :
       /\ heap[h] = Free
       /\ ptr' = [ptr EXCEPT ![o] = h]
       /\ heap' = [heap EXCEPT ![h] = heap[ptr[p]]]
  /\ UNCHANGED <<raw, broken>>

MoveConstruct(o, p) ==
  /\ ptr[o] = Absent /\ Alive(p)
  /\ ptr' = [ptr EXCEPT ![o] = ptr[p], ![p] = Null]
  /\ UNCHANGED <<heap, raw, broken>>

(* Mutant of CopyAssign: the arguments of BN_copy are swapped. *)
CopyAssignSwapped(o, p) ==
  /\ Alive(o) /\ Alive(p)
  /\ heap' = [heap EXCEPT ![ptr[p]] = heap[ptr[o]]]
  /\ UNCHANGED <<ptr, raw, broken>>

(* BN_copy; the object which receives the value keeps its BIGNUM. *)
CopyAssign(o, p) ==
  /\ Alive(o) /\ Alive(p)
  /\ heap' = [heap EXCEPT ![ptr[o]] = heap[ptr[p]]]
  /\ UNCHANGED <<ptr, raw, broken>>

(* Mutant of MoveAssign: moving an object to itself is not recognized. *)
MoveAssignSelf(o, p) ==
  /\ Alive(o) /\ Alive(p)
  /\ broken' = (broken \/ FreedTwice(ptr[o]))
  /\ heap' = BN_free(heap, ptr[o])
  /\ ptr' = [ptr EXCEPT ![o] = ptr[p], ![p] = Null]
  /\ UNCHANGED raw

MoveAssign(o, p) ==
  /\ Alive(o) /\ Alive(p)
  /\ IF o = p
       THEN UNCHANGED <<heap, ptr, broken>>
       ELSE /\ broken' = (broken \/ FreedTwice(ptr[o]))
            /\ heap' = BN_free(heap, ptr[o])
            /\ ptr' = [ptr EXCEPT ![o] = ptr[p], ![p] = Null]
  /\ UNCHANGED raw

(* Mutant of Capture: the previous BIGNUM is forgotten. *)
CaptureForget(o) ==
  /\ Alive(o)
  /\ \E h \in raw :
       /\ ptr' = [ptr EXCEPT ![o] = h]
       /\ raw' = raw \ {h}
       /\ UNCHANGED <<heap, broken>>

(* capture(), of a pointer or of nullptr; copy(nullptr) does the same. *)
Capture(o) ==
  /\ Alive(o)
  /\ broken' = (broken \/ FreedTwice(ptr[o]))
  /\ LET freed == BN_free(heap, ptr[o])
     IN  \E h \in Handles :
           /\ ptr' = [ptr EXCEPT ![o] = h]
           /\ \/ freed[h] = Free /\ heap' = [freed EXCEPT ![h] = Zero] /\ UNCHANGED raw
              \/ h \in raw /\ raw' = raw \ {h} /\ heap' = freed

(* A BN_ function given ptr() as its result, or copy() of a BIGNUM which  *)
(* belongs to a key.                                                      *)
Compute(o) ==
  /\ Alive(o)
  /\ \E v \in Values : heap' = [heap EXCEPT ![ptr[o]] = v]
  /\ UNCHANGED <<ptr, raw, broken>>

Destroy(o) ==
  /\ ptr[o] # Absent
  /\ broken' = (broken \/ FreedTwice(ptr[o]))
  /\ heap' = BN_free(heap, ptr[o])
  /\ ptr' = [ptr EXCEPT ![o] = Absent]
  /\ UNCHANGED raw

(* What the code which uses the class asks for. *)
Changed(o) == Construct(o) \/ Capture(o) \/ Compute(o) \/ Destroy(o)
Copied(o, p) == CopyConstruct(o, p) \/ CopyAssign(o, p)
Moved(o, p) == MoveConstruct(o, p) \/ MoveAssign(o, p)

Next ==
  \/ GetParam /\ UNCHANGED asked
  \/ \E o \in Objects : Changed(o) /\ asked' = <<"change", o>>
  \/ \E o, p \in Objects : Copied(o, p) /\ asked' = <<"copy", o, p>>
  \/ \E o, p \in Objects : Moved(o, p) /\ asked' = <<"move", o, p>>

Spec == Init /\ [][Next]_vars

-----------------------------------------------------------------------------

TypeOK ==
  /\ heap \in [Handles -> Values \cup {Free}]
  /\ ptr \in [Objects -> Handles \cup {Null, Absent}]
  /\ raw \subseteq Handles
  /\ broken \in BOOLEAN

Owned == {ptr[o] : o \in {x \in Objects : Alive(x)}}

(* Each BIGNUM has one owner: two objects never share one, and an object   *)
(* never shares one with the code which is to give it away.                *)
SoleOwner ==
  /\ \A o, p \in Objects : o # p /\ Alive(o) => ptr[o] # ptr[p]
  /\ Owned \cap raw = {}

(* Whatever is constructed, copied, moved or captured, every BIGNUM which  *)
(* is allocated has an owner, every owner has one which is allocated, and  *)
(* none is freed twice.                                                    *)
NoLeakNoDangling ==
  /\ {h \in Handles : heap[h] # Free} = Owned \cup raw
  /\ ~broken

(* The number of an object. *)
NumberOf(o) ==
  IF Alive(o) THEN heap[ptr[o]] ELSE IF ptr[o] = Null THEN Null ELSE Absent

Promise == INSTANCE Numbers WITH Dead <- Null, call <- asked,
                                 number <- [o \in Objects |-> NumberOf(o)]

(* The objects have the value semantics of Numbers: a copy or a move gives *)
(* the number of its source, and no call is seen through another object    *)
(* (bignum.cpp:27-73).                                                     *)
ValueSemantics == Promise!Spec

=============================================================================
