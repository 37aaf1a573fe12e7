------------------------------ MODULE Numbers ------------------------------
(***************************************************************************)
(* What class bignum promises: its objects have value semantics.  Each one *)
(* is a number of its own.  A copy gives an object the number of another   *)
(* one, a move does too and leaves its source dead, and any other call     *)
(* gives the object it is made on a number.  No other object changes.      *)
(***************************************************************************)

CONSTANTS
  Objects,
  Values,
  Absent,   (* Not constructed, or destroyed.        *)
  Dead      (* Moved to another object.              *)

VARIABLES
  number,   (* [Objects -> Values, Absent or Dead].  *)
  call      (* The last call and its operands.       *)

Init == number = [o \in Objects |-> Absent] /\ call = <<"none">>

Change(o) ==
  /\ call' = <<"change", o>>
  /\ \E v \in Values \cup {Absent} : number' = [number EXCEPT ![o] = v]

Copy(o, p) ==
  /\ call' = <<"copy", o, p>>
  /\ number[p] \in Values
  /\ number' = [number EXCEPT ![o] = number[p]]

(* An object moved to itself keeps its number. *)
Move(o, p) ==
  /\ call' = <<"move", o, p>>
  /\ number[p] \in Values
  /\ number' = IF o = p THEN number ELSE [number EXCEPT ![o] = number[p], ![p] = Dead]

Next == \E o \in Objects : Change(o) \/ \E p \in Objects : Copy(o, p) \/ Move(o, p)

Spec == Init /\ [][Next]_<<number, call>>

=============================================================================
