------------------------------ MODULE SysArith ------------------------------
(***************************************************************************)
(* Integer helpers of sys.cpp.  C++ integer division truncates toward      *)
(* zero where TLA+ \div rounds toward minus infinity, so the C++ quotient  *)
(* gets an operator of its own.                                            *)
(***************************************************************************)
EXTENDS Integers

AbsOf(x) == IF x < 0 THEN -x ELSE x

(* The C++ expression a / b, for b # 0. *)
Quotient(a, b) ==
  LET q == AbsOf(a) \div AbsOf(b)
  IN  IF (a < 0) = (b < 0) THEN q ELSE -q

(* sys::div64: integer division with rounding to nearest. *)
div64(num, den) ==
  IF (num < 0) = (den < 0)
    THEN Quotient(num + Quotient(den, 2), den)
    ELSE Quotient(num - Quotient(den, 2), den)

=============================================================================
