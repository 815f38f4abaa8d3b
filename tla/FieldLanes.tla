----------------------------- MODULE FieldLanes -----------------------------
(***************************************************************************)
(* What decompression, the group law and the batch encoders share: a prime *)
(* field of P = 2^n - Gap elements, whose encodings leave Gap values that  *)
(* stand for smaller ones, the curve -x^2 + y^2 = 1 + D x^2 y^2 over it,   *)
(* and the lanes of a register, each of which holds one element.           *)
(***************************************************************************)
EXTENDS Integers

CONSTANTS P, Gap, Lanes, D

Fe == 0 .. (P - 1)

\* Every element but zero has an inverse: P is prime.
ASSUME FieldAssumption ==
  /\ P \in Nat \ {0, 1} /\ Gap \in Nat
  /\ \A x \in 1 .. (P - 1) : \E y \in 1 .. (P - 1) : (x * y) % P = 1

Times(x, y) == (x * y) % P

\* Fermat inversion: zero goes to zero.
Inverses == [x \in Fe |-> IF x = 0 THEN 0 ELSE CHOOSE y \in Fe : Times(x, y) = 1]

=============================================================================
