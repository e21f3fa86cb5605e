------------------------------ MODULE Unsigned ------------------------------
(***************************************************************************)
(* uint64 subtraction, and the value that stands for "nothing computed".   *)
(***************************************************************************)
EXTENDS Integers

CONSTANTS
  Modulus,     \* 2^64 in the code
  None

ASSUME ModulusAssumption == Modulus \in Nat \ {0}

Minus(x, y) == (x - y) % Modulus

\* A percentage is represented by its two parts; no part is divided by zero.
Share(part, whole) == [part |-> part, whole |-> whole]
=============================================================================
