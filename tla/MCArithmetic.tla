---------------------------- MODULE MCArithmetic ----------------------------
(***************************************************************************)
(* Arithmetic for TLC: inputs small enough to be enumerated, and sizes on  *)
(* both sides of every boundary of the tables of instance types.           *)
(***************************************************************************)
EXTENDS Arithmetic

\* Every whole percent, and what is a part above or below a multiple of five.
MCUsage ==
  {p \in 0 .. 100 * Precision :
     p % Precision = 0 \/ p % (5 * Precision) \in {1, 5 * Precision - 1}}

\* Every half gigabyte, and a part above and below every gigabyte.
MCMemory ==
  {m \in 1 .. MaxGigabytes * Precision :
     2 * m % Precision = 0 \/ m % Precision \in {1, Precision - 1}}

MCHeadroom == {h * Precision : h \in {0, 15, 20, 100}}
=============================================================================
