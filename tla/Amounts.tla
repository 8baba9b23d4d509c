------------------------------- MODULE Amounts -------------------------------
(***************************************************************************)
(* Amounts of stroops and shares, and their sums.  The sum of a family f   *)
(* of amounts is the number of its single units: a pair <<x, k>> for the   *)
(* k-th unit that x has.                                                   *)
(***************************************************************************)
EXTENDS Integers, FiniteSets

\* lib.rs: basis points are ten-thousandths; interest is capped at 9.5%.
BpsScale       == 10000
MaxInterestBps == 950

\* The share of an amount that bps basis points are, rounded down as i128
\* division of non-negative operands rounds.
Fee(amount, bps) == (amount * bps) \div BpsScale

Units(f) == UNION {{x} \X (1..f[x]) : x \in DOMAIN f}
Total(f) == Cardinality(Units(f))
=============================================================================
