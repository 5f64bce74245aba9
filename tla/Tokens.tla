------------------------------- MODULE Tokens -------------------------------
(***************************************************************************)
(* Sums of u64 token amounts.  Total(amount, S) adds amount[x] for every x  *)
(* in S by counting token units: one pair <<x, k>> for the k-th unit that x *)
(* holds.  The definition has no recursion, so its laws (Total of a union,  *)
(* of a single account, of no account) follow from those of Cardinality.   *)
(***************************************************************************)
EXTENDS Naturals, FiniteSets

CONSTANT U64_MAX    \* the largest amount one account or field can hold

ASSUME U64Assumption == U64_MAX \in Nat

Amounts == 0..U64_MAX

Units(amount, S) == {u \in S \X (1..U64_MAX) : u[2] <= amount[u[1]]}

Total(amount, S) == Cardinality(Units(amount, S))

BPS == 10000        \* basis points in a whole

\* A share of an amount, rounded down; the code multiplies in u128.
ShareOf(amount, bps) == (amount * bps) \div BPS

\* A seeded fault: the sum does not saturate.
PlainAdd(a, b) == a + b

\* u64::saturating_add
SaturatingAdd(a, b) == IF a + b <= U64_MAX THEN a + b ELSE U64_MAX
=============================================================================
