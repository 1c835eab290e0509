------------------------------ MODULE Selection ------------------------------
(***************************************************************************)
(* What lib/adapter.js collects from a list with filter, or with a loop    *)
(* that pushes under a condition: some of its elements, in their order.    *)
(***************************************************************************)
EXTENDS Integers, Sequences, FiniteSets

\* The i-th of a set of numbers, counted from the least.
Nth(S, i) == CHOOSE n \in S : Cardinality({m \in S : m <= n}) = i

\* The elements of s at the indices of I, and those that pass a test.
Selected(s, I) == [i \in 1 .. Cardinality(I) |-> s[Nth(I, i)]]
Filter(s, Test(_)) == Selected(s, {i \in DOMAIN s : Test(s[i])})
=============================================================================
