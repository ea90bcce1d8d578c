----------------------------- MODULE Positions -----------------------------
(***************************************************************************)
(* Order-preserving selections from a list.  The Python code builds its    *)
(* lists by walking another list and appending the items that pass a test; *)
(* here such a list is the set of the positions that pass, read off in     *)
(* ascending order.                                                        *)
(***************************************************************************)
EXTENDS Naturals, FiniteSets, Sequences

(* How many elements of the set S of numbers are at most i. *)
RankIn(S, i) == Cardinality({j \in S : j <= i})

(* The n-th smallest element of the finite set S of numbers. *)
Nth(S, n) == CHOOSE i \in S : RankIn(S, i) = n

(* The elements of the list s at the positions in S, in the order of s. *)
At(s, S) == [n \in 1..Cardinality(S) |-> s[Nth(S, n)]]

(* Python's s[:n]. *)
Prefix(s, n) == At(s, {i \in 1..n : i \in DOMAIN s})

(* Python's min of two numbers and max of two numbers. *)
MinOf(a, b) == IF a <= b THEN a ELSE b
MaxOf(a, b) == IF a >= b THEN a ELSE b
=============================================================================
