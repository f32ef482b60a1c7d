------------------------------ MODULE MCOrders ------------------------------
(***************************************************************************)
(* Instances of Orders for TLC.                                            *)
(***************************************************************************)
EXTENDS Orders, TLC

CONSTANTS r1, r2, r3, r4, e1, l1, l2, s1

OneSeller == [l \in Listings |-> s1]

\* One listing sells out with a single order, the other one with two.
ScarceStock == [l \in Listings |-> IF l = l1 THEN 1 ELSE 2]
OneEach == [l \in Listings |-> 1]

RequestSymmetry == Permutations(Requests \ Earlier)
=============================================================================
