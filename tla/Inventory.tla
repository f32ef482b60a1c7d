------------------------------ MODULE Inventory ------------------------------
(***************************************************************************)
(* What the order endpoints promise about stock, without saying how: units *)
(* leave a listing only all together, when an order that claims exactly    *)
(* those units appears, and come back only all together, as the units of   *)
(* an order that exists.  Nothing in between is ever visible, whatever     *)
(* request fails half-way.                                                 *)
(*                                                                         *)
(* Return does not ask that the claim is still out: two overlapping        *)
(* cancellations of one order both return its units (see Orders).  OnceNext*)
(* is the stronger promise, which the implementation keeps when requests   *)
(* on the same order do not overlap.                                       *)
(***************************************************************************)
EXTENDS Integers

CONSTANTS
  Listings,
  Claims,
  Quantities   \* what a claim may ask: functions from Listings to numbers

VARIABLES
  stock,   \* units of each listing that nobody claims
  claim,   \* the units each claim took: a function on Listings
  live     \* "none" before it is made, "out", or "back" once returned

vars == <<stock, claim, live>>

Init ==
  /\ stock \in [Listings -> Nat]
  /\ claim \in [Claims -> Quantities]
  /\ live \in [Claims -> {"none", "out", "back"}]

\* All the units of a claim leave together, and only if all of them are there.
Claim(c) ==
  /\ live[c] = "none"
  /\ \E units \in Quantities :
       /\ \A l \in Listings : units[l] <= stock[l]
       /\ stock' = [l \in Listings |-> stock[l] - units[l]]
       /\ claim' = [claim EXCEPT ![c] = units]
  /\ live' = [live EXCEPT ![c] = "out"]

\* All the units of a claim come back together.
Return(c) ==
  /\ live[c] # "none"
  /\ stock' = [l \in Listings |-> stock[l] + claim[c][l]]
  /\ live' = [live EXCEPT ![c] = "back"]
  /\ UNCHANGED claim

\* A claim whose units were returned is taken for live again: its owner
\* overwrote the cancellation.  No unit moves.
Revive(c) ==
  /\ live[c] = "back"
  /\ live' = [live EXCEPT ![c] = "out"]
  /\ UNCHANGED <<stock, claim>>

Next == \E c \in Claims : Claim(c) \/ Return(c) \/ Revive(c)

Spec == Init /\ [][Next]_vars

\* The stronger promise: a claim is returned at most once, for good.
ReturnOnce(c) == live[c] = "out" /\ Return(c)

OnceNext == \E c \in Claims : Claim(c) \/ ReturnOnce(c)

OnceSpec == Init /\ [][OnceNext]_vars
==============================================================================
