--------------------------- MODULE MCRefreshTokens ---------------------------
(***************************************************************************)
(* An instance of RefreshTokens for TLC: one login, or several, and calls  *)
(* enough to present one token three times over.                           *)
(***************************************************************************)
EXTENDS RefreshTokens, TLC

CONSTANTS c1, c2, c3, c4, c5

CallSymmetry == Permutations(Calls)
==============================================================================
