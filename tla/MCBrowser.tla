------------------------------ MODULE MCBrowser ------------------------------
(***************************************************************************)
(* An instance of Browser for TLC: two requests under way at a time, each  *)
(* with the three calls it can need (a login, a refresh, the login again). *)
(***************************************************************************)
EXTENDS Browser

CONSTANTS c0, c1, c2, c3, c4, c5, c6, q1, q2
==============================================================================
