------------------------------- MODULE MCDbInit -------------------------------
(* DbInit with one default ticker and three requests. *)
EXTENDS DbInit

CONSTANTS AAPL, t1, t2, t3, none
=============================================================================
