------------------------------ MODULE MCTerminal ------------------------------
(* Terminal on a small instance: two mutations, one background point. *)
EXTENDS Terminal
=============================================================================
