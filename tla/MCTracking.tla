------------------------------ MODULE MCTracking ------------------------------
(* Tracking on a small instance: three tickers, one of them with two spellings. *)
EXTENDS Tracking, TLC

CONSTANTS AAPL, TSLA, NVDA, aapl, r1, r2, b1

MCCanonical == AAPL :> AAPL @@ TSLA :> TSLA @@ NVDA :> NVDA @@ aapl :> AAPL
RequestSymmetry == Permutations(Requests)
=============================================================================
