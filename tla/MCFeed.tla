-------------------------------- MODULE MCFeed --------------------------------
(* Feed on two tickers, one of them with two spellings. *)
EXTENDS Feed, TLC

CONSTANTS AAPL, TSLA, aapl

MCCanonical == AAPL :> AAPL @@ TSLA :> TSLA @@ aapl :> AAPL
=============================================================================
