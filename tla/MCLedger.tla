------------------------------- MODULE MCLedger -------------------------------
(* Ledger on a small instance: two tickers, four units to the share. *)
EXTENDS Ledger, TLC

CONSTANTS AAPL, TSLA

MCTickers == {AAPL, TSLA}
TickerSymmetry == Permutations(MCTickers)
=============================================================================
