------------------------------ MODULE MCTradeTxn ------------------------------
(* TradeTxn on a small instance: two trade requests, one portfolio request and *)
(* the background thread, all at once, over one ticker at one price.           *)
EXTENDS TradeTxn

CONSTANTS AAPL, t1, t2, r1, background, none

\* At 3 cents a share of two units: a purchase that the cash pays for once, and a
\* sale of it with one unit too many, which the tolerance allows.
MCOrders == {[ticker |-> AAPL, side |-> "buy",  quantity |-> 2],
             [ticker |-> AAPL, side |-> "sell", quantity |-> 3]}
=============================================================================
