----------------------------- MODULE MCPriceStream -----------------------------
(* PriceStream on a small instance: one page, a connection and its reconnect, two *)
(* tickers, a ring of one shock, two events of the market or oddities.          *)
EXTENDS PriceStream

CONSTANTS AAPL, MSFT, c1, c2, open, none
=============================================================================
