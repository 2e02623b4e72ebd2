-------------------------------- MODULE Ledger --------------------------------
(***************************************************************************)
(* What the account promises: every trade and every background snapshot is *)
(* one indivisible step over cash, positions, blotter and P&L series.      *)
(* portfolio.execute_trade and portfolio.record_snapshot, each with the    *)
(* one price reading it works from.  TradeTxn is the statement-by-         *)
(* statement implementation and refines this module.                       *)
(*                                                                         *)
(* exactCash and netShares are history variables no code keeps: the cash   *)
(* balance had no fill been rounded, and shares bought minus shares sold.  *)
(***************************************************************************)
EXTENDS Account, Sequences

CONSTANTS
    Prices,         \* what the cache can hold for a ticker, in cents a share
    Quantities,     \* order sizes, in units
    StartingCash,   \* the seeded balance, in cents
    MaxTrades,      \* bound: rows in the blotter
    MaxSnapshots    \* bound: points in the P&L series

ASSUME PricesAssumption == Prices \subseteq Nat
ASSUME QuantitiesAssumption == Quantities \subseteq Nat \ {0}
ASSUME StartingCashAssumption == StartingCash \in Nat

VARIABLES
    cash,        \* users_profile.cash_balance
    positions,   \* the positions table: a function on the tickers with a row
    trades,      \* the trades table, oldest first
    snapshots,   \* portfolio_snapshots.total_value, oldest first
    exactCash,
    netShares

account == <<cash, positions, trades, snapshots>>
history == <<exactCash, netShares>>
vars == <<cash, positions, trades, snapshots, exactCash, netShares>>

Sides == {"buy", "sell"}

TradeRows == [ticker : Tickers, side : Sides, quantity : Quantities, price : Prices]

\* One reading of the price cache: the tickers it has, and their prices.
PriceReadings == UNION {[S -> Prices] : S \in SUBSET Tickers}

Init ==
    /\ cash = StartingCash
    /\ positions = [t \in {} |-> 0]
    /\ trades = <<>>
    /\ snapshots = <<>>
    /\ exactCash = StartingCash * Scale
    /\ netShares = [t \in Tickers |-> 0]

\* What a fill at prices[t] leaves behind, besides cash and the position row.
RecordFill(t, side, quantity, prices) ==
    /\ Len(trades) < MaxTrades
    /\ trades' = Append(trades, [ticker |-> t, side |-> side,
                                 quantity |-> quantity, price |-> prices[t]])
    /\ snapshots' = snapshots \o SnapshotPoints(cash', positions', prices)

Buy(t, quantity, prices) ==
    /\ Priced(prices, t)
    /\ \E cost \in FillValues(prices[t], quantity) :
          /\ BuyAllowed(cash, cost)
          /\ cash' = cash - cost
          /\ positions' = ApplyPosition(positions, t,
                                        RowAfterBuy(positions, t, quantity, cost))
    /\ RecordFill(t, "buy", quantity, prices)
    /\ exactCash' = exactCash - prices[t] * quantity
    /\ netShares' = [netShares EXCEPT ![t] = @ + quantity]

Sell(t, quantity, prices) ==
    /\ Priced(prices, t)
    /\ SellAllowed(positions, t, quantity)
    /\ \E proceeds \in FillValues(prices[t], quantity) : cash' = cash + proceeds
    /\ positions' = ApplyPosition(positions, t, RowAfterSell(positions, t, quantity))
    /\ RecordFill(t, "sell", quantity, prices)
    /\ exactCash' = exactCash + prices[t] * quantity
    /\ netShares' = [netShares EXCEPT ![t] = @ - quantity]

\* The 30 s background point; nothing is written while a holding is unpriced.
RecordSnapshot(prices) ==
    /\ Len(snapshots) < MaxSnapshots
    /\ Unpriced(positions, prices) = {}
    /\ snapshots' = snapshots \o SnapshotPoints(cash, positions, prices)
    /\ UNCHANGED <<cash, positions, trades, history>>

Next ==
    \E prices \in PriceReadings :
        \/ \E t \in Tickers, quantity \in Quantities : Buy(t, quantity, prices)
        \/ \E t \in Tickers, quantity \in Quantities : Sell(t, quantity, prices)
        \/ RecordSnapshot(prices)

Spec == Init /\ [][Next]_vars

-----------------------------------------------------------------------------
(* Properties *)

\* A row always means shares held.  Selling up to the tolerance above the
\* holding closes it; it never leaves a zero or a short row behind.
RowsHoldShares == \A t \in DOMAIN positions : positions[t].qty > 0

\* The types of the tables and of the two history variables.  A row of positions has a
\* quotient that can be evaluated for its average cost, because it holds shares.
TypeOK ==
    /\ cash \in Int
    /\ DOMAIN positions \subseteq Tickers
    /\ \A t \in DOMAIN positions : positions[t] \in PositionRows
    /\ trades \in Seq(TradeRows)
    /\ exactCash \in Int
    /\ netShares \in [Tickers -> Int]
    /\ RowsHoldShares

QuantityOf(t) == Held(positions, t)

\* No sequence of fills, rounded either way and sold within the tolerance, can
\* overdraw the account: the check is on the same rounded cost that leaves cash.
Solvent == cash >= 0

\* Rounding each fill to the cent moves cash away from the exact money flow by
\* at most half a cent per row of the blotter, in either direction.
CashDriftBounded == 2 * Distance(cash * Scale, exactCash) <= Scale * Len(trades)

\* A holding differs from shares bought minus shares sold by at most the
\* tolerance per row of the blotter, although closings discard a residue.
ShareDriftBounded ==
    \A t \in Tickers : Distance(QuantityOf(t), netShares[t]) <= Tolerance * Len(trades)

BuysOf(t) == {i \in DOMAIN trades : trades[i].ticker = t /\ trades[i].side = "buy"}

\* Through any mix of buys, partial sales, closings and re-openings, the average
\* cost of a holding lies between the cheapest and the dearest purchase of that
\* ticker, half a cent of rounding per purchase allowed.
AverageCostWithinPurchases ==
    \A t \in DOMAIN positions :
        LET n == positions[t].avg[1]
            d == positions[t].avg[2]
            Paid(i)  == 2 * trades[i].price * trades[i].quantity
        IN  /\ \E i \in BuysOf(t) : 2 * n * trades[i].quantity <= d * (Paid(i) + Scale)
            /\ \E i \in BuysOf(t) : 2 * n * trades[i].quantity >= d * (Paid(i) - Scale)

\* A fill at the market price creates and destroys no wealth: at the price of the
\* fill, cash plus the traded holding is worth the same before and after, up to
\* half a cent of rounding and the tolerance a closing discards; no other
\* holding is touched.
FillKeepsValue ==
    \A t \in Tickers :
        Len(trades') > Len(trades) /\ trades'[Len(trades')].ticker = t =>
            LET p == trades'[Len(trades')].price
            IN  /\ 2 * Distance(cash' * Scale + QuantityOf(t)' * p,
                                cash * Scale + QuantityOf(t) * p)
                      <= Scale + 2 * Tolerance * p
                /\ \A u \in Tickers \ {t} : QuantityOf(u)' = QuantityOf(u)

FillsKeepValue == [][FillKeepsValue]_vars
=============================================================================
