---------------------------- MODULE LedgerProofs ----------------------------
(***************************************************************************)
(* Theorems about the account, for every set of tickers, prices, order     *)
(* sizes, scale and tolerance, and for histories of any length.            *)
(***************************************************************************)
EXTENDS Ledger, TLAPS

\* Rows of positions that are well formed: what every step of the ledger keeps.
WellFormed(book) ==
    /\ DOMAIN book \subseteq Tickers
    /\ \A t \in DOMAIN book : book[t] \in PositionRows /\ book[t].qty > 0

\* A fill is worth a natural number of cents, within half a cent of the exact product.
LEMMA FillValueNear ==
    ASSUME NEW price \in Nat, NEW quantity \in Nat,
           NEW v \in FillValues(price, quantity)
    PROVE  /\ v \in Nat
           /\ 2 * Distance(v * Scale, price * quantity) <= Scale
<1> DEFINE product == price * quantity
           floor   == product \div Scale
<1>1. product \in Nat
    OBVIOUS
<1>2. floor \in Nat
    BY <1>1, ScaleAssumption
<1>3. /\ v \in {floor, floor + 1}
      /\ 2 * Distance(v * Scale, product) <= Scale
    BY DEF FillValues
<1> QED
    BY <1>2, <1>3

\* What a permitted sale leaves is never negative, and differs from the plain
\* difference by at most the tolerance.
LEMMA RemainingNear ==
    ASSUME NEW held \in Int, NEW quantity \in Int, quantity <= held + Tolerance
    PROVE  /\ Remaining(held, quantity) \in Nat
           /\ Distance(Remaining(held, quantity), held - quantity) <= Tolerance
BY ToleranceAssumption DEF Remaining, Distance

\* A purchase yields a proper row that holds the shares bought on top of the old ones.
LEMMA BoughtRowProper ==
    ASSUME NEW book, WellFormed(book), NEW t \in Tickers,
           NEW quantity \in Nat \ {0}, NEW cost \in Nat
    PROVE  /\ RowAfterBuy(book, t, quantity, cost) \in PositionRows
           /\ RowAfterBuy(book, t, quantity, cost).qty = Held(book, t) + quantity
<1> DEFINE held == IF t \in DOMAIN book THEN book[t] ELSE [qty |-> 0, avg |-> <<0, 1>>]
           n    == held.avg[1]
           d    == held.avg[2]
           qty  == held.qty + quantity
           num  == held.qty * n + cost * Scale * d
           den  == d * qty
<1>1. /\ held.qty \in Nat
      /\ held.qty = Held(book, t)
      /\ n \in Nat
      /\ d \in Nat \ {0}
    <2>1. CASE t \in DOMAIN book
        <3>1. held = book[t] /\ book[t] \in PositionRows /\ book[t].qty > 0
            BY <2>1 DEF WellFormed
        <3> QED
            BY <2>1, <3>1 DEF PositionRows, AverageCosts, Held
    <2>2. CASE t \notin DOMAIN book
        BY <2>2 DEF Held
    <2> QED
        BY <2>1, <2>2
<1>2. qty \in Nat \ {0}
    BY <1>1
<1>3. num \in Nat
    <2>1. held.qty * n \in Nat
        BY <1>1
    <2>2. cost * Scale \in Nat
        BY ScaleAssumption
    <2>3. cost * Scale * d \in Nat
        BY <1>1, <2>2
    <2> QED
        BY <2>1, <2>3
<1>4. den \in Nat \ {0}
    BY <1>1, <1>2
<1>5. RowAfterBuy(book, t, quantity, cost) = [qty |-> qty, avg |-> <<num, den>>]
    BY DEF RowAfterBuy
<1> QED
    BY <1>1, <1>2, <1>3, <1>4, <1>5 DEF PositionRows, AverageCosts

\* Writing a row with a quantity of zero or more keeps the table well formed and
\* touches no other ticker.
LEMMA ApplyPositionEffect ==
    ASSUME NEW book, WellFormed(book), NEW t \in Tickers,
           NEW row \in PositionRows, row.qty >= 0
    PROVE  /\ WellFormed(ApplyPosition(book, t, row))
           /\ Held(ApplyPosition(book, t, row), t) = row.qty
           /\ \A u \in Tickers \ {t} : Held(ApplyPosition(book, t, row), u) = Held(book, u)
<1> DEFINE new == ApplyPosition(book, t, row)
<1>1. CASE row.qty = 0
    <2>1. new = [u \in DOMAIN book \ {t} |-> book[u]]
        BY <1>1 DEF ApplyPosition
    <2> QED
        BY <1>1, <2>1 DEF WellFormed, Held
<1>2. CASE row.qty # 0
    <2>1. new = [u \in DOMAIN book \cup {t} |-> IF u = t THEN row ELSE book[u]]
        BY <1>2 DEF ApplyPosition
    <2>2. row.qty > 0
        BY <1>2 DEF PositionRows
    <2> QED
        BY <2>1, <2>2 DEF WellFormed, Held
<1> QED
    BY <1>1, <1>2

-----------------------------------------------------------------------------
(* The inductive invariant *)

\* The typing of the tables and the sign of the rows support each other: the sign
\* of a row is needed to type the average cost of the next purchase.
Inv == TypeOK /\ Solvent /\ CashDriftBounded /\ ShareDriftBounded

LEMMA InitInv == Init => Inv
BY StartingCashAssumption, ScaleAssumption, ToleranceAssumption
   DEF Init, Inv, TypeOK, RowsHoldShares, Solvent, CashDriftBounded,
       ShareDriftBounded, Distance, QuantityOf, Held

\* What one permitted purchase does to cash, holdings, blotter and history.
LEMMA BuyEffect ==
    ASSUME TypeOK, NEW prices \in PriceReadings, NEW t \in Tickers,
           NEW quantity \in Quantities, Buy(t, quantity, prices)
    PROVE  /\ prices[t] \in Prices
           /\ \E cost \in Nat :
                 /\ 2 * Distance(cost * Scale, prices[t] * quantity) <= Scale
                 /\ cost <= cash
                 /\ cash' = cash - cost
           /\ WellFormed(positions')
           /\ Held(positions', t) = Held(positions, t) + quantity
           /\ \A u \in Tickers \ {t} : Held(positions', u) = Held(positions, u)
           /\ trades' = Append(trades, [ticker |-> t, side |-> "buy",
                                        quantity |-> quantity, price |-> prices[t]])
           /\ trades' \in Seq(TradeRows) /\ Len(trades') = Len(trades) + 1
           /\ prices[t] * quantity \in Int
           /\ exactCash' = exactCash - prices[t] * quantity
           /\ netShares' \in [Tickers -> Int]
           /\ netShares'[t] = netShares[t] + quantity
           /\ \A u \in Tickers \ {t} : netShares'[u] = netShares[u]
<1>1. prices[t] \in Prices /\ prices[t] \in Nat /\ quantity \in Nat \ {0}
    BY PricesAssumption, QuantitiesAssumption DEF Buy, Priced, PriceReadings
<1>2. WellFormed(positions)
    BY DEF TypeOK, RowsHoldShares, WellFormed
<1>3. PICK cost \in FillValues(prices[t], quantity) :
          /\ BuyAllowed(cash, cost)
          /\ cash' = cash - cost
          /\ positions' = ApplyPosition(positions, t,
                                        RowAfterBuy(positions, t, quantity, cost))
    BY DEF Buy
<1>4. cost \in Nat /\ 2 * Distance(cost * Scale, prices[t] * quantity) <= Scale
    BY <1>1, FillValueNear
<1>5. Held(positions, t) \in Nat
    BY <1>2 DEF WellFormed, PositionRows, Held
<1>6. /\ RowAfterBuy(positions, t, quantity, cost) \in PositionRows
      /\ RowAfterBuy(positions, t, quantity, cost).qty = Held(positions, t) + quantity
    BY <1>1, <1>2, <1>4, BoughtRowProper
<1>7. RowAfterBuy(positions, t, quantity, cost).qty >= 0
    BY <1>1, <1>5, <1>6
<1>8. /\ WellFormed(positions')
      /\ Held(positions', t) = Held(positions, t) + quantity
      /\ \A u \in Tickers \ {t} : Held(positions', u) = Held(positions, u)
    BY <1>2, <1>3, <1>6, <1>7, ApplyPositionEffect
<1>9. cost <= cash
    BY <1>3 DEF BuyAllowed
<1> DEFINE fill == [ticker |-> t, side |-> "buy", quantity |-> quantity, price |-> prices[t]]
<1>10. trades' = Append(trades, fill)
    BY DEF Buy, RecordFill
<1>11. fill \in TradeRows /\ trades \in Seq(TradeRows)
    BY <1>1 DEF TradeRows, Sides, TypeOK
<1>12. trades' \in Seq(TradeRows) /\ Len(trades') = Len(trades) + 1
    BY <1>10, <1>11
<1>13. prices[t] * quantity \in Int
    BY <1>1
<1>14. exactCash' = exactCash - prices[t] * quantity
    BY DEF Buy
<1>15. /\ netShares' \in [Tickers -> Int]
       /\ netShares'[t] = netShares[t] + quantity
       /\ \A u \in Tickers \ {t} : netShares'[u] = netShares[u]
    BY <1>1 DEF Buy, TypeOK
<1> QED
    BY <1>1, <1>3, <1>4, <1>8, <1>9, <1>10, <1>12, <1>13, <1>14, <1>15

\* What one permitted sale does: the holding shrinks by the quantity sold, up to
\* the tolerance.
LEMMA SellEffect ==
    ASSUME TypeOK, NEW prices \in PriceReadings, NEW t \in Tickers,
           NEW quantity \in Quantities, Sell(t, quantity, prices)
    PROVE  /\ prices[t] \in Prices
           /\ \E proceeds \in Nat :
                 /\ 2 * Distance(proceeds * Scale, prices[t] * quantity) <= Scale
                 /\ cash' = cash + proceeds
           /\ WellFormed(positions')
           /\ Distance(Held(positions', t), Held(positions, t) - quantity) <= Tolerance
           /\ \A u \in Tickers \ {t} : Held(positions', u) = Held(positions, u)
           /\ trades' = Append(trades, [ticker |-> t, side |-> "sell",
                                        quantity |-> quantity, price |-> prices[t]])
           /\ trades' \in Seq(TradeRows) /\ Len(trades') = Len(trades) + 1
           /\ prices[t] * quantity \in Int
           /\ exactCash' = exactCash + prices[t] * quantity
           /\ netShares' \in [Tickers -> Int]
           /\ netShares'[t] = netShares[t] - quantity
           /\ \A u \in Tickers \ {t} : netShares'[u] = netShares[u]
<1>1. prices[t] \in Prices /\ prices[t] \in Nat /\ quantity \in Nat \ {0}
    BY PricesAssumption, QuantitiesAssumption DEF Sell, Priced, PriceReadings
<1>2. WellFormed(positions)
    BY DEF TypeOK, RowsHoldShares, WellFormed
<1>3. /\ t \in DOMAIN positions
      /\ positions[t] \in PositionRows
      /\ Held(positions, t) = positions[t].qty
      /\ quantity <= positions[t].qty + Tolerance
    BY <1>2 DEF Sell, SellAllowed, WellFormed, Held
<1>4. PICK proceeds \in FillValues(prices[t], quantity) : cash' = cash + proceeds
    BY DEF Sell
<1>5. proceeds \in Nat /\ 2 * Distance(proceeds * Scale, prices[t] * quantity) <= Scale
    BY <1>1, FillValueNear
<1> DEFINE row == RowAfterSell(positions, t, quantity)
<1>6. positions[t].qty \in Int
    BY <1>3 DEF PositionRows
<1>7. /\ Remaining(positions[t].qty, quantity) \in Nat
      /\ Distance(Remaining(positions[t].qty, quantity), positions[t].qty - quantity)
             <= Tolerance
    BY <1>1, <1>3, <1>6, RemainingNear
<1>8. row \in PositionRows /\ row.qty = Remaining(positions[t].qty, quantity)
    BY <1>3, <1>7 DEF RowAfterSell, PositionRows
<1>9. row.qty >= 0
    BY <1>7, <1>8
<1>10. positions' = ApplyPosition(positions, t, row)
    BY DEF Sell
<1> HIDE DEF row
<1>11. /\ WellFormed(positions')
       /\ Held(positions', t) = row.qty
       /\ \A u \in Tickers \ {t} : Held(positions', u) = Held(positions, u)
    BY <1>2, <1>8, <1>9, <1>10, ApplyPositionEffect
<1> DEFINE fill == [ticker |-> t, side |-> "sell", quantity |-> quantity, price |-> prices[t]]
<1>12. trades' = Append(trades, fill)
    BY DEF Sell, RecordFill
<1>13. fill \in TradeRows /\ trades \in Seq(TradeRows)
    BY <1>1 DEF TradeRows, Sides, TypeOK
<1>14. trades' \in Seq(TradeRows) /\ Len(trades') = Len(trades) + 1
    BY <1>12, <1>13
<1>15. prices[t] * quantity \in Int
    BY <1>1
<1>16. exactCash' = exactCash + prices[t] * quantity
    BY DEF Sell
<1>17. /\ netShares' \in [Tickers -> Int]
       /\ netShares'[t] = netShares[t] - quantity
       /\ \A u \in Tickers \ {t} : netShares'[u] = netShares[u]
    BY <1>1 DEF Sell, TypeOK
<1> QED
    BY <1>1, <1>3, <1>4, <1>5, <1>7, <1>8, <1>11, <1>12, <1>14, <1>15, <1>16, <1>17

LEMMA SnapshotEffect ==
    ASSUME NEW prices \in PriceReadings, RecordSnapshot(prices)
    PROVE  UNCHANGED <<cash, positions, trades, exactCash, netShares>>
BY DEF RecordSnapshot, history

\* Every step is a purchase, a sale, or leaves all but the P&L series alone.
LEMMA StepCases ==
    ASSUME [Next]_vars
    PROVE  \/ \E prices \in PriceReadings, t \in Tickers, quantity \in Quantities :
                 Buy(t, quantity, prices)
           \/ \E prices \in PriceReadings, t \in Tickers, quantity \in Quantities :
                 Sell(t, quantity, prices)
           \/ UNCHANGED <<cash, positions, trades, exactCash, netShares>>
BY SnapshotEffect DEF Next, vars

LEMMA TypeStep ==
    ASSUME TypeOK, [Next]_vars
    PROVE  TypeOK'
<1>1. ASSUME NEW prices \in PriceReadings, NEW t \in Tickers, NEW quantity \in Quantities,
             Buy(t, quantity, prices)
      PROVE  TypeOK'
    <2>1. PICK cost \in Nat : cash' = cash - cost
        BY <1>1, BuyEffect
    <2>2. cash' \in Int
        BY <2>1 DEF TypeOK
    <2>3. WellFormed(positions')
        BY <1>1, BuyEffect
    <2>4. trades' \in Seq(TradeRows)
        BY <1>1, BuyEffect
    <2>5. prices[t] * quantity \in Int /\ exactCash' = exactCash - prices[t] * quantity
        BY <1>1, BuyEffect
    <2>6. netShares' \in [Tickers -> Int]
        BY <1>1, BuyEffect
    <2>7. exactCash' \in Int
        BY <2>5 DEF TypeOK
    <2> QED
        BY <2>2, <2>3, <2>4, <2>6, <2>7 DEF TypeOK, RowsHoldShares, WellFormed
<1>2. ASSUME NEW prices \in PriceReadings, NEW t \in Tickers, NEW quantity \in Quantities,
             Sell(t, quantity, prices)
      PROVE  TypeOK'
    <2>1. PICK proceeds \in Nat : cash' = cash + proceeds
        BY <1>2, SellEffect
    <2>2. cash' \in Int
        BY <2>1 DEF TypeOK
    <2>3. WellFormed(positions')
        BY <1>2, SellEffect
    <2>4. trades' \in Seq(TradeRows)
        BY <1>2, SellEffect
    <2>5. prices[t] * quantity \in Int /\ exactCash' = exactCash + prices[t] * quantity
        BY <1>2, SellEffect
    <2>6. netShares' \in [Tickers -> Int]
        BY <1>2, SellEffect
    <2>7. exactCash' \in Int
        BY <2>5 DEF TypeOK
    <2> QED
        BY <2>2, <2>3, <2>4, <2>6, <2>7 DEF TypeOK, RowsHoldShares, WellFormed
<1>3. ASSUME UNCHANGED <<cash, positions, trades, exactCash, netShares>>
      PROVE  TypeOK'
    BY <1>3 DEF TypeOK, RowsHoldShares
<1> QED
    BY <1>1, <1>2, <1>3, StepCases

LEMMA SolventStep ==
    ASSUME TypeOK, Solvent, [Next]_vars
    PROVE  Solvent'
<1>1. ASSUME NEW prices \in PriceReadings, NEW t \in Tickers, NEW quantity \in Quantities,
             Buy(t, quantity, prices)
      PROVE  Solvent'
    <2>1. PICK cost \in Nat : cost <= cash /\ cash' = cash - cost
        BY <1>1, BuyEffect
    <2> QED
        BY <2>1 DEF TypeOK, Solvent
<1>2. ASSUME NEW prices \in PriceReadings, NEW t \in Tickers, NEW quantity \in Quantities,
             Sell(t, quantity, prices)
      PROVE  Solvent'
    <2>1. PICK proceeds \in Nat : cash' = cash + proceeds
        BY <1>2, SellEffect
    <2> QED
        BY <2>1 DEF TypeOK, Solvent
<1>3. ASSUME UNCHANGED <<cash, positions, trades, exactCash, netShares>>
      PROVE  Solvent'
    BY <1>3 DEF Solvent
<1> QED
    BY <1>1, <1>2, <1>3, StepCases

\* One more fill, off by at most half a cent, moves the bound by half a cent.
LEMMA DriftArithmetic ==
    ASSUME NEW c \in Int, NEW e \in Int, NEW n \in Nat, NEW v \in Nat, NEW x \in Int,
           2 * Distance(c * Scale, e) <= Scale * n,
           2 * Distance(v * Scale, x) <= Scale
    PROVE  /\ 2 * Distance((c - v) * Scale, e - x) <= Scale * (n + 1)
           /\ 2 * Distance((c + v) * Scale, e + x) <= Scale * (n + 1)
<1>1. /\ c * Scale \in Int
      /\ v * Scale \in Int
      /\ Scale * n \in Int
      /\ Scale \in Int
    BY ScaleAssumption
<1>2. /\ (c - v) * Scale = c * Scale - v * Scale
      /\ (c + v) * Scale = c * Scale + v * Scale
      /\ Scale * (n + 1) = Scale * n + Scale
    BY ScaleAssumption
<1>3. ASSUME NEW a \in Int, NEW b \in Int, NEW m \in Int,
             2 * Distance(a, e) <= m, 2 * Distance(b, x) <= Scale
      PROVE  /\ 2 * Distance(a - b, e - x) <= m + Scale
             /\ 2 * Distance(a + b, e + x) <= m + Scale
    BY <1>1, <1>3 DEF Distance
<1> QED
    BY <1>1, <1>2, <1>3

LEMMA CashDriftStep ==
    ASSUME TypeOK, CashDriftBounded, [Next]_vars
    PROVE  CashDriftBounded'
<1>0. /\ cash \in Int
      /\ exactCash \in Int
      /\ trades \in Seq(TradeRows)
      /\ Len(trades) \in Nat
      /\ 2 * Distance(cash * Scale, exactCash) <= Scale * Len(trades)
    BY DEF TypeOK, CashDriftBounded
<1>1. ASSUME NEW prices \in PriceReadings, NEW t \in Tickers, NEW quantity \in Quantities,
             Buy(t, quantity, prices)
      PROVE  CashDriftBounded'
    <2>1. PICK cost \in Nat :
              /\ 2 * Distance(cost * Scale, prices[t] * quantity) <= Scale
              /\ cash' = cash - cost
        BY <1>1, BuyEffect
    <2>2. exactCash' = exactCash - prices[t] * quantity
        BY <1>1, BuyEffect
    <2>3. Len(trades') = Len(trades) + 1
        BY <1>1, BuyEffect
    <2>4. prices[t] * quantity \in Int
        BY <1>1, BuyEffect
    <2> QED
        BY <1>0, <2>1, <2>2, <2>3, <2>4, DriftArithmetic DEF CashDriftBounded
<1>2. ASSUME NEW prices \in PriceReadings, NEW t \in Tickers, NEW quantity \in Quantities,
             Sell(t, quantity, prices)
      PROVE  CashDriftBounded'
    <2>1. PICK proceeds \in Nat :
              /\ 2 * Distance(proceeds * Scale, prices[t] * quantity) <= Scale
              /\ cash' = cash + proceeds
        BY <1>2, SellEffect
    <2>2. exactCash' = exactCash + prices[t] * quantity
        BY <1>2, SellEffect
    <2>3. Len(trades') = Len(trades) + 1
        BY <1>2, SellEffect
    <2>4. prices[t] * quantity \in Int
        BY <1>2, SellEffect
    <2> QED
        BY <1>0, <2>1, <2>2, <2>3, <2>4, DriftArithmetic DEF CashDriftBounded
<1>3. ASSUME UNCHANGED <<cash, positions, trades, exactCash, netShares>>
      PROVE  CashDriftBounded'
    BY <1>3 DEF CashDriftBounded
<1> QED
    BY <1>1, <1>2, <1>3, StepCases

\* Two holdings part by no more than the bound they had and the residue of a sale.
LEMMA ShareDriftArithmetic ==
    ASSUME NEW held \in Int, NEW net \in Int, NEW left \in Int, NEW quantity \in Int,
           NEW bound \in Int, NEW residue \in Int,
           Distance(held, net) <= bound, Distance(left, held - quantity) <= residue
    PROVE  Distance(left, net - quantity) <= bound + residue
BY DEF Distance

LEMMA ShareDriftStep ==
    ASSUME TypeOK, ShareDriftBounded, [Next]_vars
    PROVE  ShareDriftBounded'
<1>0. /\ trades \in Seq(TradeRows)
      /\ Len(trades) \in Nat
      /\ netShares \in [Tickers -> Int]
      /\ \A u \in Tickers : Held(positions, u) \in Int
    BY DEF TypeOK, Held, PositionRows
<1> SUFFICES ASSUME NEW u \in Tickers
             PROVE  Distance(QuantityOf(u)', netShares'[u]) <= Tolerance * Len(trades')
    BY DEF ShareDriftBounded
<1>1. Distance(Held(positions, u), netShares[u]) <= Tolerance * Len(trades)
    BY DEF ShareDriftBounded, QuantityOf
<1>2. ASSUME Len(trades') = Len(trades) + 1
      PROVE  /\ Tolerance * Len(trades') = Tolerance * Len(trades) + Tolerance
             /\ Tolerance * Len(trades) \in Int
    BY <1>0, <1>2, ToleranceAssumption
<1>3. ASSUME NEW prices \in PriceReadings, NEW t \in Tickers, NEW quantity \in Quantities,
             Buy(t, quantity, prices)
      PROVE  Distance(Held(positions', u), netShares'[u]) <= Tolerance * Len(trades')
    <2>1. Len(trades') = Len(trades) + 1
        BY <1>3, BuyEffect
    <2>2. CASE u = t
        <3>1. Held(positions', u) = Held(positions, u) + quantity
            BY <1>3, <2>2, BuyEffect
        <3>2. netShares'[u] = netShares[u] + quantity
            BY <1>3, <2>2, BuyEffect
        <3> QED
            BY <1>0, <1>1, <1>2, <2>1, <3>1, <3>2, QuantitiesAssumption, ToleranceAssumption
               DEF Distance
    <2>3. CASE u # t
        <3>1. Held(positions', u) = Held(positions, u)
            BY <1>3, <2>3, BuyEffect, ZenonT(40)
        <3>2. netShares'[u] = netShares[u]
            BY <1>3, <2>3, BuyEffect, ZenonT(40)
        <3> QED
            BY <1>0, <1>1, <1>2, <2>1, <3>1, <3>2, ToleranceAssumption DEF Distance
    <2> QED
        BY <2>2, <2>3
<1>4. ASSUME NEW prices \in PriceReadings, NEW t \in Tickers, NEW quantity \in Quantities,
             Sell(t, quantity, prices)
      PROVE  Distance(Held(positions', u), netShares'[u]) <= Tolerance * Len(trades')
    <2>1. Len(trades') = Len(trades) + 1
        BY <1>4, SellEffect
    <2>2. CASE u = t
        <3>1. Distance(Held(positions', u), Held(positions, u) - quantity) <= Tolerance
            BY <1>4, <2>2, SellEffect
        <3>2. netShares'[u] = netShares[u] - quantity
            BY <1>4, <2>2, SellEffect
        <3>3. Held(positions', u) \in Int
            <4>1. WellFormed(positions')
                BY <1>4, SellEffect
            <4> QED
                BY <4>1 DEF WellFormed, Held, PositionRows
        <3>4. /\ Held(positions, u) \in Int /\ netShares[u] \in Int
              /\ quantity \in Int /\ Tolerance \in Int
            BY <1>0, QuantitiesAssumption, ToleranceAssumption
        <3>5. Distance(Held(positions', u), netShares[u] - quantity)
                  <= Tolerance * Len(trades) + Tolerance
            BY <1>1, <1>2, <2>1, <3>1, <3>3, <3>4, ShareDriftArithmetic
        <3> QED
            BY <1>2, <2>1, <3>2, <3>5
    <2>3. CASE u # t
        <3>1. Held(positions', u) = Held(positions, u)
            BY <1>4, <2>3, SellEffect
        <3>2. netShares'[u] = netShares[u]
            BY <1>4, <2>3, SellEffect
        <3> QED
            BY <1>0, <1>1, <1>2, <2>1, <3>1, <3>2, ToleranceAssumption DEF Distance
    <2> QED
        BY <2>2, <2>3
<1>5. ASSUME UNCHANGED <<cash, positions, trades, exactCash, netShares>>
      PROVE  Distance(Held(positions', u), netShares'[u]) <= Tolerance * Len(trades')
    BY <1>1, <1>5
<1> QED
    BY <1>3, <1>4, <1>5, StepCases DEF QuantityOf

\* Multiplication by a price keeps the order of holdings.
LEMMA WorthArithmetic ==
    ASSUME NEW p \in Nat, NEW a \in Int, NEW b \in Int, Distance(a, b) <= Tolerance
    PROVE  /\ a * p \in Int
           /\ b * p \in Int
           /\ Tolerance * p \in Nat
           /\ Distance(a * p, b * p) <= Tolerance * p
<1>1. /\ a * p \in Int
      /\ b * p \in Int
      /\ Tolerance * p \in Nat
    BY ToleranceAssumption
<1>2. ASSUME NEW x \in Nat, x <= Tolerance
      PROVE  x * p \in Nat /\ x * p <= Tolerance * p
    BY <1>2, ToleranceAssumption
<1>3. CASE a >= b
    <2>1. a - b \in Nat /\ a - b <= Tolerance
        BY <1>3 DEF Distance
    <2>2. (a - b) * p = a * p - b * p
        OBVIOUS
    <2>3. (a - b) * p \in Nat /\ (a - b) * p <= Tolerance * p
        BY <1>2, <2>1
    <2> QED
        BY <1>1, <2>2, <2>3 DEF Distance
<1>4. CASE ~(a >= b)
    <2>1. b - a \in Nat /\ b - a <= Tolerance
        BY <1>4 DEF Distance
    <2>2. (b - a) * p = b * p - a * p
        OBVIOUS
    <2>3. (b - a) * p \in Nat /\ (b - a) * p <= Tolerance * p
        BY <1>2, <2>1
    <2> QED
        BY <1>1, <2>2, <2>3 DEF Distance
<1> QED
    BY <1>1, <1>3, <1>4

LEMMA FillKeepsValueStep ==
    ASSUME TypeOK, [Next]_vars
    PROVE  FillKeepsValue
<1>0. /\ cash \in Int
      /\ trades \in Seq(TradeRows)
      /\ Len(trades) \in Nat
      /\ \A u \in Tickers : Held(positions, u) \in Int
    BY DEF TypeOK, Held, PositionRows
<1> SUFFICES ASSUME NEW t \in Tickers,
                    Len(trades') > Len(trades),
                    trades'[Len(trades')].ticker = t
             PROVE  LET p == trades'[Len(trades')].price
                    IN  /\ 2 * Distance(cash' * Scale + Held(positions', t) * p,
                                        cash * Scale + Held(positions, t) * p)
                              <= Scale + 2 * Tolerance * p
                        /\ \A u \in Tickers \ {t} : Held(positions', u) = Held(positions, u)
    BY DEF FillKeepsValue, QuantityOf
<1> DEFINE p == trades'[Len(trades')].price
           h == Held(positions, t)
<1>1. ASSUME NEW prices \in PriceReadings, NEW s \in Tickers, NEW quantity \in Quantities,
             Buy(s, quantity, prices)
      PROVE  /\ 2 * Distance(cash' * Scale + Held(positions', t) * p, cash * Scale + h * p)
                   <= Scale + 2 * Tolerance * p
             /\ \A u \in Tickers \ {t} : Held(positions', u) = Held(positions, u)
    <2>1. trades' = Append(trades, [ticker |-> s, side |-> "buy",
                                    quantity |-> quantity, price |-> prices[s]])
        BY <1>1, BuyEffect
    <2>2. s = t /\ p = prices[t]
        BY <1>0, <2>1
    <2>3. prices[t] \in Prices /\ p \in Nat
        BY <1>1, <2>2, BuyEffect, PricesAssumption
    <2>4. PICK cost \in Nat :
              /\ 2 * Distance(cost * Scale, prices[t] * quantity) <= Scale
              /\ cash' = cash - cost
        BY <1>1, <2>2, BuyEffect, ZenonT(40)
    <2>5. Held(positions', t) = h + quantity
        BY <1>1, <2>2, BuyEffect
    <2>6. \A u \in Tickers \ {t} : Held(positions', u) = Held(positions, u)
        BY <1>1, <2>2, BuyEffect
    <2> HIDE DEF p, h
    <2>7. h \in Int /\ quantity \in Nat /\ Scale \in Nat
        BY <1>0, QuantitiesAssumption, ScaleAssumption DEF h
    <2>8. /\ (cash - cost) * Scale = cash * Scale - cost * Scale
          /\ (h + quantity) * p = h * p + p * quantity
          /\ cash * Scale \in Int /\ cost * Scale \in Int
          /\ h * p \in Int /\ p * quantity \in Int
          /\ 2 * Tolerance * p \in Nat
        BY <1>0, <2>3, <2>7, ToleranceAssumption
    <2>9. 2 * Distance(cost * Scale, p * quantity) <= Scale
        BY <2>2, <2>4
    <2>10. 2 * Distance((cash * Scale - cost * Scale) + (h * p + p * quantity),
                        cash * Scale + h * p) <= Scale
        <3> DEFINE C == cash * Scale
                   V == cost * Scale
                   W == h * p
                   X == p * quantity
        <3>1. /\ C \in Int /\ V \in Int /\ W \in Int /\ X \in Int
              /\ Scale \in Int /\ 2 * Distance(V, X) <= Scale
            BY <2>7, <2>8, <2>9
        <3> HIDE DEF C, V, W, X
        <3>2. 2 * Distance((C - V) + (W + X), C + W) <= Scale
            BY <3>1 DEF Distance
        <3> QED
            BY <3>2 DEF C, V, W, X
    <2>11. cash' * Scale = cash * Scale - cost * Scale
        BY <2>4, <2>8
    <2>12. Held(positions', t) * p = h * p + p * quantity
        BY <2>5, <2>8
    <2>13. ASSUME NEW x \in Int, NEW y \in Int, NEW m \in Nat, 2 * Distance(x, y) <= Scale
           PROVE  2 * Distance(x, y) <= Scale + m
        BY <2>7, <2>13 DEF Distance
    <2>14. /\ (cash * Scale - cost * Scale) + (h * p + p * quantity) \in Int
           /\ cash * Scale + h * p \in Int
        BY <2>8
    <2>15. 2 * Distance((cash * Scale - cost * Scale) + (h * p + p * quantity),
                        cash * Scale + h * p) <= Scale + 2 * Tolerance * p
        BY <2>8, <2>10, <2>13, <2>14
    <2> QED
        BY <2>6, <2>11, <2>12, <2>15
<1>2. ASSUME NEW prices \in PriceReadings, NEW s \in Tickers, NEW quantity \in Quantities,
             Sell(s, quantity, prices)
      PROVE  /\ 2 * Distance(cash' * Scale + Held(positions', t) * p, cash * Scale + h * p)
                   <= Scale + 2 * Tolerance * p
             /\ \A u \in Tickers \ {t} : Held(positions', u) = Held(positions, u)
    <2>1. trades' = Append(trades, [ticker |-> s, side |-> "sell",
                                    quantity |-> quantity, price |-> prices[s]])
        BY <1>2, SellEffect
    <2>2. s = t /\ p = prices[t]
        BY <1>0, <2>1
    <2>3. prices[t] \in Prices /\ p \in Nat
        BY <1>2, <2>2, SellEffect, PricesAssumption
    <2>4. PICK proceeds \in Nat :
              /\ 2 * Distance(proceeds * Scale, prices[t] * quantity) <= Scale
              /\ cash' = cash + proceeds
        BY <1>2, <2>2, SellEffect
    <2>5. Distance(Held(positions', t), h - quantity) <= Tolerance
        BY <1>2, <2>2, SellEffect
    <2>6. \A u \in Tickers \ {t} : Held(positions', u) = Held(positions, u)
        BY <1>2, <2>2, SellEffect
    <2>7. Held(positions', t) \in Int
        <3>1. WellFormed(positions')
            BY <1>2, SellEffect
        <3> QED
            BY <3>1 DEF WellFormed, Held, PositionRows
    <2> HIDE DEF p, h
    <2> DEFINE h1 == Held(positions', t)
    <2>8. h \in Int /\ quantity \in Nat /\ Scale \in Nat /\ h1 \in Int
        BY <1>0, <2>7, QuantitiesAssumption, ScaleAssumption DEF h
    <2>9. /\ (h - quantity) * p = h * p - p * quantity
          /\ (cash + proceeds) * Scale = cash * Scale + proceeds * Scale
          /\ cash * Scale \in Int /\ proceeds * Scale \in Int
          /\ h * p \in Int /\ p * quantity \in Int
          /\ 2 * Tolerance * p = 2 * (Tolerance * p)
        BY <1>0, <2>3, <2>8, ToleranceAssumption
    <2>10. h - quantity \in Int /\ Distance(h1, h - quantity) <= Tolerance
        BY <2>5, <2>8
    <2>11. /\ h1 * p \in Int
           /\ Tolerance * p \in Nat
           /\ Distance(h1 * p, (h - quantity) * p) <= Tolerance * p
        BY <2>3, <2>8, <2>10, WorthArithmetic
    <2> HIDE DEF h1
    <2>12. 2 * Distance(proceeds * Scale, p * quantity) <= Scale
        BY <2>2, <2>4
    <2>13. Distance(h1 * p, h * p - p * quantity) <= Tolerance * p
        BY <2>9, <2>11
    <2>14. 2 * Distance((cash * Scale + proceeds * Scale) + h1 * p, cash * Scale + h * p)
               <= Scale + 2 * (Tolerance * p)
        <3> DEFINE C == cash * Scale
                   V == proceeds * Scale
                   W == h * p
                   X == p * quantity
                   Y == h1 * p
                   M == Tolerance * p
        <3>1. /\ C \in Int /\ V \in Int /\ W \in Int /\ X \in Int /\ Y \in Int
              /\ M \in Int /\ Scale \in Int
              /\ 2 * Distance(V, X) <= Scale
              /\ Distance(Y, W - X) <= M
            BY <2>8, <2>9, <2>11, <2>12, <2>13
        <3> HIDE DEF C, V, W, X, Y, M
        <3>2. 2 * Distance((C + V) + Y, C + W) <= Scale + 2 * M
            BY <3>1 DEF Distance
        <3> QED
            BY <3>2 DEF C, V, W, X, Y, M
    <2>15. cash' * Scale = cash * Scale + proceeds * Scale
        BY <2>4, <2>9
    <2>16. 2 * Distance(cash' * Scale + h1 * p, cash * Scale + h * p)
               <= Scale + 2 * Tolerance * p
        BY <2>9, <2>14, <2>15
    <2> QED
        BY <2>6, <2>16 DEF h1
<1>3. ~UNCHANGED <<cash, positions, trades, exactCash, netShares>>
    BY <1>0
<1> QED
    BY <1>1, <1>2, <1>3, StepCases

-----------------------------------------------------------------------------
(* The average cost *)

\* A weight keeps an order.
LEMMA Weighted ==
    ASSUME NEW k \in Nat, NEW x \in Int, NEW y \in Int, x <= y
    PROVE  k * x \in Int /\ k * y \in Int /\ k * x <= k * y
<1>1. y - x \in Nat /\ k * (y - x) \in Nat
    OBVIOUS
<1>2. k * (y - x) = k * y - k * x /\ k * x \in Int /\ k * y \in Int
    OBVIOUS
<1> QED
    BY <1>1, <1>2

\* h shares at n/d and q more for v together have the average (h*n + v*d) / (d*(h+q)).
\* The higher of the two prices bounds it from above, the lower from below: a bound b/a
\* of the old average, or a bound w of twice the new price's worth.
LEMMA MeanOfOld ==
    ASSUME NEW h \in Nat, NEW q \in Nat, NEW d \in Nat, NEW n \in Int, NEW v \in Int,
           NEW a \in Nat, NEW b \in Int
    PROVE  /\ v * d <= n * q /\ n * a <= d * b =>
                  (h * n + v * d) * a <= (d * (h + q)) * b
           /\ v * d >= n * q /\ n * a >= d * b =>
                  (h * n + v * d) * a >= (d * (h + q)) * b
<1> DEFINE vd == v * d
           nq == n * q
           na == n * a
           db == d * b
<1>1. vd \in Int /\ nq \in Int /\ na \in Int /\ db \in Int
    OBVIOUS
<1>2. (h * n + v * d) * a = h * na + a * vd
    <2>1. (h * n + v * d) * a = (h * n) * a + (v * d) * a
        OBVIOUS
    <2>2. (h * n) * a = h * (n * a) /\ (v * d) * a = a * (v * d)
        OBVIOUS
    <2> QED
        BY <2>1, <2>2
<1>3. (d * (h + q)) * b = h * db + q * db
    <2>1. (d * (h + q)) * b = (h + q) * (d * b)
        OBVIOUS
    <2>2. (h + q) * (d * b) = h * (d * b) + q * (d * b)
        OBVIOUS
    <2> QED
        BY <2>1, <2>2
<1>4. a * nq = q * na
    OBVIOUS
<1>5. /\ h * na \in Int /\ h * db \in Int /\ q * na \in Int /\ q * db \in Int
      /\ a * vd \in Int /\ a * nq \in Int
    BY <1>1
<1> HIDE DEF vd, nq, na, db
<1>6. ASSUME vd <= nq, na <= db
      PROVE  h * na + a * vd <= h * db + q * db
    <2>1. h * na <= h * db /\ a * vd <= a * nq /\ q * na <= q * db
        BY <1>1, <1>6, Weighted
    <2> QED
        BY <1>4, <1>5, <2>1
<1>7. ASSUME nq <= vd, db <= na
      PROVE  h * db + q * db <= h * na + a * vd
    <2>1. h * db <= h * na /\ a * nq <= a * vd /\ q * db <= q * na
        BY <1>1, <1>7, Weighted
    <2> QED
        BY <1>4, <1>5, <2>1
<1> QED
    BY <1>1, <1>2, <1>3, <1>5, <1>6, <1>7 DEF vd, nq, na, db

LEMMA MeanOfNew ==
    ASSUME NEW h \in Nat, NEW q \in Nat, NEW d \in Nat, NEW n \in Int, NEW v \in Int,
           NEW w \in Int
    PROVE  /\ h * (n * q) <= h * (v * d) /\ 2 * v <= w =>
                  (h * n + v * d) * (2 * q) <= (d * (h + q)) * w
           /\ h * (n * q) >= h * (v * d) /\ 2 * v >= w =>
                  (h * n + v * d) * (2 * q) >= (d * (h + q)) * w
<1> DEFINE hnq == h * (n * q)
           hvd == h * (v * d)
           dq == d * q
           dh == d * h
           dhq == d * (h + q)
           vv == 2 * v
<1>1. /\ hnq \in Int /\ hvd \in Int /\ dq \in Nat /\ dh \in Nat /\ dhq \in Nat /\ vv \in Int
    OBVIOUS
<1>2. (h * n + v * d) * (2 * q) = 2 * hnq + dq * vv
    <2>1. (h * n + v * d) * (2 * q) = (h * n) * (2 * q) + (v * d) * (2 * q)
        OBVIOUS
    <2>2. (h * n) * (2 * q) = 2 * (h * (n * q)) /\ (v * d) * (2 * q) = (d * q) * (2 * v)
        OBVIOUS
    <2> QED
        BY <2>1, <2>2
<1>3. dhq * vv = 2 * hvd + dq * vv
    <2>1. (d * (h + q)) * (2 * v) = (d * h) * (2 * v) + (d * q) * (2 * v)
        OBVIOUS
    <2>2. (d * h) * (2 * v) = 2 * (h * (v * d))
        OBVIOUS
    <2> QED
        BY <2>1, <2>2
<1>4. dq * vv \in Int
    BY <1>1
<1> HIDE DEF hnq, hvd, dq, dh, dhq, vv
<1>5. ASSUME hnq <= hvd, vv <= w
      PROVE  2 * hnq + dq * vv <= dhq * w
    <2>1. dhq * vv <= dhq * w /\ dhq * w \in Int /\ dhq * vv \in Int
        BY <1>1, <1>5, Weighted
    <2> QED
        BY <1>1, <1>3, <1>4, <1>5, <2>1
<1>6. ASSUME hvd <= hnq, w <= vv
      PROVE  dhq * w <= 2 * hnq + dq * vv
    <2>1. dhq * w <= dhq * vv /\ dhq * w \in Int /\ dhq * vv \in Int
        BY <1>1, <1>6, Weighted
    <2> QED
        BY <1>1, <1>3, <1>4, <1>6, <2>1
<1>7. dhq * w \in Int
    BY <1>1
<1> QED
    BY <1>1, <1>2, <1>4, <1>5, <1>6, <1>7 DEF hnq, hvd, dq, dh, dhq, vv

\* The two sides of AverageCostWithinPurchases, for an average cost and a row of the blotter.
AtMost(avg, row) == 2 * avg[1] * row.quantity <= avg[2] * (2 * row.price * row.quantity + Scale)
AtLeast(avg, row) == 2 * avg[1] * row.quantity >= avg[2] * (2 * row.price * row.quantity - Scale)

Purchase(t, row) == row.ticker = t /\ row.side = "buy"

\* avg lies between two purchases of t in the blotter.
Between(t, avg, blotter) ==
    /\ \E i \in DOMAIN blotter : Purchase(t, blotter[i]) /\ AtMost(avg, blotter[i])
    /\ \E i \in DOMAIN blotter : Purchase(t, blotter[i]) /\ AtLeast(avg, blotter[i])

\* The invariant, with its two bounds named.
LEMMA BetweenPurchases ==
    AverageCostWithinPurchases <=>
        \A t \in DOMAIN positions : Between(t, positions[t].avg, trades)
BY DEF AverageCostWithinPurchases, Between, AtMost, AtLeast, Purchase, BuysOf

\* More rows in the blotter bound no less.
LEMMA BetweenGrows ==
    ASSUME NEW t \in Tickers, NEW avg, NEW blotter \in Seq(TradeRows), NEW row \in TradeRows,
           Between(t, avg, blotter)
    PROVE  Between(t, avg, Append(blotter, row))
<1>1. \A i \in DOMAIN blotter :
          /\ i \in DOMAIN Append(blotter, row)
          /\ Append(blotter, row)[i] = blotter[i]
    OBVIOUS
<1> QED
    BY <1>1 DEF Between

\* The average avg after q shares for v joined h shares at the average old = n/d: an old bound survives on the side the new price is not
\* on, and the new row is a bound on the side it is on.
MeanBounded(h, q, d, n, v, avg, old) ==
    \A row \in TradeRows :
        /\ v * d <= n * q /\ AtMost(old, row) => AtMost(avg, row)
        /\ v * d >= n * q /\ AtLeast(old, row) => AtLeast(avg, row)
        /\ row.quantity = q /\ 2 * Distance(v, row.price * q) <= Scale =>
              /\ h * (n * q) <= h * (v * d) => AtMost(avg, row)
              /\ h * (n * q) >= h * (v * d) => AtLeast(avg, row)

LEMMA MeanBounds ==
    ASSUME NEW h \in Nat, NEW q \in Nat, NEW d \in Nat, NEW n \in Nat, NEW v \in Nat,
           NEW avg, avg[1] = h * n + v * d, avg[2] = d * (h + q),
           NEW old, old[1] = n, old[2] = d
    PROVE  MeanBounded(h, q, d, n, v, avg, old)
<1> SUFFICES ASSUME NEW row \in TradeRows
             PROVE  /\ v * d <= n * q /\ AtMost(old, row) => AtMost(avg, row)
                    /\ v * d >= n * q /\ AtLeast(old, row) => AtLeast(avg, row)
                    /\ row.quantity = q /\ 2 * Distance(v, row.price * q) <= Scale =>
                          /\ h * (n * q) <= h * (v * d) => AtMost(avg, row)
                          /\ h * (n * q) >= h * (v * d) => AtLeast(avg, row)
    BY DEF MeanBounded
<1> DEFINE a == 2 * row.quantity
           paid == 2 * row.price * row.quantity
<1>1. /\ row.quantity \in Nat /\ row.price \in Nat /\ Scale \in Nat
      /\ a \in Nat /\ paid \in Int /\ paid + Scale \in Int /\ paid - Scale \in Int
    <2>1. row.quantity \in Nat /\ row.price \in Nat /\ Scale \in Nat
        BY PricesAssumption, QuantitiesAssumption, ScaleAssumption DEF TradeRows
    <2>2. paid \in Int
        BY ONLY <2>1
    <2> QED
        BY <2>1, <2>2
<1>2. avg[1] \in Int /\ avg[2] \in Int
    OBVIOUS
<1>3. /\ 2 * avg[1] * row.quantity = avg[1] * a
      /\ 2 * old[1] * row.quantity = n * a
    BY ONLY <1>1, <1>2, old[1] = n, n \in Nat
<1>4. /\ AtMost(avg, row) <=> (h * n + v * d) * a <= (d * (h + q)) * (paid + Scale)
      /\ AtLeast(avg, row) <=> (h * n + v * d) * a >= (d * (h + q)) * (paid - Scale)
      /\ AtMost(old, row) <=> n * a <= d * (paid + Scale)
      /\ AtLeast(old, row) <=> n * a >= d * (paid - Scale)
    BY <1>3 DEF AtMost, AtLeast
<1>5. row.quantity = q => a = 2 * q
    OBVIOUS
<1>6. ASSUME row.quantity = q, 2 * Distance(v, row.price * q) <= Scale
      PROVE  2 * v <= paid + Scale /\ 2 * v >= paid - Scale
    <2>1. row.price * q \in Int /\ paid = 2 * (row.price * q)
        BY <1>1, <1>6
    <2> HIDE DEF paid
    <2> QED
        BY <1>1, <1>6, <2>1 DEF Distance
<1> HIDE DEF a, paid
<1>7. /\ v * d <= n * q /\ AtMost(old, row) => AtMost(avg, row)
      /\ v * d >= n * q /\ AtLeast(old, row) => AtLeast(avg, row)
    BY <1>1, <1>4, MeanOfOld
<1>8. ASSUME row.quantity = q, 2 * Distance(v, row.price * q) <= Scale
      PROVE  /\ h * (n * q) <= h * (v * d) => AtMost(avg, row)
             /\ h * (n * q) >= h * (v * d) => AtLeast(avg, row)
    BY <1>1, <1>4, <1>5, <1>6, <1>8, MeanOfNew
<1> QED
    BY <1>7, <1>8

\* Writing the row of one ticker leaves the other rows as they are.
LEMMA OtherRowsKept ==
    ASSUME NEW book, NEW t, NEW row
    PROVE  /\ \A u \in DOMAIN ApplyPosition(book, t, row) :
                 u # t => u \in DOMAIN book /\ ApplyPosition(book, t, row)[u] = book[u]
           /\ t \in DOMAIN ApplyPosition(book, t, row) =>
                 ApplyPosition(book, t, row)[t] = row /\ row.qty # 0
<1>1. CASE row.qty = 0
    BY <1>1 DEF ApplyPosition
<1>2. CASE row.qty # 0
    BY <1>2 DEF ApplyPosition
<1> QED
    BY <1>1, <1>2

\* A purchase leaves its ticker with an average between two purchases.
LEMMA BoughtBetween ==
    ASSUME TypeOK, AverageCostWithinPurchases, NEW prices \in PriceReadings,
           NEW t \in Tickers, NEW quantity \in Quantities, Buy(t, quantity, prices),
           t \in DOMAIN positions'
    PROVE  Between(t, positions'[t].avg, trades')
<1>1. prices[t] \in Prices /\ prices[t] \in Nat /\ quantity \in Nat \ {0}
    BY PricesAssumption, QuantitiesAssumption DEF Buy, Priced, PriceReadings
<1>2. PICK cost \in FillValues(prices[t], quantity) :
          positions' = ApplyPosition(positions, t, RowAfterBuy(positions, t, quantity, cost))
    BY DEF Buy
<1>3. cost \in Nat /\ 2 * Distance(cost * Scale, prices[t] * quantity) <= Scale
    BY <1>1, FillValueNear
<1> DEFINE held == IF t \in DOMAIN positions THEN positions[t] ELSE [qty |-> 0, avg |-> <<0, 1>>]
           h    == held.qty
           n    == held.avg[1]
           d    == held.avg[2]
           v    == cost * Scale
           new  == RowAfterBuy(positions, t, quantity, cost)
           row  == [ticker |-> t, side |-> "buy", quantity |-> quantity, price |-> prices[t]]
<1>4. h \in Nat /\ n \in Nat /\ d \in Nat \ {0}
    <2>1. CASE t \in DOMAIN positions
        <3>1. held = positions[t] /\ positions[t] \in PositionRows /\ positions[t].qty > 0
            BY <2>1 DEF TypeOK, RowsHoldShares
        <3> QED
            BY <3>1 DEF PositionRows, AverageCosts
    <2>2. CASE t \notin DOMAIN positions
        BY <2>2
    <2> QED
        BY <2>1, <2>2
<1>5. v \in Nat
    BY <1>3, ScaleAssumption
<1>6. /\ new.avg[1] = h * n + v * d
      /\ new.avg[2] = d * (h + quantity)
    BY DEF RowAfterBuy
<1>7. positions'[t].avg = new.avg
    BY <1>2, OtherRowsKept
<1>8. row \in TradeRows /\ trades \in Seq(TradeRows) /\ trades' = Append(trades, row)
    BY <1>1 DEF TradeRows, Sides, TypeOK, Buy, RecordFill
<1>9. t \in DOMAIN positions => held = positions[t] /\ Between(t, held.avg, trades)
    BY BetweenPurchases
<1>10. t \notin DOMAIN positions => h = 0
    OBVIOUS
<1>11. /\ row.quantity = quantity /\ row.price = prices[t]
       /\ Purchase(t, row)
    BY DEF Purchase
<1>12. 2 * Distance(v, row.price * quantity) <= Scale
    BY <1>3, <1>11
<1> DEFINE old == held.avg
<1>13. old[1] = n /\ old[2] = d
    OBVIOUS
<1> HIDE DEF row, new, v, h, n, d, old
<1>14. h \in Nat /\ quantity \in Nat /\ d \in Nat /\ n \in Nat /\ v \in Nat
    BY <1>1, <1>4, <1>5
<1>15. MeanBounded(h, quantity, d, n, v, new.avg, old)
    BY ONLY <1>6, <1>13, <1>14, MeanBounds
<1>16. /\ h * (n * quantity) <= h * (v * d) => AtMost(new.avg, row)
       /\ h * (n * quantity) >= h * (v * d) => AtLeast(new.avg, row)
    BY ONLY <1>8, <1>11, <1>12, <1>15 DEF MeanBounded
<1> DEFINE last == Len(trades) + 1
<1>17. /\ last \in DOMAIN trades' /\ trades'[last] = row
       /\ \A i \in DOMAIN trades : i \in DOMAIN trades' /\ trades'[i] = trades[i]
                                   /\ trades[i] \in TradeRows
    BY <1>8
<1>18. n * quantity \in Int /\ v * d \in Int
    BY <1>1, <1>4, <1>5
<1>19. CASE t \notin DOMAIN positions
    <2>1. h * (n * quantity) = 0 /\ h * (v * d) = 0
        BY <1>10, <1>18, <1>19
    <2>2. AtMost(new.avg, row) /\ AtLeast(new.avg, row)
        BY <1>16, <2>1
    <2> QED
        BY <1>7, <1>11, <1>17, <2>2 DEF Between
<1>20. CASE t \in DOMAIN positions /\ v * d <= n * quantity
    <2>1. PICK i \in DOMAIN trades : Purchase(t, trades[i]) /\ AtMost(old, trades[i])
        BY <1>9, <1>20 DEF Between, old
    <2> DEFINE r == trades[i]
    <2>2. r \in TradeRows /\ trades'[i] = r /\ i \in DOMAIN trades'
        BY <1>17
    <2> HIDE DEF r
    <2>3. AtMost(new.avg, r)
        <3>1. AtMost(old, r) /\ v * d <= n * quantity
            BY <1>20, <2>1 DEF r
        <3> QED
            BY ONLY <1>15, <2>2, <3>1 DEF MeanBounded
    <2>4. h * (n * quantity) >= h * (v * d)
        BY <1>4, <1>18, <1>20, Weighted
    <2>5. AtLeast(new.avg, row)
        BY <1>16, <2>4
    <2> QED
        BY <1>7, <1>11, <1>17, <2>1, <2>3, <2>5, <2>2 DEF Between, r
<1>21. CASE t \in DOMAIN positions /\ v * d >= n * quantity
    <2>1. PICK i \in DOMAIN trades : Purchase(t, trades[i]) /\ AtLeast(old, trades[i])
        BY <1>9, <1>21 DEF Between, old
    <2> DEFINE r == trades[i]
    <2>2. r \in TradeRows /\ trades'[i] = r /\ i \in DOMAIN trades'
        BY <1>17
    <2> HIDE DEF r
    <2>3. AtLeast(new.avg, r)
        <3>1. AtLeast(old, r) /\ v * d >= n * quantity
            BY <1>21, <2>1 DEF r
        <3> QED
            BY ONLY <1>15, <2>2, <3>1 DEF MeanBounded
    <2>4. h * (n * quantity) <= h * (v * d)
        BY <1>4, <1>18, <1>21, Weighted
    <2>5. AtMost(new.avg, row)
        BY <1>16, <2>4
    <2> QED
        BY <1>7, <1>11, <1>17, <2>1, <2>3, <2>5, <2>2 DEF Between, r
<1> QED
    BY <1>18, <1>19, <1>20, <1>21

\* Buying averages in a price between the bounds or beyond one of them; selling keeps the
\* average; a closed position takes its average with it.
LEMMA AverageStep ==
    ASSUME TypeOK, AverageCostWithinPurchases, [Next]_vars
    PROVE  AverageCostWithinPurchases'
<1>0. /\ \A t \in DOMAIN positions : Between(t, positions[t].avg, trades)
      /\ DOMAIN positions \subseteq Tickers /\ trades \in Seq(TradeRows)
    BY BetweenPurchases DEF TypeOK
<1> SUFFICES ASSUME NEW u \in DOMAIN positions'
             PROVE  Between(u, positions'[u].avg, trades')
    BY DEF AverageCostWithinPurchases, Between, AtMost, AtLeast, Purchase, BuysOf
<1>1. ASSUME NEW t \in Tickers, NEW row, NEW fill \in TradeRows,
             positions' = ApplyPosition(positions, t, row),
             trades' = Append(trades, fill), u # t
      PROVE  Between(u, positions'[u].avg, trades')
    <2>1. u \in DOMAIN positions /\ positions'[u] = positions[u]
        BY <1>1, OtherRowsKept
    <2>2. u \in Tickers /\ Between(u, positions[u].avg, trades)
        BY <1>0, <2>1
    <2>3. Between(u, positions[u].avg, Append(trades, fill))
        BY <1>0, <1>1, <2>2, BetweenGrows
    <2> QED
        BY <1>1, <2>1, <2>3
<1>2. ASSUME NEW prices \in PriceReadings, NEW t \in Tickers, NEW quantity \in Quantities,
             Buy(t, quantity, prices)
      PROVE  Between(u, positions'[u].avg, trades')
    <2>1. CASE u = t
        BY <1>2, <2>1, BoughtBetween
    <2>2. CASE u # t
        <3>1. PICK cost : positions' = ApplyPosition(positions, t,
                                               RowAfterBuy(positions, t, quantity, cost))
            BY <1>2 DEF Buy
        <3> DEFINE fill == [ticker |-> t, side |-> "buy", quantity |-> quantity,
                            price |-> prices[t]]
        <3>2. fill \in TradeRows /\ trades' = Append(trades, fill)
            BY <1>2, BuyEffect DEF TradeRows, Sides
        <3> HIDE DEF fill
        <3> QED
            BY <1>1, <2>2, <3>1, <3>2
    <2> QED
        BY <2>1, <2>2
<1>3. ASSUME NEW prices \in PriceReadings, NEW t \in Tickers, NEW quantity \in Quantities,
             Sell(t, quantity, prices)
      PROVE  Between(u, positions'[u].avg, trades')
    <2> DEFINE row == RowAfterSell(positions, t, quantity)
               fill == [ticker |-> t, side |-> "sell", quantity |-> quantity,
                        price |-> prices[t]]
    <2>1. t \in DOMAIN positions /\ positions' = ApplyPosition(positions, t, row)
        BY <1>3 DEF Sell, SellAllowed
    <2>2. fill \in TradeRows /\ trades' = Append(trades, fill)
        BY <1>3, SellEffect DEF TradeRows, Sides
    <2>3. row.avg = positions[t].avg
        BY DEF RowAfterSell
    <2> HIDE DEF row, fill
    <2>4. CASE u = t
        <3>1. positions'[u].avg = positions[t].avg
            BY <2>1, <2>3, <2>4, OtherRowsKept
        <3>2. Between(t, positions[t].avg, Append(trades, fill))
            BY <1>0, <2>1, <2>2, BetweenGrows
        <3> QED
            BY <2>2, <2>4, <3>1, <3>2
    <2>5. CASE u # t
        BY <1>1, <2>1, <2>2, <2>5
    <2> QED
        BY <2>4, <2>5
<1>4. ASSUME UNCHANGED <<cash, positions, trades, exactCash, netShares>>
      PROVE  Between(u, positions'[u].avg, trades')
    BY <1>0, <1>4
<1> QED
    BY <1>2, <1>3, <1>4, StepCases

-----------------------------------------------------------------------------
(* Theorems *)

\* The inductive invariant holds in every reachable state: rows of positions are
\* typed and hold shares, cash is not overdrawn, and both drifts stay bounded.
THEOREM Invariance == Spec => []Inv
<1>1. Init => Inv
    BY InitInv
<1>2. Inv /\ [Next]_vars => Inv'
    BY TypeStep, SolventStep, CashDriftStep, ShareDriftStep DEF Inv
<1> QED
    BY <1>1, <1>2, PTL DEF Spec

\* portfolio._apply_buy and _apply_sell keep every table well typed, and apply_position
\* never leaves a zero or a short row.
THEOREM TypeCorrectness == Spec => []TypeOK
<1>1. Inv => TypeOK
    BY DEF Inv, TypeOK
<1> QED
    BY <1>1, Invariance, PTL

\* No history of fills overdraws the account.
THEOREM Solvency == Spec => []Solvent
<1>1. Inv => Solvent
    BY DEF Inv
<1> QED
    BY <1>1, Invariance, PTL

\* The error of rounding every fill to the cent is at most half a cent per fill.
THEOREM CashDrift == Spec => []CashDriftBounded
<1>1. Inv => CashDriftBounded
    BY DEF Inv
<1> QED
    BY <1>1, Invariance, PTL

\* The residue closings discard is at most the tolerance per fill.
THEOREM ShareDrift == Spec => []ShareDriftBounded
<1>1. Inv => ShareDriftBounded
    BY DEF Inv
<1> QED
    BY <1>1, Invariance, PTL

\* A trade at the market price moves wealth between cash and one holding and
\* neither makes nor loses any, but for rounding and the discarded residue.
THEOREM FillsConserveValue == Spec => FillsKeepValue
<1>1. Inv /\ [Next]_vars => [FillKeepsValue]_vars
    BY FillKeepsValueStep DEF Inv
<1> QED
    BY <1>1, Invariance, PTL DEF Spec, FillsKeepValue

\* However buys, partial sales, closings and re-openings alternate, the average cost that
\* RowAfterBuy computes stays between the cheapest and the dearest purchase of the ticker,
\* half a cent of rounding per purchase allowed.
THEOREM AverageCost == Spec => []AverageCostWithinPurchases
<1>1. Init => AverageCostWithinPurchases
    BY DEF Init, AverageCostWithinPurchases
<1>2. TypeOK /\ AverageCostWithinPurchases /\ [Next]_vars => AverageCostWithinPurchases'
    BY AverageStep
<1> QED
    BY <1>1, <1>2, TypeCorrectness, PTL DEF Spec
=============================================================================
