------------------------------- MODULE Account -------------------------------
(***************************************************************************)
(* The arithmetic of one brokerage account (backend/app/portfolio.py and   *)
(* the position row of db/repository.py), as operators without state.      *)
(*                                                                         *)
(* Money is whole cents and share quantities are whole units, Scale units  *)
(* to the share: cash is rounded to the cent by the code, so a cent is     *)
(* exact, and a unit stands for the resolution of the double that holds a  *)
(* quantity.  Tolerance is QUANTITY_TOLERANCE in the same units.  An       *)
(* average cost is a quotient <<n, d>>, in cents per share.                *)
(***************************************************************************)
EXTENDS Integers, FiniteSetsExt

CONSTANTS
    Tickers,     \* ticker symbols
    Scale,       \* quantity units in one share
    Tolerance    \* a remainder this small, in units, closes a position

ASSUME ScaleAssumption == Scale \in Nat \ {0}
ASSUME ToleranceAssumption == Tolerance \in Nat

Distance(a, b) == IF a >= b THEN a - b ELSE b - a

\* Mutant of FillValues: the fraction of a cent is cut off instead of rounded.
TruncatedFillValues(price, quantity) == {(price * quantity) \div Scale}

\* round(price * quantity, 2): the nearest cent.  Which way an exact half goes
\* depends on the double the product lands on, so either neighbour may come out.
FillValues(price, quantity) ==
    LET floor == (price * quantity) \div Scale
    IN  {v \in {floor, floor + 1} : 2 * Distance(v * Scale, price * quantity) <= Scale}

AverageCosts == Nat \X (Nat \ {0})

\* A row of the positions table, as the code may write it.
PositionRows == [qty : Int, avg : AverageCosts]

\* Shares held, in units: no row means none.
Held(positions, t) == IF t \in DOMAIN positions THEN positions[t].qty ELSE 0

\* The price a ticker can be filled at: present and above zero.
Priced(prices, t) == t \in DOMAIN prices /\ prices[t] > 0

\* Mutant of BuyAllowed: the quantity tolerance applied to cash as well.
BuyAllowedWithinTolerance(cash, cost) == cost <= cash + Tolerance

BuyAllowed(cash, cost) == cost <= cash

\* Mutant of RowAfterBuy: the old basis taken at the new quantity.
RowAfterBuyNewBasis(positions, t, quantity, cost) ==
    LET held == IF t \in DOMAIN positions THEN positions[t]
                ELSE [qty |-> 0, avg |-> <<0, 1>>]
        qty  == held.qty + quantity
    IN  [qty |-> qty,
         avg |-> <<qty * held.avg[1] + cost * Scale * held.avg[2],
                   held.avg[2] * qty>>]

\* The average cost is weighted by what was paid: the same cost that leaves cash.
RowAfterBuy(positions, t, quantity, cost) ==
    LET held == IF t \in DOMAIN positions THEN positions[t]
                ELSE [qty |-> 0, avg |-> <<0, 1>>]
        qty  == held.qty + quantity
    IN  [qty |-> qty,
         avg |-> <<held.qty * held.avg[1] + cost * Scale * held.avg[2],
                   held.avg[2] * qty>>]

SellAllowed(positions, t, quantity) ==
    t \in DOMAIN positions /\ quantity <= positions[t].qty + Tolerance

\* Mutant of Remaining: the absolute value forgotten, for sales above the holding.
RemainingSigned(held, quantity) ==
    IF held - quantity \in 0..Tolerance THEN 0 ELSE held - quantity

\* Mutant of Remaining: anything below a share is taken for residue.
RemainingWholeShares(held, quantity) ==
    IF Distance(held, quantity) < Scale THEN 0 ELSE held - quantity

Remaining(held, quantity) ==
    IF Distance(held, quantity) <= Tolerance THEN 0 ELSE held - quantity

\* The average cost is carried: a sale does not rewrite what the rest cost.
RowAfterSell(positions, t, quantity) ==
    [qty |-> Remaining(positions[t].qty, quantity), avg |-> positions[t].avg]

\* Mutant of ApplyPosition: the delete names the user and forgets the ticker.
ApplyPositionDeletingAll(positions, t, row) ==
    IF row.qty = 0
    THEN [u \in {} |-> row]
    ELSE [u \in DOMAIN positions \cup {t} |-> IF u = t THEN row ELSE positions[u]]

\* apply_position: quantity zero means no row, anything else is an upsert.
ApplyPosition(positions, t, row) ==
    IF row.qty = 0
    THEN [u \in DOMAIN positions \ {t} |-> positions[u]]
    ELSE [u \in DOMAIN positions \cup {t} |-> IF u = t THEN row ELSE positions[u]]

\* Held tickers the price reading does not have.
Unpriced(positions, prices) == DOMAIN positions \ DOMAIN prices

\* total_value, in cents * Scale: the stored total is not rounded.
TotalValue(cash, positions, prices) ==
    cash * Scale
      + MapThenSumSet(LAMBDA t : positions[t].qty * prices[t],
                      DOMAIN positions \cap DOMAIN prices)

\* The points _record_snapshot appends: none when a holding has no price.
SnapshotPoints(cash, positions, prices) ==
    IF Unpriced(positions, prices) = {} THEN <<TotalValue(cash, positions, prices)>>
    ELSE <<>>
=============================================================================
