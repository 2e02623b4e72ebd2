------------------------------- MODULE TradeTxn -------------------------------
(***************************************************************************)
(* The account as it runs: request threads fill trades and value the       *)
(* portfolio while a background thread records the P&L series, over one    *)
(* SQLite database in WAL mode and one price cache that other threads      *)
(* write.  Statement by statement, with a crash, failing statements and    *)
(* busy time-outs.                                                         *)
(*                                                                         *)
(* A write transaction (db.database.transaction) takes the write lock at   *)
(* BEGIN IMMEDIATE and works on what was committed then; nobody else sees  *)
(* its work before COMMIT.  A read transaction (read_transaction) keeps    *)
(* the snapshot of its first read.                                         *)
(*                                                                         *)
(* The external pieces are SQLite (the lock, the snapshot, durability of   *)
(* what was committed) and the market source (Tick, Freeze, Evict).        *)
(***************************************************************************)
EXTENDS Account, Sequences

CONSTANTS
    Prices, Quantities, StartingCash,
    Orders,            \* the orders clients may send
    Traders,           \* threads that each serve one trade request
    Readers,           \* threads that each serve one GET /api/portfolio
    NoProc,            \* the write lock is free
    Snapshotter,       \* the background snapshot thread
    MaxCacheChanges,   \* bound: writes, freezes and evictions of the cache
    MaxPoints,         \* bound: rounds of the background thread
    MaxFaults          \* bound: crashes, failing statements and busy time-outs

ASSUME OrdersAssumption ==
    Orders \subseteq [ticker : Tickers, side : {"buy", "sell"}, quantity : Quantities]

ASSUME MoneyAssumption ==
    Prices \subseteq Nat /\ Quantities \subseteq Nat \ {0} /\ StartingCash \in Nat
ASSUME BoundsAssumption ==
    MaxCacheChanges \in Nat /\ MaxPoints \in Nat /\ MaxFaults \in Nat

\* The threads are different ones, and there are finitely many.
ASSUME ThreadsAssumption ==
    /\ IsFiniteSet(Traders)
    /\ Traders \cap Readers = {} /\ Snapshotter \notin Traders \cup Readers
    /\ NoProc \notin Traders \cup Readers \cup {Snapshotter}

Procs == Traders \cup Readers \cup {Snapshotter}

VARIABLES
    cache,    \* PriceCache._prices
    fresh,    \* tickers received within staleness_limit
    db,       \* the committed database
    lock,     \* who holds SQLite's write lock
    pc,       \* where each thread is
    order,    \* what each trader was asked for
    reading,  \* the get_all() each thread works from
    work,     \* each thread's own view inside its transaction
    seen,     \* history: committed <<cash, positions>> pairs
    frozen,   \* history: traders whose price was stale when they read it
    changes, points, faults

cacheVars == <<cache, fresh, changes>>
bounds == <<points, faults>>
vars == <<cache, fresh, db, lock, pc, order, reading, work, seen, frozen,
          changes, points, faults>>

EmptyReading == [t \in {} |-> 0]
SeededDb == [cash |-> StartingCash, positions |-> [t \in {} |-> 0],
             trades |-> <<>>, ids |-> <<>>, snapshots |-> <<>>]

Init ==
    /\ cache = EmptyReading
    /\ fresh = {}
    /\ db = SeededDb
    /\ lock = NoProc
    /\ pc = [p \in Procs |-> "idle"]
    /\ order \in [Traders -> Orders]
    /\ reading = [p \in Procs |-> EmptyReading]
    /\ work = [p \in Procs |-> SeededDb]
    /\ seen = {<<StartingCash, SeededDb.positions>>}
    /\ frozen = {}
    /\ changes = 0 /\ points = 0 /\ faults = 0

-----------------------------------------------------------------------------
(* The market source, as the threads here can tell: external *)

Tick(t, price) ==
    /\ changes < MaxCacheChanges
    /\ cache' = [u \in DOMAIN cache \cup {t} |-> IF u = t THEN price ELSE cache[u]]
    /\ fresh' = fresh \cup {t}
    /\ changes' = changes + 1
    /\ UNCHANGED <<db, lock, pc, order, reading, work, seen, frozen, bounds>>

\* The feed stops: the entry outlives staleness_limit.
Freeze(t) ==
    /\ t \in fresh
    /\ changes < MaxCacheChanges
    /\ fresh' = fresh \ {t}
    /\ changes' = changes + 1
    /\ UNCHANGED <<cache, db, lock, pc, order, reading, work, seen, frozen, bounds>>

Evict(t) ==
    /\ t \in DOMAIN cache
    /\ changes < MaxCacheChanges
    /\ cache' = [u \in DOMAIN cache \ {t} |-> cache[u]]
    /\ fresh' = fresh \ {t}
    /\ changes' = changes + 1
    /\ UNCHANGED <<db, lock, pc, order, reading, work, seen, frozen, bounds>>

IsStale(t) == t \in DOMAIN cache /\ t \notin fresh

-----------------------------------------------------------------------------
(* Transactions *)

\* The connection is closed and the thread's locals are gone.
Forget(p) ==
    /\ work' = [work EXCEPT ![p] = SeededDb]
    /\ reading' = [reading EXCEPT ![p] = EmptyReading]

\* BEGIN IMMEDIATE: waits for the write lock, then sees what is committed.
\* Mutant of LockFree: a plain BEGIN, which takes no lock.
LockNotNeeded == TRUE
LockFree == lock = NoProc

Begin(p, next) ==
    /\ LockFree
    /\ lock' = p
    /\ work' = [work EXCEPT ![p] = db]
    /\ pc' = [pc EXCEPT ![p] = next]

Commit(p, next) ==
    /\ db' = work[p]
    /\ Forget(p)
    /\ seen' = seen \cup {<<work[p].cash, work[p].positions>>}
    /\ lock' = NoProc
    /\ pc' = [pc EXCEPT ![p] = next]

\* Mutant of Rollback: the refused order leaves its transaction open.
RollbackForgotten(p, next) ==
    /\ pc' = [pc EXCEPT ![p] = next]
    /\ Forget(p)
    /\ UNCHANGED <<db, lock, seen>>

Rollback(p, next) ==
    /\ lock' = NoProc
    /\ pc' = [pc EXCEPT ![p] = next]
    /\ Forget(p)
    /\ UNCHANGED <<db, seen>>

-----------------------------------------------------------------------------
(* execute_trade *)

\* prices = price_cache.get_all()
TradeReadPrices(p) ==
    /\ pc[p] = "idle"
    /\ reading' = [reading EXCEPT ![p] = cache]
    /\ frozen' = IF IsStale(order[p].ticker) THEN frozen \cup {p} ELSE frozen
    /\ pc' = [pc EXCEPT ![p] = "priced"]
    /\ UNCHANGED <<cacheVars, db, lock, order, work, seen, bounds>>

\* _require_price: the price from the reading, the staleness from the cache as it is now.
TradeRequirePrice(p) ==
    /\ pc[p] = "priced"
    /\ IF Priced(reading[p], order[p].ticker) /\ ~IsStale(order[p].ticker)
       THEN pc' = [pc EXCEPT ![p] = "begin"] /\ UNCHANGED <<reading, work>>
       ELSE pc' = [pc EXCEPT ![p] = "refused"] /\ Forget(p)
    /\ UNCHANGED <<cacheVars, db, lock, order, seen, frozen, bounds>>

TradeBegin(p) ==
    /\ pc[p] = "begin"
    /\ Begin(p, "apply")
    /\ UNCHANGED <<cacheVars, db, order, reading, seen, frozen, bounds>>

\* get_cash_balance and get_position, _apply_buy or _apply_sell, and the three
\* writes: all on this thread's own work, so that nobody can come in between.  A
\* refusal rolls back.
TradeApply(p) ==
    /\ pc[p] = "apply"
    /\ LET t   == order[p].ticker
           q   == order[p].quantity
           own == work[p]
           Write(cash, row) ==
               /\ work' = [work EXCEPT ![p] =
                     [own EXCEPT !.cash = cash,
                                 !.positions = ApplyPosition(own.positions, t, row),
                                 !.trades = Append(own.trades,
                                                   [ticker |-> t, side |-> order[p].side,
                                                    quantity |-> q, price |-> reading[p][t]]),
                                 !.ids = Append(own.ids, p)]]
               /\ pc' = [pc EXCEPT ![p] = "snapshot"]
               /\ UNCHANGED <<db, lock, seen, reading>>
       IN  \E value \in FillValues(reading[p][t], q) :
              \/ /\ order[p].side = "buy"
                 /\ BuyAllowed(own.cash, value)
                 /\ Write(own.cash - value, RowAfterBuy(own.positions, t, q, value))
              \/ /\ order[p].side = "sell"
                 /\ SellAllowed(own.positions, t, q)
                 /\ Write(own.cash + value, RowAfterSell(own.positions, t, q))
              \/ /\ \/ order[p].side = "buy" /\ ~BuyAllowed(own.cash, value)
                    \/ order[p].side = "sell" /\ ~SellAllowed(own.positions, t, q)
                 /\ Rollback(p, "refused")
    /\ UNCHANGED <<cacheVars, order, frozen, bounds>>

\* _value and _record_snapshot, reading back inside the same transaction.
\* Mutant of PointsFor: values the account as others still see it.
PointsForCommitted(p) == SnapshotPoints(db.cash, db.positions, reading[p])

PointsFor(p) == SnapshotPoints(work[p].cash, work[p].positions, reading[p])

TradeSnapshot(p) ==
    /\ pc[p] = "snapshot"
    /\ work' = [work EXCEPT ![p].snapshots = @ \o PointsFor(p)]
    /\ pc' = [pc EXCEPT ![p] = "commit"]
    /\ UNCHANGED <<cacheVars, db, lock, order, reading, seen, frozen, bounds>>

TradeCommit(p) ==
    /\ pc[p] = "commit"
    /\ Commit(p, "respond")
    /\ UNCHANGED <<cacheVars, order, frozen, bounds>>

TradeRespond(p) ==
    /\ pc[p] = "respond"
    /\ pc' = [pc EXCEPT ![p] = "filled"]
    /\ UNCHANGED <<cacheVars, db, lock, order, reading, work, seen, frozen, bounds>>

-----------------------------------------------------------------------------
(* record_snapshot, one round of the background task *)

SnapReadPrices ==
    /\ pc[Snapshotter] = "idle"
    /\ points < MaxPoints
    /\ points' = points + 1
    /\ reading' = [reading EXCEPT ![Snapshotter] = cache]
    /\ pc' = [pc EXCEPT ![Snapshotter] = "begin"]
    /\ UNCHANGED <<cacheVars, db, lock, order, work, seen, frozen, faults>>

SnapBegin ==
    /\ pc[Snapshotter] = "begin"
    /\ Begin(Snapshotter, "snapshot")
    /\ UNCHANGED <<cacheVars, db, order, reading, seen, frozen, bounds>>

SnapRecord ==
    /\ pc[Snapshotter] = "snapshot"
    /\ work' = [work EXCEPT ![Snapshotter].snapshots = @ \o PointsFor(Snapshotter)]
    /\ pc' = [pc EXCEPT ![Snapshotter] = "commit"]
    /\ UNCHANGED <<cacheVars, db, lock, order, reading, seen, frozen, bounds>>

SnapCommit ==
    /\ pc[Snapshotter] = "commit"
    /\ Commit(Snapshotter, "idle")
    /\ UNCHANGED <<cacheVars, order, frozen, bounds>>

-----------------------------------------------------------------------------
(* get_portfolio *)

ReaderReadPrices(r) ==
    /\ pc[r] = "idle"
    /\ reading' = [reading EXCEPT ![r] = cache]
    /\ pc' = [pc EXCEPT ![r] = "cash"]
    /\ UNCHANGED <<cacheVars, db, lock, order, work, seen, frozen, bounds>>

\* The first read fixes the snapshot, of which cash and positions matter here.
ReaderReadCash(r) ==
    /\ pc[r] = "cash"
    /\ work' = [work EXCEPT ![r] = [SeededDb EXCEPT !.cash = db.cash,
                                                   !.positions = db.positions]]
    /\ pc' = [pc EXCEPT ![r] = "positions"]
    /\ UNCHANGED <<cacheVars, db, lock, order, reading, seen, frozen, bounds>>

\* Mutant of SecondRead: in autocommit every statement reads the newest commit.
SecondReadAutocommit(r) == db.positions
SecondRead(r) == work[r].positions

ReaderReadPositions(r) ==
    /\ pc[r] = "positions"
    /\ work' = [work EXCEPT ![r].positions = SecondRead(r)]
    /\ reading' = [reading EXCEPT ![r] = EmptyReading]
    /\ pc' = [pc EXCEPT ![r] = "answered"]
    /\ UNCHANGED <<cacheVars, db, lock, order, seen, frozen, bounds>>

-----------------------------------------------------------------------------
(* What goes wrong *)

\* The write lock is held by another thread for longer than busy_timeout.
BusyTimeout(p) ==
    /\ pc[p] = "begin"
    /\ lock # NoProc
    /\ faults < MaxFaults
    /\ faults' = faults + 1
    /\ pc' = [pc EXCEPT ![p] = IF p = Snapshotter THEN "idle" ELSE "failed"]
    /\ Forget(p)
    /\ UNCHANGED <<cacheVars, db, lock, order, seen, frozen, points>>

\* A statement, or COMMIT, raises inside the transaction; transaction() rolls back.
StatementFails(p) ==
    /\ lock = p
    /\ faults < MaxFaults
    /\ faults' = faults + 1
    /\ Rollback(p, IF p = Snapshotter THEN "idle" ELSE "failed")
    /\ UNCHANGED <<cacheVars, order, frozen, points>>

\* The process dies and starts again with an empty cache.  Committed work survives,
\* the requests under way are lost.
Crash ==
    /\ faults < MaxFaults
    /\ faults' = faults + 1
    /\ cache' = EmptyReading
    /\ fresh' = {}
    /\ lock' = NoProc
    /\ pc' = [p \in Procs |->
                 IF p = Snapshotter THEN "idle"
                 ELSE IF pc[p] \in {"idle", "filled", "refused", "failed", "answered"}
                      THEN pc[p] ELSE "lost"]
    /\ reading' = [p \in Procs |-> EmptyReading]
    /\ work' = [p \in Procs |-> IF pc[p] = "answered" THEN work[p] ELSE SeededDb]
    /\ UNCHANGED <<db, order, seen, frozen, changes, points>>

-----------------------------------------------------------------------------
TraderStep(p) ==
    \/ TradeReadPrices(p) \/ TradeRequirePrice(p) \/ TradeBegin(p) \/ TradeApply(p)
    \/ TradeSnapshot(p) \/ TradeCommit(p) \/ TradeRespond(p)

SnapshotterStep == SnapReadPrices \/ SnapBegin \/ SnapRecord \/ SnapCommit

ReaderStep(r) == ReaderReadPrices(r) \/ ReaderReadCash(r) \/ ReaderReadPositions(r)

Finished == {"filled", "refused", "failed", "lost", "answered"}

\* Every request is served, the background thread has done its rounds.
Done ==
    /\ \A p \in Traders \cup Readers : pc[p] \in Finished
    /\ pc[Snapshotter] = "idle" /\ points = MaxPoints
    /\ UNCHANGED vars

Next ==
    \/ \E t \in Tickers, price \in Prices : Tick(t, price)
    \/ \E t \in Tickers : Freeze(t) \/ Evict(t)
    \/ \E p \in Traders : TraderStep(p)
    \/ SnapshotterStep
    \/ \E r \in Readers : ReaderStep(r)
    \/ \E p \in Traders \cup {Snapshotter} : BusyTimeout(p) \/ StatementFails(p)
    \/ Crash
    \/ Done

\* Threads are scheduled and SQLite answers; nothing is assumed of the market, of
\* failures or of crashes.
Fairness ==
    /\ \A p \in Traders : WF_vars(TraderStep(p))
    /\ WF_vars(SnapshotterStep)
    /\ \A r \in Readers : WF_vars(ReaderStep(r))

Spec == Init /\ [][Next]_vars /\ Fairness

-----------------------------------------------------------------------------
(* Properties *)

RowsBy(p) == {i \in DOMAIN db.ids : db.ids[i] = p}

\* The answer a client gets agrees with the blotter, whatever crashed or failed on
\* the way: "filled" means exactly one row, refused and failed mean none, and a
\* lost request was done once or not at all.
AnswerMatchesBlotter ==
    \A p \in Traders :
        /\ pc[p] = "filled" => Cardinality(RowsBy(p)) = 1
        /\ pc[p] \in {"refused", "failed"} => RowsBy(p) = {}
        /\ Cardinality(RowsBy(p)) <= 1

\* GET /api/portfolio reports cash and positions that were committed together; a
\* trade that commits between its two queries does not tear the total.
ReportedAccountExisted ==
    \A r \in Readers :
        pc[r] = "answered" => <<work[r].cash, work[r].positions>> \in seen

\* Every request comes to an answer or is lost in a crash; no thread waits for the
\* write lock for ever.
EveryRequestEnds ==
    \A p \in Traders \cup Readers :
        (pc[p] \in {"priced", "cash"}) ~> (pc[p] \in Finished)

\* What portfolio._require_price says of a price that has stopped updating, "it
\* cannot be traded on": no fill uses a price that was stale when it was read.
NoFillAtFrozenPrice ==
    \A p \in Traders : RowsBy(p) # {} => p \notin frozen

\* The database implements the ledger: each COMMIT is one whole trade or snapshot.
MoneyFlow(trade) ==
    (IF trade.side = "buy" THEN -1 ELSE 1) * trade.price * trade.quantity
ShareFlow(trade, t) ==
    IF trade.ticker # t THEN 0
    ELSE (IF trade.side = "buy" THEN 1 ELSE -1) * trade.quantity

MoneyFlows(trades) == [i \in DOMAIN trades |-> MoneyFlow(trades[i])]
ShareFlows(trades, t) == [i \in DOMAIN trades |-> ShareFlow(trades[i], t)]

\* What start becomes when all the flows are added to it, one after the other.
Total(start, flows) ==
    LET after[n \in 0..Len(flows)] ==
            IF n = 0 THEN start ELSE after[n - 1] + flows[n]
    IN  after[Len(flows)]

L == INSTANCE Ledger WITH
        cash <- db.cash,
        positions <- db.positions,
        trades <- db.trades,
        snapshots <- db.snapshots,
        exactCash <- Total(StartingCash * Scale, MoneyFlows(db.trades)),
        netShares <- [t \in Tickers |-> Total(0, ShareFlows(db.trades, t))],
        MaxTrades <- Cardinality(Traders),
        MaxSnapshots <- Cardinality(Traders) + MaxPoints

ImplementsLedger == L!Spec
=============================================================================
