---------------------------- MODULE TradeTxnProofs ----------------------------
(***************************************************************************)
(* Theorems about the account as it runs, for any number of trading and    *)
(* reading threads, any orders and any prices, and for any number of       *)
(* crashes, failing statements and busy time-outs.                         *)
(***************************************************************************)
EXTENDS TradeTxn, FiniteSetTheorems, SequenceTheorems, WellFoundedInduction, TLAPS

-----------------------------------------------------------------------------
(* The write lock *)

Writers == Traders \cup {Snapshotter}
Inside == {"apply", "snapshot", "commit"}     \* inside a write transaction
Fields == {"cash", "positions", "trades", "ids", "snapshots"}

Types ==
    /\ DOMAIN pc = Procs /\ DOMAIN work = Procs /\ DOMAIN reading = Procs
    /\ order \in [Traders -> Orders]
    /\ DOMAIN db = Fields /\ \A p \in Procs : DOMAIN work[p] = Fields

\* Whoever is inside a write transaction holds the lock, and nobody else does.
Locked ==
    /\ lock \in Writers \cup {NoProc}
    /\ \A p \in Writers : lock = p <=> pc[p] \in Inside
    /\ pc[Snapshotter] \in {"idle", "begin", "snapshot", "commit"}

LEMMA TypesInit == Init => Types
BY DEF Init, Types, SeededDb, Fields

LEMMA LockedInit == Init => Locked
BY ThreadsAssumption DEF Init, Locked, Writers, Procs, Inside

\* What every step is to the thread that takes it and to all the others.
Alone(p) ==
    \A q \in Procs \ {p} :
        pc'[q] = pc[q] /\ work'[q] = work[q] /\ reading'[q] = reading[q]

LEMMA TraderAlone ==
    ASSUME Types, NEW p \in Traders,
           TraderStep(p) \/ BusyTimeout(p) \/ StatementFails(p)
    PROVE  Alone(p) /\ order' = order
BY DEF Types, Procs, Alone, TraderStep, TradeReadPrices, TradeRequirePrice, TradeBegin, TradeApply,
       TradeSnapshot, TradeCommit, TradeRespond, BusyTimeout, StatementFails, Begin, Commit,
       Rollback, Forget

LEMMA SnapshotterAlone ==
    ASSUME Types, \/ SnapshotterStep
                  \/ BusyTimeout(Snapshotter) \/ StatementFails(Snapshotter)
    PROVE  Alone(Snapshotter) /\ order' = order
BY DEF Types, Procs, Alone, SnapshotterStep, SnapReadPrices, SnapBegin, SnapRecord,
       SnapCommit, BusyTimeout, StatementFails, Begin, Commit, Rollback, Forget

LEMMA ReaderAlone ==
    ASSUME Types, NEW r \in Readers, ReaderStep(r)
    PROVE  Alone(r) /\ order' = order
BY DEF Types, Procs, Alone, ReaderStep, ReaderReadPrices, ReaderReadCash,
       ReaderReadPositions

\* A step of the market touches no thread, nor the database.
Market ==
    \/ \E t \in Tickers, price \in Prices : Tick(t, price)
    \/ \E t \in Tickers : Freeze(t) \/ Evict(t)

LEMMA MarketTouchesNobody ==
    ASSUME Market \/ Done \/ UNCHANGED vars
    PROVE  UNCHANGED <<db, lock, pc, order, reading, work, seen>>
BY DEF Market, Tick, Freeze, Evict, Done, vars

LEMMA StepCases ==
    ASSUME [Next]_vars
    PROVE  \/ Market \/ Done \/ UNCHANGED vars \/ Crash
           \/ \E p \in Traders : TraderStep(p) \/ BusyTimeout(p) \/ StatementFails(p)
           \/ SnapshotterStep \/ BusyTimeout(Snapshotter) \/ StatementFails(Snapshotter)
           \/ \E r \in Readers : ReaderStep(r)
BY DEF Next, Market

\* The five ways in which the step of one thread can meet the lock and the database.
Outside(p) ==
    /\ pc[p] \notin Inside /\ pc'[p] \notin Inside
    /\ lock' = lock /\ db' = db /\ seen' = seen
Enters(p) ==
    /\ pc[p] \notin Inside /\ pc'[p] = (IF p = Snapshotter THEN "snapshot" ELSE "apply")
    /\ lock = NoProc /\ lock' = p /\ db' = db /\ seen' = seen
    /\ work'[p] = db /\ reading'[p] = reading[p]
Works(p) ==
    /\ pc[p] \in Inside /\ pc'[p] \in Inside \ {"apply"}
    /\ lock' = lock /\ db' = db /\ seen' = seen
    /\ reading'[p] = reading[p]
Leaves(p) ==
    /\ pc[p] \in Inside /\ pc'[p] \notin Inside
    /\ lock' = NoProc /\ db' = db /\ seen' = seen
Commits(p) ==
    /\ pc[p] = "commit" /\ pc'[p] = (IF p = Snapshotter THEN "idle" ELSE "respond")
    /\ lock' = NoProc /\ db' = work[p]
    /\ seen' = seen \cup {<<work[p].cash, work[p].positions>>}

Meets(p) == Outside(p) \/ Enters(p) \/ Works(p) \/ Leaves(p) \/ Commits(p)

LEMMA TraderMeets ==
    ASSUME Types, Locked, NEW p \in Traders,
           TraderStep(p) \/ BusyTimeout(p) \/ StatementFails(p)
    PROVE  Meets(p)
<1> USE DEF Types, Procs, Inside
<1>0. p # Snapshotter
    BY ThreadsAssumption
<1>1. ASSUME TradeReadPrices(p) \/ TradeRequirePrice(p) \/ TradeRespond(p) \/ BusyTimeout(p)
      PROVE  Outside(p)
    BY <1>0, <1>1
       DEF Outside, TradeReadPrices, TradeRequirePrice, TradeRespond, BusyTimeout, Forget
<1>2. ASSUME TradeBegin(p)
      PROVE  Enters(p)
    BY <1>0, <1>2 DEF Enters, TradeBegin, Begin, LockFree
<1>3. ASSUME TradeSnapshot(p)
      PROVE  Works(p)
    BY <1>3 DEF Works, TradeSnapshot
<1>4. ASSUME TradeApply(p)
      PROVE  Works(p) \/ Leaves(p)
    BY <1>4 DEF Works, Leaves, TradeApply, Rollback
<1>5. ASSUME TradeCommit(p)
      PROVE  Commits(p)
    BY <1>0, <1>5 DEF Commits, TradeCommit, Commit
<1>6. ASSUME StatementFails(p)
      PROVE  Leaves(p)
    BY <1>0, <1>6 DEF Leaves, StatementFails, Rollback, Locked, Writers
<1> QED
    BY <1>1, <1>2, <1>3, <1>4, <1>5, <1>6 DEF Meets, TraderStep

LEMMA SnapshotterMeets ==
    ASSUME Types, Locked,
           \/ SnapshotterStep
           \/ BusyTimeout(Snapshotter) \/ StatementFails(Snapshotter)
    PROVE  /\ Meets(Snapshotter)
           /\ pc'[Snapshotter] \in {"idle", "begin", "snapshot", "commit"}
<1> USE DEF Types, Procs, Inside
<1>1. ASSUME SnapReadPrices \/ BusyTimeout(Snapshotter)
      PROVE  Outside(Snapshotter) /\ pc'[Snapshotter] \in {"idle", "begin"}
    BY <1>1 DEF Outside, SnapReadPrices, BusyTimeout
<1>2. ASSUME SnapBegin
      PROVE  Enters(Snapshotter) /\ pc'[Snapshotter] = "snapshot"
    BY <1>2 DEF Enters, SnapBegin, Begin, LockFree
<1>3. ASSUME SnapRecord
      PROVE  Works(Snapshotter) /\ pc'[Snapshotter] = "commit"
    BY <1>3 DEF Works, SnapRecord
<1>4. ASSUME SnapCommit
      PROVE  Commits(Snapshotter) /\ pc'[Snapshotter] = "idle"
    BY <1>4 DEF Commits, SnapCommit, Commit
<1>5. ASSUME StatementFails(Snapshotter)
      PROVE  Leaves(Snapshotter) /\ pc'[Snapshotter] = "idle"
    BY <1>5 DEF Leaves, StatementFails, Rollback, Locked, Writers
<1> QED
    BY <1>1, <1>2, <1>3, <1>4, <1>5 DEF Meets, SnapshotterStep

LEMMA ReaderMeets ==
    ASSUME Types, NEW r \in Readers, ReaderStep(r)
    PROVE  Outside(r)
BY DEF Types, Procs, Inside, Outside, ReaderStep, ReaderReadPrices, ReaderReadCash,
       ReaderReadPositions

LEMMA TypesStep == Types /\ [Next]_vars => Types'
<1> SUFFICES ASSUME Types, [Next]_vars
             PROVE  Types'
    OBVIOUS
<1> USE DEF Types, Procs
<1>1. CASE Market \/ Done \/ UNCHANGED vars
    BY <1>1, MarketTouchesNobody
<1>2. ASSUME NEW p \in Traders, TraderStep(p) \/ BusyTimeout(p) \/ StatementFails(p)
      PROVE  Types'
    <2>1. ASSUME TradeApply(p)
          PROVE  Types'
        BY <2>1, ZenonT(40) DEF TradeApply, Rollback, Forget, SeededDb, Fields
    <2>2. ASSUME \/ TradeReadPrices(p) \/ TradeRequirePrice(p) \/ TradeBegin(p)
                 \/ TradeSnapshot(p) \/ TradeRespond(p) \/ BusyTimeout(p)
          PROVE  Types'
        BY <2>2 DEF TradeReadPrices, TradeRequirePrice, TradeBegin, TradeSnapshot,
                    TradeRespond, BusyTimeout, Begin, Forget, SeededDb, Fields
    <2>3. ASSUME TradeCommit(p) \/ StatementFails(p)
          PROVE  Types'
        BY <2>3 DEF TradeCommit, StatementFails, Commit, Rollback, Forget, SeededDb, Fields
    <2> QED
        BY <1>2, <2>1, <2>2, <2>3 DEF TraderStep
<1>3. ASSUME \/ SnapshotterStep
             \/ BusyTimeout(Snapshotter) \/ StatementFails(Snapshotter)
      PROVE  Types'
    BY <1>3 DEF SnapshotterStep, SnapReadPrices, SnapBegin, SnapRecord, SnapCommit,
                BusyTimeout, StatementFails, Begin, Commit, Rollback, Forget, SeededDb, Fields
<1>4. ASSUME NEW r \in Readers, ReaderStep(r)
      PROVE  Types'
    BY <1>4 DEF ReaderStep, ReaderReadPrices, ReaderReadCash, ReaderReadPositions, SeededDb,
                Fields
<1>5. CASE Crash
    BY <1>5 DEF Crash, SeededDb, Fields
<1> QED
    BY <1>1, <1>2, <1>3, <1>4, <1>5, StepCases

\* However one thread meets the lock, the others' places are theirs still.
LEMMA LockedMeets ==
    ASSUME Locked, NEW p \in Procs, Meets(p), Alone(p),
           p \in Writers \/ Outside(p),
           p = Snapshotter => pc'[p] \in {"idle", "begin", "snapshot", "commit"}
    PROVE  Locked'
<1> USE DEF Locked, Procs, Writers, Alone, Inside
<1>1. NoProc \notin Procs
    BY ThreadsAssumption
<1>2. pc'[Snapshotter] \in {"idle", "begin", "snapshot", "commit"}
    OBVIOUS
<1>3. CASE Outside(p)
    BY <1>2, <1>3 DEF Outside
<1>4. CASE Enters(p) /\ p \in Writers
    BY <1>1, <1>2, <1>4 DEF Enters
<1>5. CASE Works(p) /\ p \in Writers
    BY <1>2, <1>5 DEF Works
<1>6. CASE (Leaves(p) \/ Commits(p)) /\ p \in Writers
    BY <1>1, <1>2, <1>6 DEF Leaves, Commits
<1> QED
    BY <1>3, <1>4, <1>5, <1>6 DEF Meets

\* A crash leaves every thread idle, answered or lost, and answers nobody.
LEMMA CrashEffect ==
    ASSUME Crash
    PROVE  /\ db' = db /\ seen' = seen /\ lock' = NoProc /\ order' = order
           /\ pc'[Snapshotter] = "idle"
           /\ \A p \in Procs \ {Snapshotter} :
                 \/ /\ pc[p] \in {"idle", "filled", "refused", "failed", "answered"}
                    /\ pc'[p] = pc[p]
                 \/ pc'[p] = "lost"
           /\ \A p \in Procs : pc[p] = "answered" => work'[p] = work[p]
<1>1. pc'[Snapshotter] = "idle"
    BY DEF Crash, Procs
<1>2. \A p \in Procs \ {Snapshotter} :
          \/ /\ pc[p] \in {"idle", "filled", "refused", "failed", "answered"}
             /\ pc'[p] = pc[p]
          \/ pc'[p] = "lost"
    BY DEF Crash
<1>3. UNCHANGED <<db, seen, order>> /\ lock' = NoProc
    BY DEF Crash
<1>4. \A p \in Procs : pc[p] = "answered" => work'[p] = work[p]
    BY DEF Crash
<1> QED
    BY <1>1, <1>2, <1>3, <1>4

LEMMA LockedStep == Types /\ Locked /\ [Next]_vars => Locked'
<1> SUFFICES ASSUME Types, Locked, [Next]_vars
             PROVE  Locked'
    OBVIOUS
<1>1. CASE Market \/ Done \/ UNCHANGED vars
    BY <1>1, MarketTouchesNobody DEF Locked
<1>2. ASSUME NEW p \in Traders, TraderStep(p) \/ BusyTimeout(p) \/ StatementFails(p)
      PROVE  Locked'
    <2>1. p \in Procs /\ p \in Writers /\ p # Snapshotter
        BY ThreadsAssumption DEF Procs, Writers
    <2> QED
        BY <1>2, <2>1, TraderAlone, TraderMeets, LockedMeets
<1>3. ASSUME \/ SnapshotterStep
             \/ BusyTimeout(Snapshotter) \/ StatementFails(Snapshotter)
      PROVE  Locked'
    <2>1. Snapshotter \in Procs /\ Snapshotter \in Writers
        BY DEF Procs, Writers
    <2> QED
        BY <1>3, <2>1, SnapshotterAlone, SnapshotterMeets, LockedMeets
<1>4. ASSUME NEW r \in Readers, ReaderStep(r)
      PROVE  Locked'
    <2>1. r \in Procs /\ r # Snapshotter
        BY ThreadsAssumption DEF Procs
    <2> QED
        BY <1>4, <2>1, ReaderAlone, ReaderMeets, LockedMeets DEF Meets
<1>5. CASE Crash
    <2>1. /\ lock' = NoProc /\ pc'[Snapshotter] = "idle"
          /\ \A p \in Writers : pc'[p] \notin Inside
        BY <1>5, CrashEffect DEF Writers, Procs, Inside
    <2> QED
        BY <2>1, ThreadsAssumption DEF Locked, Writers, Procs
<1> QED
    BY <1>1, <1>2, <1>3, <1>4, <1>5, StepCases

LEMMA LockHolds == Spec => [](Types /\ Locked)
<1>1. Types /\ Locked /\ [Next]_vars => Types' /\ Locked'
    BY TypesStep, LockedStep
<1> QED
    BY <1>1, TypesInit, LockedInit, PTL DEF Spec

-----------------------------------------------------------------------------
(* What a reader reports *)

\* What is committed has been seen, and so has what a reader has read.
Existed ==
    /\ <<db.cash, db.positions>> \in seen
    /\ \A r \in Readers :
          pc[r] \in {"positions", "answered"} => <<work[r].cash, work[r].positions>> \in seen

LEMMA ExistedInit == Init => Existed
BY DEF Init, Existed, SeededDb, Procs

LEMMA ExistedStep == Types /\ Locked /\ Existed /\ [Next]_vars => Existed'
<1> SUFFICES ASSUME Types, Locked, Existed, [Next]_vars
             PROVE  Existed'
    OBVIOUS
<1>1. CASE Market \/ Done \/ UNCHANGED vars
    BY <1>1, MarketTouchesNobody DEF Existed
<1>2. ASSUME NEW p \in Writers, Meets(p), Alone(p)
      PROVE  Existed'
    <2>1. /\ seen \subseteq seen'
          /\ <<db'.cash, db'.positions>> \in seen'
        BY <1>2 DEF Existed, Meets, Outside, Enters, Works, Leaves, Commits
    <2>2. \A r \in Readers : pc'[r] = pc[r] /\ work'[r] = work[r]
        BY <1>2, ThreadsAssumption DEF Alone, Procs, Writers
    <2> QED
        BY <2>1, <2>2 DEF Existed
<1>3. ASSUME NEW r \in Readers, ReaderStep(r)
      PROVE  Existed'
    <2>1. db' = db /\ seen' = seen
        BY <1>3, ReaderMeets DEF Outside
    <2>2. pc'[r] \in {"positions", "answered"} => <<work'[r].cash, work'[r].positions>> \in seen
        <3> USE DEF Types, Procs, Existed
        <3>1. CASE ReaderReadPrices(r)
            BY <3>1 DEF ReaderReadPrices
        <3>2. CASE ReaderReadCash(r)
            <4>1. work'[r].cash = db.cash /\ work'[r].positions = db.positions
                BY <3>2 DEF ReaderReadCash, SeededDb
            <4> QED
                BY <4>1
        <3>3. CASE ReaderReadPositions(r)
            <4>1. work'[r] = [work[r] EXCEPT !.positions = work[r].positions]
                BY <3>3 DEF ReaderReadPositions, SecondRead
            <4>2. work'[r].cash = work[r].cash /\ work'[r].positions = work[r].positions
                BY <4>1 DEF Fields
            <4> QED
                BY <3>3, <4>2 DEF ReaderReadPositions
        <3> QED
            BY <1>3, <3>1, <3>2, <3>3 DEF ReaderStep
    <2> QED
        BY <1>3, <2>1, <2>2, ReaderAlone DEF Existed, Alone, Procs
<1>4. CASE Crash
    <2>1. \A r \in Readers :
              pc'[r] \in {"positions", "answered"} => pc[r] = "answered" /\ work'[r] = work[r]
        BY <1>4, ThreadsAssumption DEF Crash, Procs
    <2> QED
        BY <1>4, <2>1 DEF Crash, Existed
<1> QED
    BY <1>1, <1>2, <1>3, <1>4, StepCases, TraderAlone, TraderMeets, SnapshotterAlone,
       SnapshotterMeets
       DEF Writers

\* GET /api/portfolio never tears the account: the cash and the positions it reports
\* were committed together, whatever commits, fails or crashes between its queries.
THEOREM ReportsOneAccount == Spec => []ReportedAccountExisted
<1>1. Existed => ReportedAccountExisted
    BY DEF Existed, ReportedAccountExisted
<1> QED
    BY <1>1, LockHolds, ExistedInit, ExistedStep, PTL DEF Spec

-----------------------------------------------------------------------------
(* What a transaction holds *)

\* The whole of a trade, P&L point apart: what p's fill makes of the database.
FilledBy(p, book) ==
    LET t == order[p].ticker
        q == order[p].quantity
    IN  /\ Priced(reading[p], t)
        /\ \E value \in FillValues(reading[p][t], q) :
              \/ /\ order[p].side = "buy" /\ BuyAllowed(db.cash, value)
                 /\ book.cash = db.cash - value
                 /\ book.positions = ApplyPosition(db.positions, t,
                                                   RowAfterBuy(db.positions, t, q, value))
              \/ /\ order[p].side = "sell" /\ SellAllowed(db.positions, t, q)
                 /\ book.cash = db.cash + value
                 /\ book.positions = ApplyPosition(db.positions, t,
                                                   RowAfterSell(db.positions, t, q))
        /\ book.trades = Append(db.trades, [ticker |-> t, side |-> order[p].side,
                                            quantity |-> q, price |-> reading[p][t]])
        /\ book.ids = Append(db.ids, p)

NothingBut(book, points_) ==
    /\ book.cash = db.cash /\ book.positions = db.positions
    /\ book.trades = db.trades /\ book.ids = db.ids
    /\ book.snapshots = db.snapshots \o points_

\* The point p's transaction writes values the account as that transaction leaves it.
Points(p, book) == SnapshotPoints(book.cash, book.positions, reading[p])

TraderWork(p) ==
    /\ pc[p] \in {"begin", "apply"} => Priced(reading[p], order[p].ticker)
    /\ pc[p] = "apply" => work[p] = db
    /\ pc[p] = "snapshot" => FilledBy(p, work[p]) /\ work[p].snapshots = db.snapshots
    /\ pc[p] = "commit" =>
          FilledBy(p, work[p]) /\ work[p].snapshots = db.snapshots \o Points(p, work[p])

SnapshotterWork ==
    /\ pc[Snapshotter] = "snapshot" => work[Snapshotter] = db
    /\ pc[Snapshotter] = "commit" =>
          NothingBut(work[Snapshotter], Points(Snapshotter, work[Snapshotter]))

\* What a transaction is about to commit is what is committed, plus one whole trade or
\* one point.
WholeWork == SnapshotterWork /\ \A p \in Traders : TraderWork(p)

LEMMA WholeWorkInit == Init => WholeWork
BY DEF Init, WholeWork, SnapshotterWork, TraderWork, Procs

\* A thread that does not move keeps what it is about to commit.
LEMMA TraderWorkKept ==
    ASSUME NEW p \in Traders, TraderWork(p), order' = order,
           pc'[p] = pc[p], work'[p] = work[p], reading'[p] = reading[p],
           db' = db \/ pc[p] \notin Inside
    PROVE  TraderWork(p)'
<1>1. CASE db' = db
    BY <1>1 DEF TraderWork, FilledBy, Points
<1>2. CASE pc[p] \notin Inside
    BY <1>2 DEF TraderWork, Inside
<1> QED
    BY <1>1, <1>2

LEMMA SnapshotterWorkKept ==
    ASSUME SnapshotterWork, pc'[Snapshotter] = pc[Snapshotter],
           work'[Snapshotter] = work[Snapshotter], reading'[Snapshotter] = reading[Snapshotter],
           db' = db \/ pc[Snapshotter] \notin Inside
    PROVE  SnapshotterWork'
<1>1. CASE db' = db
    BY <1>1 DEF SnapshotterWork, NothingBut, Points
<1>2. CASE pc[Snapshotter] \notin Inside
    BY <1>2 DEF SnapshotterWork, Inside
<1> QED
    BY <1>1, <1>2

\* While one thread commits nobody else is inside.
LEMMA CommitsAlone ==
    ASSUME Locked, NEW p \in Procs, Meets(p), p \in Writers \/ Outside(p)
    PROVE  \A q \in Writers \ {p} : db' = db \/ pc[q] \notin Inside
BY DEF Locked, Meets, Outside, Enters, Works, Leaves, Commits, Inside

\* A trader's own step.
LEMMA TraderWorkStep ==
    ASSUME Types, Locked, NEW p \in Traders, TraderWork(p),
           TraderStep(p) \/ BusyTimeout(p) \/ StatementFails(p)
    PROVE  TraderWork(p)'
<1> USE DEF Types, Procs
<1>0. p # Snapshotter
    BY ThreadsAssumption
<1>1. ASSUME \/ TradeReadPrices(p) \/ TradeCommit(p) \/ TradeRespond(p)
             \/ BusyTimeout(p) \/ StatementFails(p)
      PROVE  TraderWork(p)'
    <2>1. pc'[p] \in {"priced", "respond", "filled", "failed"}
        BY <1>0, <1>1 DEF TradeReadPrices, TradeCommit, TradeRespond, BusyTimeout,
                          StatementFails, Commit, Rollback
    <2> QED
        BY <2>1 DEF TraderWork
<1>2. ASSUME TradeRequirePrice(p)
      PROVE  TraderWork(p)'
    <2>1. \/ pc'[p] = "begin" /\ Priced(reading[p], order[p].ticker) /\ reading' = reading
          \/ pc'[p] = "refused"
        BY <1>2 DEF TradeRequirePrice
    <2> QED
        BY <1>2, <2>1 DEF TraderWork, TradeRequirePrice
<1>3. ASSUME TradeBegin(p)
      PROVE  TraderWork(p)'
    BY <1>3 DEF TraderWork, TradeBegin, Begin
<1>4. ASSUME TradeApply(p)
      PROVE  TraderWork(p)'
    <2>1. CASE pc'[p] = "snapshot"
        <3>1. /\ pc[p] = "apply" /\ work[p] = db /\ Priced(reading[p], order[p].ticker)
              /\ UNCHANGED <<db, reading, order>>
            BY <1>4, <2>1 DEF TraderWork, TradeApply, Rollback
        <3> DEFINE t == order[p].ticker
                   q == order[p].quantity
                   price == reading[p][t]
                   Written(cash, row) ==
                       [db EXCEPT
                            !.cash = cash,
                            !.positions = ApplyPosition(db.positions, t, row),
                            !.trades = Append(db.trades,
                                              [ticker |-> t, side |-> order[p].side,
                                               quantity |-> q, price |-> price]),
                            !.ids = Append(db.ids, p)]
        <3>2. PICK value \in FillValues(price, q) :
                 \/ /\ order[p].side = "buy" /\ BuyAllowed(db.cash, value)
                    /\ work'[p] = Written(db.cash - value,
                                          RowAfterBuy(db.positions, t, q, value))
                 \/ /\ order[p].side = "sell" /\ SellAllowed(db.positions, t, q)
                    /\ work'[p] = Written(db.cash + value, RowAfterSell(db.positions, t, q))
            BY <1>4, <2>1, <3>1 DEF TradeApply, Rollback
        <3>3. ASSUME NEW cash, NEW row
              PROVE  /\ Written(cash, row).cash = cash
                     /\ Written(cash, row).positions = ApplyPosition(db.positions, t, row)
                     /\ Written(cash, row).trades =
                           Append(db.trades, [ticker |-> t, side |-> order[p].side,
                                              quantity |-> q, price |-> price])
                     /\ Written(cash, row).ids = Append(db.ids, p)
                     /\ Written(cash, row).snapshots = db.snapshots
            BY DEF Fields
        <3> HIDE DEF Written
        <3>4. FilledBy(p, work'[p]) /\ work'[p].snapshots = db.snapshots
            BY <3>1, <3>2, <3>3, SMTT(30) DEF FilledBy
        <3> QED
            BY <2>1, <3>1, <3>4 DEF TraderWork, FilledBy
    <2>2. CASE pc'[p] = "refused"
        BY <2>2 DEF TraderWork
    <2> QED
        BY <1>4, <2>1, <2>2 DEF TradeApply, Rollback
<1>5. ASSUME TradeSnapshot(p)
      PROVE  TraderWork(p)'
    <2>1. /\ FilledBy(p, work[p]) /\ work[p].snapshots = db.snapshots
          /\ UNCHANGED <<db, reading, order>> /\ pc'[p] = "commit"
          /\ work'[p] = [work[p] EXCEPT !.snapshots = work[p].snapshots \o Points(p, work[p])]
        BY <1>5 DEF TraderWork, TradeSnapshot, PointsFor, Points
    <2>2. /\ work'[p].cash = work[p].cash /\ work'[p].positions = work[p].positions
          /\ work'[p].trades = work[p].trades /\ work'[p].ids = work[p].ids
          /\ work'[p].snapshots = work[p].snapshots \o Points(p, work[p])
        BY <2>1 DEF Fields
    <2> QED
        BY <2>1, <2>2, ZenonT(40) DEF TraderWork, FilledBy, Points
<1> QED
    BY <1>1, <1>2, <1>3, <1>4, <1>5 DEF TraderStep

LEMMA SnapshotterWorkStep ==
    ASSUME Types, Locked, SnapshotterWork,
           \/ SnapshotterStep
           \/ BusyTimeout(Snapshotter) \/ StatementFails(Snapshotter)
    PROVE  SnapshotterWork'
<1> USE DEF Types, Procs
<1>1. ASSUME \/ SnapReadPrices \/ SnapCommit
             \/ BusyTimeout(Snapshotter) \/ StatementFails(Snapshotter)
      PROVE  SnapshotterWork'
    <2>1. pc'[Snapshotter] \in {"begin", "idle"}
        BY <1>1 DEF SnapReadPrices, SnapCommit, BusyTimeout, StatementFails, Commit, Rollback
    <2> QED
        BY <2>1 DEF SnapshotterWork
<1>2. ASSUME SnapBegin
      PROVE  SnapshotterWork'
    BY <1>2 DEF SnapshotterWork, SnapBegin, Begin
<1>3. ASSUME SnapRecord
      PROVE  SnapshotterWork'
    <2> DEFINE own == work[Snapshotter]
    <2>1. /\ own = db /\ UNCHANGED <<db, reading>> /\ pc'[Snapshotter] = "commit"
          /\ work'[Snapshotter] =
                [own EXCEPT !.snapshots = own.snapshots \o Points(Snapshotter, own)]
        BY <1>3 DEF SnapshotterWork, SnapRecord, PointsFor, Points
    <2>2. /\ work'[Snapshotter].cash = own.cash /\ work'[Snapshotter].positions = own.positions
          /\ work'[Snapshotter].trades = own.trades /\ work'[Snapshotter].ids = own.ids
          /\ work'[Snapshotter].snapshots = own.snapshots \o Points(Snapshotter, own)
        BY <2>1 DEF Fields
    <2> QED
        BY <2>1, <2>2 DEF SnapshotterWork, NothingBut, Points
<1> QED
    BY <1>1, <1>2, <1>3 DEF SnapshotterStep

LEMMA WholeWorkStep == Types /\ Locked /\ WholeWork /\ [Next]_vars => WholeWork'
<1> SUFFICES ASSUME Types, Locked, WholeWork, [Next]_vars
             PROVE  WholeWork'
    OBVIOUS
<1> USE DEF WholeWork, Writers, Procs
<1>1. CASE Market \/ Done \/ UNCHANGED vars
    BY <1>1, MarketTouchesNobody, TraderWorkKept, SnapshotterWorkKept
<1>2. ASSUME NEW p \in Traders, TraderStep(p) \/ BusyTimeout(p) \/ StatementFails(p)
      PROVE  WholeWork'
    <2>1. Meets(p) /\ Alone(p) /\ order' = order /\ p # Snapshotter
        BY <1>2, TraderMeets, TraderAlone, ThreadsAssumption
    <2>2. \A q \in Writers \ {p} : db' = db \/ pc[q] \notin Inside
        BY <2>1, CommitsAlone
    <2>3. SnapshotterWork'
        BY <2>1, <2>2, SnapshotterWorkKept DEF Alone
    <2>4. ASSUME NEW q \in Traders \ {p}
          PROVE  TraderWork(q)'
        BY <2>1, <2>2, TraderWorkKept DEF Alone
    <2>5. TraderWork(p)'
        BY <1>2, TraderWorkStep
    <2> QED
        BY <2>3, <2>4, <2>5
<1>3. ASSUME \/ SnapshotterStep
             \/ BusyTimeout(Snapshotter) \/ StatementFails(Snapshotter)
      PROVE  WholeWork'
    <2>1. Meets(Snapshotter) /\ Alone(Snapshotter) /\ order' = order
        BY <1>3, SnapshotterMeets, SnapshotterAlone
    <2>2. \A q \in Writers \ {Snapshotter} : db' = db \/ pc[q] \notin Inside
        BY <2>1, CommitsAlone
    <2>3. ASSUME NEW q \in Traders
          PROVE  TraderWork(q)'
        <3>1. q # Snapshotter
            BY ThreadsAssumption
        <3> QED
            BY <2>1, <2>2, <3>1, TraderWorkKept DEF Alone
    <2> QED
        BY <1>3, <2>3, SnapshotterWorkStep
<1>4. ASSUME NEW r \in Readers, ReaderStep(r)
      PROVE  WholeWork'
    <2>1. Outside(r) /\ Alone(r) /\ order' = order
        BY <1>4, ReaderMeets, ReaderAlone
    <2>2. SnapshotterWork'
        BY <2>1, ThreadsAssumption, SnapshotterWorkKept DEF Alone, Outside
    <2>3. ASSUME NEW q \in Traders
          PROVE  TraderWork(q)'
        <3>1. q # r
            BY ThreadsAssumption
        <3> QED
            BY <2>1, <3>1, TraderWorkKept DEF Alone, Outside
    <2> QED
        BY <2>2, <2>3
<1>5. CASE Crash
    <2>1. pc'[Snapshotter] = "idle"
        BY <1>5, CrashEffect
    <2>2. ASSUME NEW p \in Traders
          PROVE  pc'[p] \notin {"begin", "apply", "snapshot", "commit"}
        <3>1. p # Snapshotter
            BY ThreadsAssumption
        <3> QED
            BY <1>5, <3>1, CrashEffect
    <2> QED
        BY <2>1, <2>2 DEF TraderWork, SnapshotterWork
<1> QED
    BY <1>1, <1>2, <1>3, <1>4, <1>5, StepCases

\* Only a commit changes the database.
LEMMA OnlyCommits ==
    ASSUME Types, Locked, [Next]_vars
    PROVE  db' = db \/ \E p \in Writers : Commits(p)
<1>1. CASE Market \/ Done \/ UNCHANGED vars
    BY <1>1, MarketTouchesNobody
<1>2. CASE Crash
    BY <1>2, CrashEffect
<1>3. ASSUME NEW p \in Writers, Meets(p)
      PROVE  db' = db \/ Commits(p)
    BY <1>3 DEF Meets, Outside, Enters, Works, Leaves
<1> QED
    BY <1>1, <1>2, <1>3, StepCases, TraderMeets, SnapshotterMeets, ReaderMeets
       DEF Writers, Outside

-----------------------------------------------------------------------------
(* The blotter *)

Answered == {"respond", "filled"}     \* committed, with an answer to give

Blotter ==
    /\ db.ids \in Seq(Traders)
    /\ \A p \in Traders :
          /\ pc[p] \in Answered => RowsBy(p) # {}
          /\ pc[p] \notin Answered \cup {"lost"} => RowsBy(p) = {}
          /\ \A i, j \in RowsBy(p) : i = j

LEMMA BlotterInit == Init => Blotter
BY DEF Init, Blotter, SeededDb, RowsBy, Procs, Answered

\* A thread keeps its answer, or its lack of one, or is lost.
Keeps(p) ==
    \/ /\ pc'[p] \in Answered <=> pc[p] \in Answered
       /\ pc[p] = "lost" => pc'[p] = "lost"
    \/ pc'[p] = "lost"

\* No row appears while nobody commits.
LEMMA BlotterQuiet ==
    ASSUME Blotter, db' = db, \A p \in Traders : Keeps(p)
    PROVE  Blotter'
BY DEF Blotter, RowsBy, Answered, Keeps

LEMMA TraderKeeps ==
    ASSUME Types, Locked, NEW p \in Traders,
           TraderStep(p) \/ BusyTimeout(p) \/ StatementFails(p)
    PROVE  Keeps(p) \/ Commits(p)
<1> USE DEF Types, Procs, Answered, Keeps
<1>0. p # Snapshotter
    BY ThreadsAssumption
<1>1. ASSUME TradeApply(p)
      PROVE  Keeps(p)
    BY <1>1 DEF TradeApply, Rollback
<1>2. ASSUME \/ TradeReadPrices(p) \/ TradeRequirePrice(p) \/ TradeBegin(p)
             \/ TradeSnapshot(p) \/ TradeRespond(p) \/ BusyTimeout(p)
      PROVE  Keeps(p)
    BY <1>0, <1>2 DEF TradeReadPrices, TradeRequirePrice, TradeBegin, TradeSnapshot,
                      TradeRespond, BusyTimeout, Begin
<1>3. ASSUME StatementFails(p)
      PROVE  Keeps(p)
    BY <1>0, <1>3 DEF StatementFails, Rollback, Locked, Writers, Inside
<1>4. ASSUME TradeCommit(p)
      PROVE  Commits(p)
    BY <1>0, <1>4 DEF Commits, TradeCommit, Commit
<1> QED
    BY <1>1, <1>2, <1>3, <1>4 DEF TraderStep

\* A trade's commit adds its one row.
LEMMA BlotterFill ==
    ASSUME Types, Blotter, WholeWork, NEW p \in Traders, Commits(p), Alone(p)
    PROVE  Blotter'
<1> DEFINE n == Len(db.ids)
<1>1. p # Snapshotter
    BY ThreadsAssumption
<1>2. pc[p] = "commit" /\ pc'[p] = "respond" /\ db'.ids = Append(db.ids, p)
    BY <1>1 DEF Commits, WholeWork, TraderWork, FilledBy
<1>3. /\ db.ids \in Seq(Traders) /\ db'.ids \in Seq(Traders)
      /\ n \in Nat /\ DOMAIN db.ids = 1..n /\ DOMAIN db'.ids = 1..(n + 1)
      /\ \A i \in 1..n : db'.ids[i] = db.ids[i]
      /\ db'.ids[n + 1] = p
    BY <1>2 DEF Blotter
<1>4. RowsBy(p) = {} /\ RowsBy(p)' = {n + 1}
    <2>1. RowsBy(p) = {}
        BY <1>2 DEF Blotter, Answered
    <2>2. \A i \in 1..n : db'.ids[i] # p
        BY <1>3, <2>1 DEF RowsBy
    <2> QED
        BY <1>3, <2>1, <2>2 DEF RowsBy
<1>5. ASSUME NEW q \in Traders \ {p}
      PROVE  RowsBy(q)' = RowsBy(q) /\ pc'[q] = pc[q]
    BY <1>3 DEF RowsBy, Alone, Procs
<1>6. ASSUME NEW q \in Traders
      PROVE  /\ pc'[q] \in Answered => RowsBy(q)' # {}
             /\ pc'[q] \notin Answered \cup {"lost"} => RowsBy(q)' = {}
             /\ \A i, j \in RowsBy(q)' : i = j
    BY <1>2, <1>4, <1>5, SMTT(30) DEF Blotter, Answered
<1> QED
    BY <1>3, <1>6 DEF Blotter

LEMMA BlotterStep == Types /\ Locked /\ WholeWork /\ Blotter /\ [Next]_vars => Blotter'
<1> SUFFICES ASSUME Types, Locked, WholeWork, Blotter, [Next]_vars
             PROVE  Blotter'
    OBVIOUS
<1> USE DEF Procs, Keeps
<1>1. CASE Market \/ Done \/ UNCHANGED vars
    BY <1>1, MarketTouchesNobody, BlotterQuiet
<1>2. ASSUME NEW p \in Traders, TraderStep(p) \/ BusyTimeout(p) \/ StatementFails(p)
      PROVE  Blotter'
    <2>1. Meets(p) /\ Alone(p)
        BY <1>2, TraderMeets, TraderAlone
    <2>2. CASE Commits(p)
        BY <2>1, <2>2, BlotterFill
    <2>3. CASE ~Commits(p)
        <3>1. db' = db
            BY <2>1, <2>3 DEF Meets, Outside, Enters, Works, Leaves
        <3>2. \A q \in Traders : Keeps(q)
            BY <1>2, <2>1, <2>3, TraderKeeps DEF Alone
        <3> QED
            BY <3>1, <3>2, BlotterQuiet
    <2> QED
        BY <2>2, <2>3
<1>3. ASSUME \/ SnapshotterStep
             \/ BusyTimeout(Snapshotter) \/ StatementFails(Snapshotter)
      PROVE  Blotter'
    <2>1. Meets(Snapshotter) /\ \A q \in Traders : pc'[q] = pc[q]
        BY <1>3, SnapshotterMeets, SnapshotterAlone, ThreadsAssumption DEF Alone
    <2>2. db'.ids = db.ids
        BY <2>1 DEF Meets, Outside, Enters, Works, Leaves, Commits, WholeWork,
                    SnapshotterWork, NothingBut
    <2> QED
        BY <2>1, <2>2 DEF Blotter, RowsBy
<1>4. ASSUME NEW r \in Readers, ReaderStep(r)
      PROVE  Blotter'
    <2>1. db' = db /\ \A q \in Traders : pc'[q] = pc[q]
        BY <1>4, ReaderMeets, ReaderAlone, ThreadsAssumption DEF Alone, Outside
    <2> QED
        BY <2>1, BlotterQuiet
<1>5. CASE Crash
    <2>1. ASSUME NEW p \in Traders
          PROVE  Keeps(p)
        <3>1. p # Snapshotter
            BY ThreadsAssumption
        <3> QED
            BY <1>5, <3>1, CrashEffect
    <2> QED
        BY <1>5, <2>1, CrashEffect, BlotterQuiet
<1> QED
    BY <1>1, <1>2, <1>3, <1>4, <1>5, StepCases

\* The answer a client gets agrees with the blotter, whatever fails or crashes before,
\* during or after the commit: filled is exactly one row, refused or failed is none, and
\* what a crash lost was done once or not at all.
THEOREM AnswersHold == Spec => []AnswerMatchesBlotter
<1>1. Blotter => AnswerMatchesBlotter
    <2> SUFFICES ASSUME Blotter, NEW p \in Traders
                 PROVE  /\ pc[p] = "filled" => Cardinality(RowsBy(p)) = 1
                        /\ pc[p] \in {"refused", "failed"} => RowsBy(p) = {}
                        /\ Cardinality(RowsBy(p)) <= 1
        BY DEF AnswerMatchesBlotter
    <2>1. CASE RowsBy(p) = {}
        <3>1. Cardinality(RowsBy(p)) = 0
            BY <2>1, FS_EmptySet
        <3> QED
            BY <2>1, <3>1 DEF Blotter, Answered
    <2>2. CASE RowsBy(p) # {}
        <3>1. PICK i \in RowsBy(p) : RowsBy(p) = {i}
            BY <2>2 DEF Blotter
        <3>2. Cardinality(RowsBy(p)) = 1
            BY <3>1, FS_Singleton
        <3> QED
            BY <2>2, <3>2 DEF Blotter, Answered
    <2> QED
        BY <2>1, <2>2
<1> QED
    BY <1>1, LockHolds, WholeWorkInit, WholeWorkStep, BlotterInit, BlotterStep, PTL DEF Spec

-----------------------------------------------------------------------------
(* Running totals *)

\* The running totals of the first n flows.
AddsUp(after, start, flows, n) ==
    after[0] = start /\ \A k \in 1..n : after[k] = after[k - 1] + flows[k]

\* A property of natural numbers that fails somewhere fails first somewhere.
LEMMA LeastFailure ==
    ASSUME NEW Bad \in SUBSET Nat, Bad # {}
    PROVE  \E m \in Bad : \A k \in 0..(m - 1) : k \notin Bad
<1>1. PICK m \in Bad : \A k \in Bad : ~ (<<k, m>> \in OpToRel(<, Nat))
    BY NatLessThanWellFounded, WFMin
<1>2. \A k \in 0..(m - 1) : k \in Nat /\ k < m
    OBVIOUS
<1>3. \A k \in Bad : ~ (k < m)
    BY <1>1 DEF OpToRel
<1> QED
    BY <1>2, <1>3

LEMMA SumsExist ==
    ASSUME NEW start \in Int, NEW flows \in Seq(Int)
    PROVE  \A n \in 0..Len(flows) : \E g \in [0..n -> Int] : AddsUp(g, start, flows, n)
<1> DEFINE Upto(n) == \E g \in [0..n -> Int] : AddsUp(g, start, flows, n)
           Bad == {n \in 0..Len(flows) : ~Upto(n)}
<1>0. Len(flows) \in Nat /\ \A n \in 1..Len(flows) : flows[n] \in Int
    OBVIOUS
<1>1. SUFFICES ASSUME Bad # {}
               PROVE  FALSE
    OBVIOUS
<1> HIDE DEF Upto
<1>2. Bad \in SUBSET Nat
    BY <1>0
<1>3. PICK m \in Bad : \A k \in 0..(m - 1) : k \notin Bad
    BY <1>1, <1>2, LeastFailure
<1>4. Upto(0)
    <2> DEFINE g == [k \in 0..0 |-> start]
    <2>1. g \in [0..0 -> Int] /\ AddsUp(g, start, flows, 0)
        BY DEF AddsUp
    <2> HIDE DEF g
    <2> QED
        BY <2>1 DEF Upto
<1>5. m \in 1..Len(flows) /\ m - 1 \in 0..Len(flows)
    BY <1>0, <1>4
<1>6. Upto(m - 1)
    BY <1>0, <1>3, <1>5
<1>7. PICK g \in [0..(m - 1) -> Int] : AddsUp(g, start, flows, m - 1)
    BY <1>6 DEF Upto
<1> DEFINE h == [k \in 0..m |-> IF k = m THEN g[m - 1] + flows[m] ELSE g[k]]
<1>8. h \in [0..m -> Int]
    BY <1>0, <1>5
<1>9. AddsUp(h, start, flows, m)
    BY <1>0, <1>5, <1>7 DEF AddsUp
<1> QED
    BY <1>3, <1>8, <1>9 DEF Upto

\* There is only one way to add up.
LEMMA SumsAgree ==
    ASSUME NEW n \in Nat, NEW start, NEW flows, NEW f, NEW g,
           AddsUp(f, start, flows, n), AddsUp(g, start, flows, n)
    PROVE  f[n] = g[n]
<1> DEFINE Bad == {k \in 0..n : f[k] # g[k]}
<1>1. SUFFICES ASSUME Bad # {}
               PROVE  FALSE
    OBVIOUS
<1>2. PICK m \in Bad : \A k \in 0..(m - 1) : k \notin Bad
    <2>1. Bad \in SUBSET Nat
        OBVIOUS
    <2> QED
        BY <1>1, <2>1, LeastFailure
<1>3. m \in 1..n /\ m - 1 \in 0..n
    BY DEF AddsUp
<1>4. f[m - 1] = g[m - 1]
    BY <1>2, <1>3
<1> QED
    BY <1>3, <1>4 DEF AddsUp

\* What Total computes.
LEMMA TotalIsSum ==
    ASSUME NEW start \in Int, NEW flows \in Seq(Int)
    PROVE  \E g \in [0..Len(flows) -> Int] :
              AddsUp(g, start, flows, Len(flows)) /\ Total(start, flows) = g[Len(flows)]
<1> DEFINE N == Len(flows)
           after[n \in 0..N] == IF n = 0 THEN start ELSE after[n - 1] + flows[n]
<1>0. N \in Nat /\ N \in 0..N
    OBVIOUS
<1>1. PICK g \in [0..N -> Int] : AddsUp(g, start, flows, N)
    BY <1>0, SumsExist
<1>2. g = [n \in 0..N |-> IF n = 0 THEN start ELSE g[n - 1] + flows[n]]
    BY <1>0, <1>1 DEF AddsUp
<1>3. after = [n \in 0..N |-> IF n = 0 THEN start ELSE after[n - 1] + flows[n]]
    <2>1. \E x : x = [n \in 0..N |-> IF n = 0 THEN start ELSE x[n - 1] + flows[n]]
        BY <1>2
    <2> QED
        BY <2>1
<1>4. Total(start, flows) = after[N]
    BY DEF Total
<1> HIDE DEF after
<1>5. AddsUp(after, start, flows, N)
    BY <1>0, <1>3 DEF AddsUp
<1>6. after[N] = g[N]
    BY <1>0, <1>1, <1>5, SumsAgree
<1> QED
    BY <1>1, <1>4, <1>6

LEMMA TotalAppend ==
    ASSUME NEW start \in Int, NEW flows \in Seq(Int), NEW more \in Seq(Int),
           Len(more) = Len(flows) + 1, \A k \in 1..Len(flows) : more[k] = flows[k]
    PROVE  /\ Total(start, flows) \in Int
           /\ Total(start, more) = Total(start, flows) + more[Len(more)]
<1> DEFINE N == Len(flows)
<1>0. N \in Nat
    OBVIOUS
<1>1. PICK f \in [0..N -> Int] : AddsUp(f, start, flows, N) /\ Total(start, flows) = f[N]
    BY TotalIsSum
<1>2. PICK g \in [0..(N + 1) -> Int] :
              AddsUp(g, start, more, N + 1) /\ Total(start, more) = g[N + 1]
    BY TotalIsSum
<1>3. AddsUp(g, start, flows, N)
    BY <1>0, <1>2 DEF AddsUp
<1>4. f[N] = g[N]
    BY <1>0, <1>1, <1>3, SumsAgree
<1>5. g[N + 1] = g[N] + more[N + 1]
    <2>1. N + 1 \in 1..(N + 1) /\ (N + 1) - 1 = N
        BY <1>0
    <2> QED
        BY <1>2, <2>1 DEF AddsUp
<1> QED
    BY <1>0, <1>1, <1>2, <1>4, <1>5

\* Nothing to add.
LEMMA TotalOfNone ==
    ASSUME NEW start \in Int, NEW flows \in Seq(Int), Len(flows) = 0
    PROVE  Total(start, flows) = start
<1>1. PICK g : AddsUp(g, start, flows, Len(flows)) /\ Total(start, flows) = g[Len(flows)]
    BY TotalIsSum
<1> QED
    BY <1>1 DEF AddsUp

-----------------------------------------------------------------------------
(* The ledger's history, computed from the blotter *)

TradeRows == [ticker : Tickers, side : {"buy", "sell"}, quantity : Quantities, price : Prices]

LEMMA FlowTyped ==
    ASSUME NEW row \in TradeRows
    PROVE  /\ row.price * row.quantity \in Nat
           /\ MoneyFlow(row) \in Int /\ \A t \in Tickers : ShareFlow(row, t) \in Int
<1>1. row.price \in Nat /\ row.quantity \in Nat
    <2>1. row.price \in Prices /\ row.quantity \in Quantities
        BY DEF TradeRows
    <2> QED
        BY <2>1, MoneyAssumption
<1>2. row.price * row.quantity \in Nat
    BY <1>1
<1>3. MoneyFlow(row) \in Int
    BY <1>1, <1>2 DEF MoneyFlow
<1> QED
    BY <1>1, <1>2, <1>3 DEF ShareFlow

LEMMA FlowsTyped ==
    ASSUME NEW trades \in Seq(TradeRows)
    PROVE  /\ MoneyFlows(trades) \in Seq(Int) /\ Len(MoneyFlows(trades)) = Len(trades)
           /\ \A t \in Tickers : /\ ShareFlows(trades, t) \in Seq(Int)
                                 /\ Len(ShareFlows(trades, t)) = Len(trades)
<1>1. Len(trades) \in Nat /\ DOMAIN trades = 1..Len(trades)
    OBVIOUS
<1>2. \A i \in 1..Len(trades) : trades[i] \in TradeRows
    OBVIOUS
<1> QED
    BY <1>1, <1>2, FlowTyped DEF MoneyFlows, ShareFlows

\* One more row in the blotter is one more flow.
LEMMA FlowsGrow ==
    ASSUME NEW trades \in Seq(TradeRows), NEW row \in TradeRows, NEW more,
           more = Append(trades, row)
    PROVE  /\ Total(StartingCash * Scale, MoneyFlows(more)) =
                 Total(StartingCash * Scale, MoneyFlows(trades)) + MoneyFlow(row)
           /\ Total(StartingCash * Scale, MoneyFlows(trades)) \in Int
           /\ \A t \in Tickers : /\ Total(0, ShareFlows(trades, t)) \in Int
                                 /\ Total(0, ShareFlows(more, t)) =
                                       Total(0, ShareFlows(trades, t)) + ShareFlow(row, t)
<1> DEFINE N == Len(trades)
<1>1. N \in Nat /\ StartingCash * Scale \in Int /\ 0 \in Int
    BY MoneyAssumption, ScaleAssumption
<1>2. /\ more \in Seq(TradeRows) /\ Len(more) = N + 1
      /\ DOMAIN trades = 1..N /\ DOMAIN more = 1..(N + 1)
      /\ \A i \in 1..N : more[i] = trades[i]
      /\ more[N + 1] = row
    OBVIOUS
<1>3. /\ Total(StartingCash * Scale, MoneyFlows(trades)) \in Int
      /\ Total(StartingCash * Scale, MoneyFlows(more)) =
             Total(StartingCash * Scale, MoneyFlows(trades)) + MoneyFlow(row)
    <2> DEFINE flows == MoneyFlows(trades)
               longer == MoneyFlows(more)
    <2>1. /\ flows \in Seq(Int) /\ longer \in Seq(Int)
          /\ Len(flows) = N /\ Len(longer) = N + 1
        BY <1>2, FlowsTyped
    <2>2. (\A k \in 1..N : longer[k] = flows[k]) /\ longer[N + 1] = MoneyFlow(row)
        BY <1>1, <1>2 DEF MoneyFlows
    <2>3. /\ Total(StartingCash * Scale, flows) \in Int
          /\ Total(StartingCash * Scale, longer) =
                 Total(StartingCash * Scale, flows) + longer[N + 1]
        <3> HIDE DEF flows, longer
        <3> QED
            BY <1>1, <2>1, <2>2, TotalAppend
    <2> QED
        BY <2>2, <2>3
<1>4. ASSUME NEW t \in Tickers
      PROVE  /\ Total(0, ShareFlows(trades, t)) \in Int
             /\ Total(0, ShareFlows(more, t)) =
                   Total(0, ShareFlows(trades, t)) + ShareFlow(row, t)
    <2> DEFINE flows == ShareFlows(trades, t)
               longer == ShareFlows(more, t)
    <2>1. /\ flows \in Seq(Int) /\ longer \in Seq(Int)
          /\ Len(flows) = N /\ Len(longer) = N + 1
        BY <1>2, FlowsTyped
    <2>2. (\A k \in 1..N : longer[k] = flows[k]) /\ longer[N + 1] = ShareFlow(row, t)
        BY <1>1, <1>2 DEF ShareFlows
    <2>3. Total(0, flows) \in Int /\ Total(0, longer) = Total(0, flows) + longer[N + 1]
        <3> HIDE DEF flows, longer
        <3> QED
            BY <1>1, <2>1, <2>2, TotalAppend
    <2> QED
        BY <2>2, <2>3
<1> QED
    BY <1>3, <1>4

-----------------------------------------------------------------------------
(* Room for the ledger's bounds, and readings the ledger could have *)

\* A reading of the cache: some tickers, each with one of the prices.
Reads(prices) == DOMAIN prices \subseteq Tickers /\ prices \in [DOMAIN prices -> Prices]

Readings == Reads(cache) /\ \A p \in Procs : Reads(reading[p])

PointsFit ==
    Len(db.snapshots) + (IF pc[Snapshotter] = "idle" THEN 0 ELSE 1)
        <= Len(db.trades) + points

\* There is no more than one row per request, and no more points than rows and rounds of
\* the background thread, the one under way included.
Room ==
    /\ db.trades \in Seq(TradeRows) /\ Len(db.ids) = Len(db.trades)
    /\ \E Values : db.snapshots \in Seq(Values)
    /\ points \in 0..MaxPoints
    /\ PointsFit

LEMMA ReadingsInit == Init => Readings
BY DEF Init, Readings, Reads, EmptyReading

LEMMA EmptyReads == Reads(EmptyReading)
BY DEF Reads, EmptyReading

LEMMA ReadingsStep == Types /\ Readings /\ [Next]_vars => Readings'
<1> SUFFICES ASSUME Types, Readings, [Next]_vars
             PROVE  Readings'
    OBVIOUS
<1>1. ASSUME NEW t \in Tickers, NEW price \in Prices, Tick(t, price)
      PROVE  Readings'
    <2>1. Reads(cache')
        BY <1>1 DEF Tick, Readings, Reads
    <2> QED
        BY <1>1, <2>1 DEF Tick, Readings, Reads
<1>2. ASSUME NEW t \in Tickers, Freeze(t) \/ Evict(t)
      PROVE  Readings'
    <2>1. Reads(cache')
        BY <1>2 DEF Freeze, Evict, Readings, Reads
    <2> QED
        BY <1>2, <2>1 DEF Freeze, Evict, Readings, Reads
<1>3. ASSUME Done \/ UNCHANGED vars
      PROVE  Readings'
    BY <1>3 DEF Done, vars, Readings, Reads
<1>4. ASSUME NEW p \in Procs, cache' = cache,
             \/ reading' = reading \/ reading' = [reading EXCEPT ![p] = cache]
             \/ reading' = [reading EXCEPT ![p] = EmptyReading]
      PROVE  Readings'
    <2> HIDE DEF Reads
    <2>1. Reads(cache')
        BY <1>4 DEF Readings
    <2>2. ASSUME NEW q \in Procs
          PROVE  Reads(reading'[q])
        BY <1>4, EmptyReads DEF Readings, Types
    <2> QED
        BY <2>1, <2>2 DEF Readings, Reads
<1>5. ASSUME NEW p \in Traders, TraderStep(p)
      PROVE  Readings'
    <2>1. p \in Procs
        BY DEF Procs
    <2>2. /\ cache' = cache
          /\ \/ reading' = reading \/ reading' = [reading EXCEPT ![p] = cache]
             \/ reading' = [reading EXCEPT ![p] = EmptyReading]
        BY <1>5 DEF TraderStep, TradeReadPrices, TradeRequirePrice, TradeBegin, TradeApply,
                    TradeSnapshot, TradeCommit, TradeRespond, Begin, Commit, Rollback, Forget,
                    cacheVars
    <2> QED
        BY <1>4, <2>1, <2>2
<1>6. ASSUME SnapshotterStep
      PROVE  Readings'
    <2>1. /\ cache' = cache
          /\ \/ reading' = reading \/ reading' = [reading EXCEPT ![Snapshotter] = cache]
             \/ reading' = [reading EXCEPT ![Snapshotter] = EmptyReading]
        BY <1>6 DEF SnapshotterStep, SnapReadPrices, SnapBegin, SnapRecord, SnapCommit, Begin,
                    Commit, Forget, cacheVars
    <2> QED
        BY <1>4, <2>1 DEF Procs
<1>7. ASSUME NEW p \in Writers, BusyTimeout(p) \/ StatementFails(p)
      PROVE  Readings'
    BY <1>4, <1>7 DEF BusyTimeout, StatementFails, Rollback, Forget, cacheVars, Procs, Writers
<1>8. ASSUME NEW r \in Readers, ReaderStep(r)
      PROVE  Readings'
    BY <1>4, <1>8 DEF ReaderStep, ReaderReadPrices, ReaderReadCash, ReaderReadPositions,
                      cacheVars, Procs
<1>9. CASE Crash
    BY <1>9, EmptyReads DEF Crash, Readings, Reads
<1> QED
    BY <1>1, <1>2, <1>3, <1>5, <1>6, <1>7, <1>8, <1>9, StepCases DEF Market, Writers

LEMMA RoomInit == Init => Room
<1> SUFFICES ASSUME Init
             PROVE  Room
    OBVIOUS
<1>1. /\ db.trades = <<>> /\ db.ids = <<>> /\ db.snapshots = <<>>
      /\ points = 0 /\ pc[Snapshotter] = "idle"
    BY DEF Init, SeededDb, Procs
<1>2. db.snapshots \in Seq({})
    BY <1>1
<1> QED
    BY <1>1, <1>2, BoundsAssumption DEF Room, PointsFit

\* A point is one value.
LEMMA PointsShort ==
    ASSUME NEW p, NEW book
    PROVE  /\ Points(p, book) = <<>> \/ \E v : Points(p, book) = <<v>>
           /\ Unpriced(book.positions, reading[p]) # {} => Points(p, book) = <<>>
BY DEF Points, SnapshotPoints

LEMMA SeriesGrows ==
    ASSUME NEW Values, NEW series \in Seq(Values), NEW points_,
           points_ = <<>> \/ \E v : points_ = <<v>>
    PROVE  /\ \E More : series \o points_ \in Seq(More)
           /\ Len(series \o points_) \in {Len(series), Len(series) + 1}
<1>1. CASE points_ = <<>>
    BY <1>1
<1>2. ASSUME NEW v, points_ = <<v>>
      PROVE  /\ series \o points_ \in Seq(Values \cup {v})
             /\ Len(series \o points_) = Len(series) + 1
    <2> DEFINE More == Values \cup {v}
    <2>1. series \in Seq(More) /\ points_ \in Seq(More) /\ Len(points_) = 1
        BY <1>2
    <2> HIDE DEF More
    <2>2. /\ series \o points_ \in Seq(More)
          /\ Len(series \o points_) = Len(series) + Len(points_)
        BY ONLY <2>1, ConcatProperties, Zenon
    <2> QED
        BY <2>1, <2>2 DEF More
<1> QED
    BY <1>1, <1>2

\* What a fill at a reading of the cache adds to the blotter is a proper row.
FilledRow(p) == [ticker |-> order[p].ticker, side |-> order[p].side,
                 quantity |-> order[p].quantity, price |-> reading[p][order[p].ticker]]

LEMMA FilledRowProper ==
    ASSUME Types, Readings, NEW p \in Traders, Priced(reading[p], order[p].ticker)
    PROVE  /\ FilledRow(p) \in TradeRows
           /\ order[p].ticker \in Tickers /\ order[p].quantity \in Quantities
           /\ order[p].side \in {"buy", "sell"}
<1>1. order[p] \in [ticker : Tickers, side : {"buy", "sell"}, quantity : Quantities]
    BY OrdersAssumption DEF Types
<1>2. reading[p][order[p].ticker] \in Prices
    BY DEF Readings, Reads, Priced, Procs
<1> QED
    BY <1>1, <1>2 DEF FilledRow, TradeRows

LEMMA RoomCommit ==
    ASSUME Types, Locked, WholeWork, Blotter, Readings, Room, points' = points,
           NEW p \in Writers, Commits(p), Alone(p)
    PROVE  Room'
<1>0. Len(db.trades) \in Nat /\ Len(db.snapshots) \in Nat /\ points \in Nat
    BY BoundsAssumption DEF Room
<1>1. PICK Values : db.snapshots \in Seq(Values)
    BY DEF Room
<1>2. CASE p \in Traders
    <2>1. p # Snapshotter /\ Snapshotter \in Procs \ {p}
        BY <1>2, ThreadsAssumption DEF Procs
    <2>2. /\ pc'[Snapshotter] = pc[Snapshotter] /\ FilledBy(p, db')
          /\ db'.snapshots = db.snapshots \o Points(p, db')
        BY <1>2, <2>1 DEF Alone, Commits, WholeWork, TraderWork
    <2>3. FilledRow(p) \in TradeRows
        BY <1>2, <2>2, FilledRowProper DEF FilledBy
    <2>4. db'.trades = Append(db.trades, FilledRow(p)) /\ db'.ids = Append(db.ids, p)
        BY <2>2 DEF FilledBy, FilledRow
    <2>5. /\ db'.trades \in Seq(TradeRows) /\ Len(db'.ids) = Len(db'.trades)
          /\ Len(db'.trades) = Len(db.trades) + 1
        BY <2>3, <2>4 DEF Room, Blotter
    <2>6. /\ \E More : db'.snapshots \in Seq(More)
          /\ Len(db'.snapshots) \in {Len(db.snapshots), Len(db.snapshots) + 1}
        BY <1>1, <2>2, PointsShort, SeriesGrows
    <2>7. PointsFit'
        <3>1. PointsFit
            BY DEF Room
        <3>2. Len(db'.snapshots) <= Len(db.snapshots) + 1 /\ Len(db'.snapshots) \in Nat
            BY <1>0, <2>6
        <3>3. points' = points
            OBVIOUS
        <3> DEFINE i == IF pc[Snapshotter] = "idle" THEN 0 ELSE 1
        <3>4. Len(db.snapshots) + i <= Len(db.trades) + points /\ i \in {0, 1}
            BY <3>1 DEF PointsFit
        <3>5. Len(db'.snapshots) + i <= Len(db'.trades) + points'
            <4> HIDE DEF i
            <4> QED
                BY ONLY <1>0, <2>5, <3>2, <3>3, <3>4
        <3> QED
            BY <2>2, <3>5 DEF PointsFit
    <2> QED
        BY <2>5, <2>6, <2>7 DEF Room
<1>3. CASE p = Snapshotter
    <2>1. /\ pc[p] = "commit" /\ pc'[p] = "idle"
          /\ db'.trades = db.trades /\ db'.ids = db.ids
          /\ db'.snapshots = db.snapshots \o Points(p, db')
        BY <1>3 DEF Commits, WholeWork, SnapshotterWork, NothingBut, Points
    <2>2. /\ \E More : db'.snapshots \in Seq(More)
          /\ Len(db'.snapshots) \in {Len(db.snapshots), Len(db.snapshots) + 1}
        BY <1>1, <2>1, PointsShort, SeriesGrows
    <2>3. PointsFit'
        <3>1. PointsFit
            BY DEF Room
        <3>2. Len(db'.snapshots) <= Len(db.snapshots) + 1 /\ Len(db'.snapshots) \in Nat
            BY <1>0, <2>2
        <3> QED
            BY <1>0, <1>3, <2>1, <3>1, <3>2 DEF PointsFit
    <2> QED
        BY <2>1, <2>2, <2>3 DEF Room
<1> QED
    BY <1>2, <1>3 DEF Writers

LEMMA RoomQuiet ==
    ASSUME Room, db' = db,
           \/ points' = points /\ pc'[Snapshotter] \in {"idle", pc[Snapshotter]}
           \/ points' = points /\ pc[Snapshotter] # "idle"
           \/ points < MaxPoints /\ points' = points + 1
    PROVE  Room'
<1>1. db'.trades = db.trades /\ db'.ids = db.ids /\ db'.snapshots = db.snapshots
    OBVIOUS
<1>2. points' \in 0..MaxPoints
    BY BoundsAssumption DEF Room
<1>3. Len(db.snapshots) \in Nat /\ Len(db.trades) \in Nat /\ points \in Nat
    BY DEF Room
<1>4. PointsFit'
    <2>1. PointsFit
        BY DEF Room
    <2> DEFINE i == IF pc[Snapshotter] = "idle" THEN 0 ELSE 1
               j == IF pc'[Snapshotter] = "idle" THEN 0 ELSE 1
    <2>2. i \in {0, 1} /\ j \in {0, 1}
        OBVIOUS
    <2>3. points' = points + 1 \/ (points' = points /\ j <= i)
        OBVIOUS
    <2>4. Len(db.snapshots) + i <= Len(db.trades) + points
        BY <2>1 DEF PointsFit
    <2>5. Len(db'.snapshots) + j <= Len(db'.trades) + points'
        <3> HIDE DEF i, j
        <3> QED
            BY ONLY <1>1, <1>3, <2>2, <2>3, <2>4
    <2> QED
        BY <2>5 DEF PointsFit
<1> QED
    BY <1>1, <1>2, <1>4 DEF Room

LEMMA RoomStep ==
    Types /\ Locked /\ WholeWork /\ Blotter /\ Readings /\ Room /\ [Next]_vars => Room'
<1> SUFFICES ASSUME Types, Locked, WholeWork, Blotter, Readings, Room, [Next]_vars
             PROVE  Room'
    OBVIOUS
<1>1. CASE Market \/ Done \/ UNCHANGED vars
    <2>1. points' = points
        BY <1>1 DEF Market, Tick, Freeze, Evict, Done, vars, bounds
    <2> QED
        BY <1>1, <2>1, MarketTouchesNobody, RoomQuiet
<1>2. ASSUME NEW p \in Traders, TraderStep(p) \/ BusyTimeout(p) \/ StatementFails(p)
      PROVE  Room'
    <2>1. Meets(p) /\ Alone(p) /\ p # Snapshotter /\ Snapshotter \in Procs
        BY <1>2, TraderMeets, TraderAlone, ThreadsAssumption DEF Procs
    <2>2. points' = points
        BY <1>2 DEF TraderStep, TradeReadPrices, TradeRequirePrice, TradeBegin, TradeApply,
                    TradeSnapshot, TradeCommit, TradeRespond, BusyTimeout, StatementFails, bounds
    <2>3. CASE Commits(p)
        BY <2>1, <2>2, <2>3, RoomCommit DEF Writers
    <2>4. CASE ~Commits(p)
        <3>1. db' = db
            BY <2>1, <2>4 DEF Meets, Outside, Enters, Works, Leaves
        <3>2. pc'[Snapshotter] = pc[Snapshotter]
            BY <2>1 DEF Alone
        <3> QED
            BY <2>2, <3>1, <3>2, RoomQuiet
    <2> QED
        BY <2>3, <2>4
<1>3. ASSUME \/ SnapshotterStep
             \/ BusyTimeout(Snapshotter) \/ StatementFails(Snapshotter)
      PROVE  Room'
    <2>1. Meets(Snapshotter) /\ Alone(Snapshotter)
        BY <1>3, SnapshotterMeets, SnapshotterAlone
    <2>2. CASE Commits(Snapshotter)
        <3>1. points' = points
            BY <1>3, <2>2, ThreadsAssumption
               DEF SnapshotterStep, SnapReadPrices, SnapBegin, SnapRecord, SnapCommit,
                   BusyTimeout, StatementFails, Commits, bounds
        <3> QED
            BY <2>1, <2>2, <3>1, RoomCommit DEF Writers
    <2>3. CASE ~Commits(Snapshotter)
        <3>1. db' = db
            BY <2>1, <2>3 DEF Meets, Outside, Enters, Works, Leaves
        <3>2. \/ points' = points /\ pc[Snapshotter] # "idle"
              \/ points < MaxPoints /\ points' = points + 1
            BY <1>3, ThreadsAssumption
               DEF SnapshotterStep, SnapReadPrices, SnapBegin, SnapRecord, SnapCommit,
                   BusyTimeout, StatementFails, bounds, Locked, Writers, Inside
        <3> QED
            BY <3>1, <3>2, RoomQuiet
    <2> QED
        BY <2>2, <2>3
<1>4. ASSUME NEW r \in Readers, ReaderStep(r)
      PROVE  Room'
    <2>1. db' = db /\ pc'[Snapshotter] = pc[Snapshotter]
        BY <1>4, ReaderMeets, ReaderAlone, ThreadsAssumption DEF Outside, Alone, Procs
    <2>2. points' = points
        BY <1>4 DEF ReaderStep, ReaderReadPrices, ReaderReadCash, ReaderReadPositions, bounds
    <2> QED
        BY <2>1, <2>2, RoomQuiet
<1>5. CASE Crash
    <2>1. points' = points
        BY <1>5 DEF Crash
    <2> QED
        BY <1>5, <2>1, CrashEffect, RoomQuiet
<1> QED
    BY <1>1, <1>2, <1>3, <1>4, <1>5, StepCases

-----------------------------------------------------------------------------
(* The rules of an account are the same in the ledger's eyes *)

LEMMA SameRules ==
    /\ \A prices, t : L!Priced(prices, t) <=> Priced(prices, t)
    /\ \A cash, cost : L!BuyAllowed(cash, cost) <=> BuyAllowed(cash, cost)
    /\ \A book, t, q : L!SellAllowed(book, t, q) <=> SellAllowed(book, t, q)
    /\ \A price, q : L!FillValues(price, q) = FillValues(price, q)
    /\ \A book, t, q, cost : L!RowAfterBuy(book, t, q, cost) = RowAfterBuy(book, t, q, cost)
    /\ \A book, t, q : L!RowAfterSell(book, t, q) = RowAfterSell(book, t, q)
    /\ \A book, t, row : L!ApplyPosition(book, t, row) = ApplyPosition(book, t, row)
    /\ \A book, prices : L!Unpriced(book, prices) = Unpriced(book, prices)
BY DEF L!Priced, Priced, L!BuyAllowed, BuyAllowed, L!SellAllowed, SellAllowed, L!FillValues,
       FillValues, L!Distance, Distance, L!RowAfterBuy, RowAfterBuy, L!RowAfterSell,
       RowAfterSell, L!Remaining, Remaining, L!ApplyPosition, ApplyPosition, L!Unpriced, Unpriced

LEMMA SamePoints ==
    ASSUME NEW cash, NEW book, NEW prices
    PROVE  L!SnapshotPoints(cash, book, prices) = SnapshotPoints(cash, book, prices)
<1>1. L!Unpriced(book, prices) = Unpriced(book, prices)
    BY SameRules
<1>2. L!TotalValue(cash, book, prices) = TotalValue(cash, book, prices)
    BY DEF L!TotalValue, TotalValue, L!MapThenSumSet, MapThenSumSet, L!MapThenFoldSet,
           MapThenFoldSet
<1> QED
    BY <1>1, <1>2 DEF L!SnapshotPoints, SnapshotPoints

-----------------------------------------------------------------------------
(* The database implements the ledger *)

\* No two rows are one request's, so the blotter is no longer than the requests are many.
LEMMA RowsFit ==
    ASSUME Blotter
    PROVE  /\ Len(db.ids) <= Cardinality(Traders)
           /\ \A p \in Traders : RowsBy(p) = {} => Len(db.ids) < Cardinality(Traders)
<1> DEFINE N == Len(db.ids)
<1>1. /\ db.ids \in [1..N -> Traders] /\ N \in Nat
      /\ \A i, j \in 1..N : db.ids[i] = db.ids[j] => i = j
    BY DEF Blotter, RowsBy
<1>2. IsFiniteSet(1..N) /\ Cardinality(1..N) = N
    <2> HIDE DEF N
    <2>1. 1 \in Int /\ N \in Int
        BY <1>1
    <2>2. /\ IsFiniteSet(1..N)
          /\ Cardinality(1..N) = IF 1 > N THEN 0 ELSE N - 1 + 1
        BY ONLY <2>1, FS_Interval
    <2> QED
        BY <1>1, <2>2
<1>3. IsFiniteSet(Traders) /\ Cardinality(Traders) \in Nat
    BY ThreadsAssumption, FS_CardinalityType
<1>4. N <= Cardinality(Traders)
    <2> SUFFICES ASSUME Cardinality(Traders) < N
                 PROVE  FALSE
        BY <1>1, <1>3
    <2>1. \E i, j \in 1..N : i # j /\ db.ids[i] = db.ids[j]
        BY <1>1, <1>2, <1>3, FS_PigeonHole
    <2> QED
        BY <1>1, <2>1
<1>5. ASSUME NEW p \in Traders, RowsBy(p) = {}
      PROVE  N < Cardinality(Traders)
    <2> DEFINE Others_ == Traders \ {p}
    <2>1. IsFiniteSet(Others_) /\ Cardinality(Others_) = Cardinality(Traders) - 1
        BY <1>3, FS_RemoveElement
    <2>2. db.ids \in [1..N -> Others_]
        BY <1>1, <1>5 DEF RowsBy
    <2> HIDE DEF Others_
    <2> SUFFICES ASSUME Cardinality(Others_) < N
                 PROVE  FALSE
        BY <1>1, <1>3, <2>1
    <2>3. \E i, j \in 1..N : i # j /\ db.ids[i] = db.ids[j]
        BY <1>2, <2>1, <2>2, FS_PigeonHole
    <2> QED
        BY <1>1, <2>3
<1> QED
    BY <1>4, <1>5

\* A reading of the cache is one of the ledger's.
LEMMA ReadsLedger ==
    ASSUME NEW prices, Reads(prices)
    PROVE  prices \in L!PriceReadings
BY DEF Reads, L!PriceReadings

\* A committed trade is a fill of the ledger.
LEMMA FillRefines ==
    ASSUME Types, Blotter, Readings, Room, NEW p \in Traders, RowsBy(p) = {},
           FilledBy(p, db'), db'.snapshots = db.snapshots \o Points(p, db')
    PROVE  L!Next
<1> DEFINE t      == order[p].ticker
           q      == order[p].quantity
           rd     == reading[p]
           price  == rd[t]
           row    == FilledRow(p)
           exact  == Total(StartingCash * Scale, MoneyFlows(db.trades))
           net(u) == Total(0, ShareFlows(db.trades, u))
<1>1. /\ Priced(rd, t) /\ row \in TradeRows /\ t \in Tickers /\ q \in Quantities
      /\ order[p].side \in {"buy", "sell"}
    BY FilledRowProper DEF FilledBy
<1>2. /\ db'.trades = Append(db.trades, row)
      /\ db'.trades = Append(db.trades, [ticker |-> t, side |-> order[p].side,
                                         quantity |-> q, price |-> price])
    BY DEF FilledBy, FilledRow
<1>3. rd \in L!PriceReadings
    BY ReadsLedger DEF Readings, Procs
<1>4. Len(db.trades) < Cardinality(Traders)
    BY RowsFit DEF Room
<1>5. db'.snapshots = db.snapshots \o L!SnapshotPoints(db'.cash, db'.positions, rd)
    BY SamePoints DEF Points
<1>6. /\ row.ticker = t /\ row.side = order[p].side /\ row.quantity = q /\ row.price = price
      /\ price \in Nat /\ q \in Nat /\ price * q \in Int
    <2>1. row.ticker = t /\ row.side = order[p].side /\ row.quantity = q /\ row.price = price
        BY DEF FilledRow
    <2>2. row.price \in Prices /\ row.quantity \in Quantities
        BY <1>1 DEF TradeRows
    <2>3. price \in Nat /\ q \in Nat
        BY <2>1, <2>2, MoneyAssumption
    <2> QED
        BY <2>1, <2>3
<1>7. /\ exact \in Int
      /\ Total(StartingCash * Scale, MoneyFlows(db'.trades)) = exact + MoneyFlow(row)
      /\ \A u \in Tickers :
            /\ net(u) \in Int
            /\ Total(0, ShareFlows(db'.trades, u)) = net(u) + ShareFlow(row, u)
    <2>1. db.trades \in Seq(TradeRows)
        BY DEF Room
    <2> QED
        BY <1>1, <1>2, <2>1, FlowsGrow, ZenonT(40)
<1>8. PICK value \in FillValues(price, q) :
          \/ /\ order[p].side = "buy" /\ BuyAllowed(db.cash, value)
             /\ db'.cash = db.cash - value
             /\ db'.positions = ApplyPosition(db.positions, t,
                                              RowAfterBuy(db.positions, t, q, value))
          \/ /\ order[p].side = "sell" /\ SellAllowed(db.positions, t, q)
             /\ db'.cash = db.cash + value
             /\ db'.positions = ApplyPosition(db.positions, t,
                                              RowAfterSell(db.positions, t, q))
    BY DEF FilledBy
<1>9. CASE order[p].side = "buy"
    <2>1. /\ MoneyFlow(row) = -(price * q)
          /\ \A u \in Tickers : ShareFlow(row, u) = IF u = t THEN q ELSE 0
        BY <1>6, <1>9 DEF MoneyFlow, ShareFlow
    <2>2. Total(StartingCash * Scale, MoneyFlows(db'.trades)) = exact - price * q
        BY <1>6, <1>7, <2>1
    <2>3. [u \in Tickers |-> Total(0, ShareFlows(db'.trades, u))] =
             [[u \in Tickers |-> net(u)] EXCEPT ![t] = @ + q]
        <3> DEFINE new(u) == Total(0, ShareFlows(db'.trades, u))
        <3>1. \A u \in Tickers : new(u) = IF u = t THEN net(u) + q ELSE net(u)
            BY <1>6, <1>7, <2>1
        <3> HIDE DEF new, net
        <3>2. [u \in Tickers |-> new(u)] = [[u \in Tickers |-> net(u)] EXCEPT ![t] = @ + q]
            BY <1>1, <3>1
        <3> QED
            BY <3>2 DEF new, net
    <2>4. L!RecordFill(t, "buy", q, rd)
        BY <1>2, <1>4, <1>5, <1>9 DEF L!RecordFill
    <2>5. /\ L!Priced(rd, t)
          /\ \E cost \in L!FillValues(rd[t], q) :
                /\ L!BuyAllowed(db.cash, cost)
                /\ db'.cash = db.cash - cost
                /\ db'.positions =
                      L!ApplyPosition(db.positions, t, L!RowAfterBuy(db.positions, t, q, cost))
        <3> DEFINE row_ == RowAfterBuy(db.positions, t, q, value)
        <3>1. L!Priced(rd, t) /\ value \in L!FillValues(price, q)
            BY <1>1, SameRules
        <3>2. /\ BuyAllowed(db.cash, value) /\ db'.cash = db.cash - value
              /\ db'.positions = ApplyPosition(db.positions, t, row_)
            BY <1>8, <1>9
        <3>3. /\ L!BuyAllowed(db.cash, value) /\ L!RowAfterBuy(db.positions, t, q, value) = row_
              /\ L!ApplyPosition(db.positions, t, row_) = ApplyPosition(db.positions, t, row_)
            BY <3>2, SameRules
        <3> QED
            BY <3>1, <3>2, <3>3
    <2>6. L!Buy(t, q, rd)
        BY <2>2, <2>3, <2>4, <2>5 DEF L!Buy
    <2> QED
        BY <1>1, <1>3, <2>6 DEF L!Next
<1>10. CASE order[p].side = "sell"
    <2>1. /\ MoneyFlow(row) = price * q
          /\ \A u \in Tickers : ShareFlow(row, u) = IF u = t THEN -q ELSE 0
        BY <1>6, <1>10 DEF MoneyFlow, ShareFlow
    <2>2. Total(StartingCash * Scale, MoneyFlows(db'.trades)) = exact + price * q
        BY <1>6, <1>7, <2>1
    <2>3. [u \in Tickers |-> Total(0, ShareFlows(db'.trades, u))] =
             [[u \in Tickers |-> net(u)] EXCEPT ![t] = @ - q]
        <3> DEFINE new(u) == Total(0, ShareFlows(db'.trades, u))
        <3>1. \A u \in Tickers : new(u) = IF u = t THEN net(u) - q ELSE net(u)
            BY <1>6, <1>7, <2>1
        <3> HIDE DEF new, net
        <3>2. [u \in Tickers |-> new(u)] = [[u \in Tickers |-> net(u)] EXCEPT ![t] = @ - q]
            BY <1>1, <3>1
        <3> QED
            BY <3>2 DEF new, net
    <2>4. L!RecordFill(t, "sell", q, rd)
        BY <1>2, <1>4, <1>5, <1>10 DEF L!RecordFill
    <2>5. /\ L!Priced(rd, t) /\ L!SellAllowed(db.positions, t, q)
          /\ \E proceeds \in L!FillValues(rd[t], q) : db'.cash = db.cash + proceeds
          /\ db'.positions = L!ApplyPosition(db.positions, t, L!RowAfterSell(db.positions, t, q))
        <3> DEFINE row_ == RowAfterSell(db.positions, t, q)
        <3>1. L!Priced(rd, t) /\ value \in L!FillValues(price, q)
            BY <1>1, SameRules
        <3>2. /\ SellAllowed(db.positions, t, q) /\ db'.cash = db.cash + value
              /\ db'.positions = ApplyPosition(db.positions, t, row_)
            BY <1>8, <1>10
        <3>3. /\ L!SellAllowed(db.positions, t, q) /\ L!RowAfterSell(db.positions, t, q) = row_
              /\ L!ApplyPosition(db.positions, t, row_) = ApplyPosition(db.positions, t, row_)
            BY <3>2, SameRules
        <3> QED
            BY <3>1, <3>2, <3>3
    <2>6. L!Sell(t, q, rd)
        BY <2>2, <2>3, <2>4, <2>5 DEF L!Sell
    <2> QED
        BY <1>1, <1>3, <2>6 DEF L!Next
<1> QED
    BY <1>1, <1>9, <1>10

\* A committed round of the background thread is a point of the ledger's, or nothing.
LEMMA RoundRefines ==
    ASSUME Types, Blotter, Readings, Room, pc[Snapshotter] = "commit",
           NothingBut(db', Points(Snapshotter, db'))
    PROVE  L!Next \/ UNCHANGED L!vars
<1> DEFINE rd == reading[Snapshotter]
<1>1. /\ db'.cash = db.cash /\ db'.positions = db.positions /\ db'.trades = db.trades
      /\ db'.snapshots = db.snapshots \o Points(Snapshotter, db')
    BY DEF NothingBut
<1>2. CASE Unpriced(db.positions, rd) = {}
    <2>1. rd \in L!PriceReadings
        BY ReadsLedger DEF Readings, Procs
    <2>2. Len(db.snapshots) < Cardinality(Traders) + MaxPoints
        <3>1. Len(db.ids) <= Cardinality(Traders) /\ Cardinality(Traders) \in Nat
            BY RowsFit, ThreadsAssumption, FS_CardinalityType
        <3>2. /\ Len(db.trades) \in Nat /\ Len(db.ids) = Len(db.trades)
              /\ Len(db.snapshots) \in Nat /\ points \in Nat /\ points <= MaxPoints
            BY BoundsAssumption DEF Room
        <3>3. Len(db.snapshots) + 1 <= Len(db.trades) + points
            BY DEF Room, PointsFit
        <3> QED
            BY <3>1, <3>2, <3>3, BoundsAssumption
    <2>3. L!Unpriced(db.positions, rd) = {}
        BY <1>2, SameRules
    <2>4. db'.snapshots = db.snapshots \o L!SnapshotPoints(db.cash, db.positions, rd)
        BY <1>1, SamePoints DEF Points
    <2>5. L!RecordSnapshot(rd)
        BY <1>1, <2>2, <2>3, <2>4 DEF L!RecordSnapshot, L!history
    <2> QED
        BY <2>1, <2>5 DEF L!Next
<1>3. CASE Unpriced(db.positions, rd) # {}
    <2>1. db'.snapshots = db.snapshots
        <3>1. Points(Snapshotter, db') = <<>>
            BY <1>1, <1>3 DEF Points, SnapshotPoints
        <3>2. PICK Values : db.snapshots \in Seq(Values)
            BY DEF Room
        <3> QED
            BY <1>1, <3>1, <3>2, ConcatEmptySeq
    <2> QED
        BY <1>1, <2>1 DEF L!vars
<1> QED
    BY <1>2, <1>3

\* Statement by statement, with everything that can overlap, fail and crash, the account
\* does what the ledger promises: every step of the threads is one whole trade or point
\* of the ledger, or none of its business.
THEOREM RefinesLedger == Spec => ImplementsLedger
<1>1. Init => L!Init
    <2> SUFFICES ASSUME Init
                 PROVE  L!Init
        OBVIOUS
    <2>1. /\ db.cash = StartingCash /\ db.positions = [t \in {} |-> 0]
          /\ db.trades = <<>> /\ db.snapshots = <<>>
        BY DEF Init, SeededDb
    <2>2. /\ db.trades \in Seq(TradeRows) /\ Len(db.trades) = 0
          /\ StartingCash * Scale \in Int /\ 0 \in Int
        BY <2>1, MoneyAssumption, ScaleAssumption
    <2>3. Total(StartingCash * Scale, MoneyFlows(db.trades)) = StartingCash * Scale
        BY <2>2, FlowsTyped, TotalOfNone
    <2>4. \A t \in Tickers : Total(0, ShareFlows(db.trades, t)) = 0
        BY <2>2, FlowsTyped, TotalOfNone
    <2> QED
        BY <2>1, <2>3, <2>4 DEF L!Init
<1>2. Types /\ Locked /\ WholeWork /\ Blotter /\ Readings /\ Room /\ [Next]_vars
          => [L!Next]_L!vars
    <2> SUFFICES ASSUME Types, Locked, WholeWork, Blotter, Readings, Room, [Next]_vars
                 PROVE  L!Next \/ UNCHANGED L!vars
        OBVIOUS
    <2>1. CASE db' = db
        BY <2>1 DEF L!vars
    <2>2. ASSUME NEW p \in Writers, Commits(p)
          PROVE  L!Next \/ UNCHANGED L!vars
        <3>1. pc[p] = "commit" /\ db' = work[p]
            BY <2>2 DEF Commits
        <3>2. CASE p \in Traders
            <4>1. RowsBy(p) = {}
                BY <3>1, <3>2 DEF Blotter, Answered
            <4>2. FilledBy(p, db') /\ db'.snapshots = db.snapshots \o Points(p, db')
                BY <3>1, <3>2 DEF WholeWork, TraderWork
            <4> QED
                BY <3>2, <4>1, <4>2, FillRefines
        <3>3. CASE p = Snapshotter
            <4>1. NothingBut(db', Points(Snapshotter, db'))
                BY <3>1, <3>3 DEF WholeWork, SnapshotterWork
            <4> QED
                BY <3>1, <3>3, <4>1, RoundRefines
        <3> QED
            BY <3>2, <3>3 DEF Writers
    <2> QED
        BY <2>1, <2>2, OnlyCommits
<1>3. Types /\ Locked /\ WholeWork /\ Blotter /\ Readings /\ Room /\ [Next]_vars
          => WholeWork' /\ Blotter' /\ Readings' /\ Room'
    BY WholeWorkStep, BlotterStep, ReadingsStep, RoomStep
<1>4. Init => WholeWork /\ Blotter /\ Readings /\ Room
    BY WholeWorkInit, BlotterInit, ReadingsInit, RoomInit
<1> QED
    BY <1>1, <1>2, <1>3, <1>4, LockHolds, PTL DEF Spec, ImplementsLedger, L!Spec

-----------------------------------------------------------------------------
(* What the account inherits from the ledger *)

P == INSTANCE LedgerProofs WITH
        cash <- db.cash,
        positions <- db.positions,
        trades <- db.trades,
        snapshots <- db.snapshots,
        exactCash <- Total(StartingCash * Scale, MoneyFlows(db.trades)),
        netShares <- [t \in Tickers |-> Total(0, ShareFlows(db.trades, t))],
        MaxTrades <- Cardinality(Traders),
        MaxSnapshots <- Cardinality(Traders) + MaxPoints

LEMMA LedgerSpec == Spec => P!Spec
<1>1. L!Init => P!Init
    BY DEF L!Init, P!Init
<1>2. [L!Next]_L!vars => [P!Next]_P!vars
    BY DEF L!Next, P!Next, L!vars, P!vars, L!Buy, P!Buy, L!Sell, P!Sell, L!RecordFill,
           P!RecordFill, L!RecordSnapshot, P!RecordSnapshot, L!history, P!history, L!Priced,
           P!Priced, L!BuyAllowed, P!BuyAllowed, L!SellAllowed, P!SellAllowed, L!FillValues,
           P!FillValues, L!Distance, P!Distance, L!RowAfterBuy, P!RowAfterBuy, L!RowAfterSell,
           P!RowAfterSell, L!Remaining, P!Remaining, L!ApplyPosition, P!ApplyPosition,
           L!Unpriced, P!Unpriced, L!PriceReadings, P!PriceReadings, L!SnapshotPoints,
           P!SnapshotPoints, L!TotalValue, P!TotalValue, L!MapThenSumSet, P!MapThenSumSet,
           L!MapThenFoldSet, P!MapThenFoldSet
<1> QED
    BY <1>1, <1>2, RefinesLedger, PTL DEF ImplementsLedger, L!Spec, P!Spec

\* What is proved of the ledger holds of the committed database under any number of
\* threads and faults: no interleaving overdraws the account, cash and shares drift from
\* the blotter's totals by no more than half a cent and the tolerance per row, and every
\* average cost lies within what the blotter says was paid.
THEOREM AccountIsSound ==
    Spec => []( /\ L!RowsHoldShares /\ L!Solvent
                /\ L!CashDriftBounded /\ L!ShareDriftBounded
                /\ L!AverageCostWithinPurchases)
<1>1. P!Spec => []( /\ P!TypeOK /\ P!Solvent
                    /\ P!CashDriftBounded /\ P!ShareDriftBounded
                    /\ P!AverageCostWithinPurchases)
    <2> USE MoneyAssumption, ScaleAssumption, ToleranceAssumption
    <2>1. P!Spec => []P!TypeOK
        BY P!TypeCorrectness
    <2>2. P!Spec => []P!Solvent
        BY P!Solvency
    <2>3. P!Spec => []P!CashDriftBounded
        BY P!CashDrift
    <2>4. P!Spec => []P!ShareDriftBounded
        BY P!ShareDrift
    <2>5. P!Spec => []P!AverageCostWithinPurchases
        BY P!AverageCost
    <2> QED
        BY <2>1, <2>2, <2>3, <2>4, <2>5, PTL
<1>2. P!TypeOK => L!RowsHoldShares
    BY DEF P!TypeOK, P!RowsHoldShares, L!RowsHoldShares
<1>3. P!Solvent => L!Solvent
    BY DEF P!Solvent, L!Solvent
<1>4. P!CashDriftBounded => L!CashDriftBounded
    BY DEF P!CashDriftBounded, L!CashDriftBounded, P!Distance, L!Distance
<1>5. P!ShareDriftBounded => L!ShareDriftBounded
    BY DEF P!ShareDriftBounded, L!ShareDriftBounded, P!Distance, L!Distance, P!QuantityOf,
           L!QuantityOf, P!Held, L!Held
<1>6. P!AverageCostWithinPurchases => L!AverageCostWithinPurchases
    BY DEF P!AverageCostWithinPurchases, L!AverageCostWithinPurchases, P!BuysOf, L!BuysOf
<1> QED
    BY <1>1, <1>2, <1>3, <1>4, <1>5, <1>6, LedgerSpec, PTL
=============================================================================
