------------------------------- MODULE Tracking -------------------------------
(***************************************************************************)
(* The tracked-set rule of backend/app/watchlist.py: the market source     *)
(* streams watchlist \cup positions.  Requests add and remove tickers, each *)
(* ending in a reconcile; trades commit beside them and do not reconcile;  *)
(* failover replaces the source; the process may restart.                  *)
(*                                                                         *)
(* The steps are the points where another task or thread can come in.  A   *)
(* database call runs in a worker thread (run_in_threadpool) and takes     *)
(* effect there; the code up to the next await runs on the event loop      *)
(* without interruption.  source.add_ticker and remove_ticker never        *)
(* suspend in either source, so each loop over them is one step.           *)
(***************************************************************************)
EXTENDS FiniteSets, Integers

CONSTANTS
    Tickers,      \* canonical symbols
    Spellings,    \* what clients send
    Canonical,    \* spelling -> ticker: upper case, stripped
    Seeded,       \* the tickers a database may have in it when the process starts
    Cap,          \* MAX_WATCHLIST_SIZE
    Requests,     \* watchlist requests, each served once
    Trades,       \* trade requests, each served once
    MaxFailures,  \* bound: failing database calls and refusals of the source
    MaxRestarts,  \* bound: restarts of the process
    GhostFills    \* bound: whether a ticker fills at a price left in the cache, or only
                  \* while it is streamed

ASSUME CanonicalAssumption == Canonical \in [Spellings -> Tickers]
ASSUME SeededAssumption ==
    Seeded \subseteq Tickers /\ IsFiniteSet(Seeded) /\ Cardinality(Seeded) <= Cap
ASSUME CapAssumption == Cap \in Nat

Sources == {"massive", "simulator"}
NoSource == "none"                          \* app.state.market_source = None

VARIABLES
    watch,      \* tickers with a watchlist row
    held,       \* tickers with a position row
    tracked,    \* each source object's tickers
    live,       \* app.state.market_source
    pc,         \* where each request and trade is
    op,         \* "add" or "remove", for each request
    arg,        \* the ticker each request or trade is about
    source,     \* the source a request was given when it arrived
    wanted,     \* the last load_tracked_tickers() of each request
    failures, restarts,
    seen,       \* tickers streamed since the process started: others have no price
    restored,   \* history: requests that put a row back without the cap
    evicted,    \* history: what each request has unsubscribed from the live source
    unsettled,  \* history: watched tickers that a request which failed, or which worked
                \* on a retired source, was about or had unsubscribed, and left so
    keptHeld,   \* history: tickers held ever since a request arrived
    disturbed   \* history: requests whose reconcile was not alone

db == <<watch, held>>
feed == <<tracked, live, seen>>
task == <<op, arg, source>>
counts == <<failures, restarts>>
history == <<restored, evicted, unsettled, keptHeld, disturbed>>
vars == <<watch, held, tracked, live, seen, pc, op, arg, source, wanted, failures, restarts,
          restored, evicted, unsettled, keptHeld, disturbed>>

Tasks == Requests \cup Trades
NoTicker == CHOOSE t \in Tickers : TRUE     \* the argument of a task that has none yet

\* Mutant of Normalize: the spelling is stored as it came.
NormalizeNot(s) == s
Normalize(s) == Canonical[s]

\* Mutant of LoadTrackedTickers: the watchlist alone.
LoadWatchedTickers == watch
LoadTrackedTickers == watch \cup held

Init ==
    /\ watch \in SUBSET Seeded /\ held \in SUBSET Seeded
    /\ tracked = [s \in Sources |-> IF s = "massive" THEN LoadTrackedTickers ELSE {}]
    /\ live = "massive" /\ seen = LoadTrackedTickers
    /\ pc = [x \in Tasks |-> "idle"]
    /\ op = [r \in Requests |-> "add"]
    /\ arg = [x \in Tasks |-> NoTicker]
    /\ source = [r \in Requests |-> "massive"]
    /\ wanted = [r \in Requests |-> {}]
    /\ failures = 0 /\ restarts = 0
    /\ restored = {} /\ unsettled = {} /\ disturbed = {}
    /\ evicted = [r \in Requests |-> {}]
    /\ keptHeld = [r \in Requests |-> {}]

\* What a source that the application still has is streaming.
Streamed == IF live = NoSource THEN {} ELSE tracked[live]

At(x, step) == pc[x] = step
Goto(x, step) == pc' = [pc EXCEPT ![x] = step]

Reconciling == {r \in Requests : pc[r] \in {"evict", "read2", "subscribe"}}

\* Everyone but x who is reconciling sees the world move under it.
Disturb(x) == disturbed' = disturbed \cup (Reconciling \ {x})

\* The request answers, and what it worked from is gone.
Finish(r, outcome) ==
    /\ Goto(r, outcome)
    /\ op' = [op EXCEPT ![r] = "add"]
    /\ arg' = [arg EXCEPT ![r] = NoTicker]
    /\ source' = [source EXCEPT ![r] = "massive"]
    /\ wanted' = [wanted EXCEPT ![r] = {}]
    /\ evicted' = [evicted EXCEPT ![r] = {}]
    /\ keptHeld' = [keptHeld EXCEPT ![r] = {}]

-----------------------------------------------------------------------------
(* watchlist.add and watchlist.remove, around the reconcile *)

\* get_market_source: the request is given the source that is live as it arrives.
Arrive(r, kind, spelling) ==
    /\ At(r, "idle") /\ live # NoSource
    /\ op' = [op EXCEPT ![r] = kind]
    /\ arg' = [arg EXCEPT ![r] = Normalize(spelling)]
    /\ source' = [source EXCEPT ![r] = live]
    /\ keptHeld' = [keptHeld EXCEPT ![r] = held]
    /\ Goto(r, "row")
    /\ UNCHANGED <<db, feed, wanted, counts, restored, evicted, unsettled, disturbed>>

\* get_market_source and require_live_market without a source: 503, for trades as well.
Unavailable(x) ==
    /\ At(x, "idle") /\ live = NoSource
    /\ Goto(x, "refused")
    /\ UNCHANGED <<db, feed, task, wanted, counts, history>>

\* _insert_row: INSERT OR IGNORE, then the count, in one transaction.
\* Mutant of WithinCap: the count taken before the insert.
WithinCapBefore(rows, t) == Cardinality(rows) <= Cap
WithinCap(rows, t) == Cardinality(rows \cup {t}) <= Cap

AddRow(r) ==
    /\ At(r, "row") /\ op[r] = "add"
    /\ \/ /\ arg[r] \notin watch /\ WithinCap(watch, arg[r])
          /\ watch' = watch \cup {arg[r]}
          /\ Goto(r, "read1")
          /\ UNCHANGED <<task, wanted, evicted, keptHeld>>
          /\ Disturb(r)
       \/ /\ arg[r] \in watch \/ ~WithinCap(watch, arg[r])
          /\ Finish(r, "refused")
          /\ UNCHANGED <<watch, disturbed>>
    /\ UNCHANGED <<held, feed, counts, restored, unsettled>>

RemoveRow(r) ==
    /\ At(r, "row") /\ op[r] = "remove"
    /\ \/ /\ arg[r] \in watch
          /\ watch' = watch \ {arg[r]}
          /\ Goto(r, "read1")
          /\ UNCHANGED <<task, wanted, evicted, keptHeld>>
          /\ Disturb(r)
       \/ /\ arg[r] \notin watch
          /\ Finish(r, "refused")
          /\ UNCHANGED <<watch, disturbed>>
    /\ UNCHANGED <<held, feed, counts, restored, unsettled>>

\* The tickers whose stream depends on the request: its own and those it unsubscribed.
Concerns(r) == {arg[r]} \cup evicted[r]

\* A request that fails does not finish its reconcile: what depends on it and is watched
\* without a stream stays so for now.
LeaveUnsettled(r) == unsettled' = unsettled \cup ((Concerns(r) \cap watch') \ Streamed)

\* The compensation of a failed add: the row goes again.
AddUndo(r) ==
    /\ At(r, "undo") /\ op[r] = "add"
    /\ watch' = watch \ {arg[r]}
    /\ LeaveUnsettled(r)
    /\ Finish(r, "failed")
    /\ Disturb(r)
    /\ UNCHANGED <<held, feed, counts, restored>>

\* The compensation of a failed remove: the row comes back, cap or no cap.  The
\* source is left as it is.
RemoveUndo(r) ==
    /\ At(r, "undo") /\ op[r] = "remove"
    /\ watch' = watch \cup {arg[r]}
    /\ restored' = restored \cup {r}
    /\ LeaveUnsettled(r)
    /\ Finish(r, "failed")
    /\ Disturb(r)
    /\ UNCHANGED <<held, feed, counts>>

\* The compensation itself raises: the row stays as the request left it.
UndoFails(r) ==
    /\ At(r, "undo")
    /\ failures < MaxFailures
    /\ failures' = failures + 1
    /\ UNCHANGED watch
    /\ LeaveUnsettled(r)
    /\ Finish(r, "failed")
    /\ UNCHANGED <<held, feed, restarts, restored, disturbed>>

-----------------------------------------------------------------------------
(* watchlist.reconcile, inside either request *)

ReadFirst(r) ==
    /\ At(r, "read1")
    /\ wanted' = [wanted EXCEPT ![r] = LoadTrackedTickers]
    /\ disturbed' = disturbed \ {r}
    /\ Goto(r, "evict")
    /\ UNCHANGED <<db, feed, task, counts, restored, evicted, unsettled, keptHeld>>

\* Mutant of Evictions: nothing is ever unsubscribed.
EvictionsNone(r) == {}
Evictions(r) == tracked[source[r]] \ wanted[r]

\* The source drops the tickers in gone, for request r.
Unsubscribe(r, gone) ==
    /\ tracked' = [tracked EXCEPT ![source[r]] = @ \ gone]
    /\ evicted' = [evicted EXCEPT ![r] = IF source[r] = live THEN gone ELSE {}]
    /\ IF gone = {} THEN UNCHANGED disturbed ELSE Disturb(r)
    /\ UNCHANGED seen

Evict(r) ==
    /\ At(r, "evict")
    /\ Unsubscribe(r, Evictions(r))
    /\ Goto(r, "read2")
    /\ UNCHANGED <<db, live, task, wanted, counts, restored, unsettled, keptHeld>>

\* Mutant of SecondRead: the first reading is used again.
SecondReadSkipped(r) == wanted[r]
SecondRead(r) == LoadTrackedTickers

ReadSecond(r) ==
    /\ At(r, "read2")
    /\ wanted' = [wanted EXCEPT ![r] = SecondRead(r)]
    /\ Goto(r, "subscribe")
    /\ UNCHANGED <<db, feed, task, counts, history>>

Additions(r) == wanted[r] \ tracked[source[r]]

\* The source takes the tickers in new, for request r.
Extend(r, new) ==
    /\ tracked' = [tracked EXCEPT ![source[r]] = @ \cup new]
    /\ seen' = seen \cup new
    /\ IF new = {} THEN UNCHANGED disturbed ELSE Disturb(r)

Subscribe(r) ==
    /\ At(r, "subscribe")
    /\ Extend(r, Additions(r))
    /\ Finish(r, "done")
    /\ unsettled' = IF source[r] = live THEN unsettled \ wanted[r]
                    ELSE unsettled \cup ((Concerns(r) \cap wanted[r]) \ Streamed)
    /\ UNCHANGED <<db, live, counts, restored>>

\* load_tracked_tickers raises (the database stays busy, an I/O error): the request
\* compensates and reports the source as unavailable.
ReadFails(r) ==
    /\ At(r, "read1") \/ At(r, "read2")
    /\ failures < MaxFailures
    /\ failures' = failures + 1
    /\ Goto(r, "undo")
    /\ UNCHANGED <<db, feed, task, wanted, restarts, history>>

\* source.remove_ticker or source.add_ticker raises part-way through its loop: some of
\* the changes are made, and the request compensates.
SourceRefuses(r) ==
    /\ failures < MaxFailures
    /\ failures' = failures + 1
    /\ \/ /\ At(r, "evict") /\ Evictions(r) # {}
          /\ \E gone \in SUBSET Evictions(r) : Unsubscribe(r, gone)
       \/ /\ At(r, "subscribe") /\ Additions(r) # {}
          /\ \E new \in SUBSET Additions(r) : Extend(r, new)
          /\ UNCHANGED evicted
    /\ Goto(r, "undo")
    /\ UNCHANGED <<db, live, task, wanted, restarts, restored, unsettled, keptHeld>>

-----------------------------------------------------------------------------
(* Trades: only tickers with a cached price fill; nothing reconciles *)

\* The cache may still hold the price of a ticker no longer streamed, or hold it again
\* (Feed says when): a ticker that was streamed in this process may fill.
TradePriced(x, t) ==
    /\ At(x, "idle") /\ live # NoSource
    /\ t \in IF GhostFills THEN seen ELSE Streamed
    /\ arg' = [arg EXCEPT ![x] = t]
    /\ Goto(x, "priced")
    /\ UNCHANGED <<db, feed, op, source, wanted, counts, history>>

BuyCommit(x) ==
    /\ At(x, "priced")
    /\ held' = held \cup {arg[x]}
    /\ Goto(x, "done")
    /\ arg' = [arg EXCEPT ![x] = NoTicker]
    /\ Disturb(x)
    /\ UNCHANGED <<watch, feed, op, source, wanted, counts, restored, evicted, unsettled,
                   keptHeld>>

\* A sale that closes the position.
SellCommit(x) ==
    /\ At(x, "priced")
    /\ arg[x] \in held
    /\ held' = held \ {arg[x]}
    /\ keptHeld' = [r \in Requests |-> keptHeld[r] \ {arg[x]}]
    /\ Goto(x, "done")
    /\ arg' = [arg EXCEPT ![x] = NoTicker]
    /\ Disturb(x)
    /\ UNCHANGED <<watch, feed, op, source, wanted, counts, restored, evicted, unsettled>>

-----------------------------------------------------------------------------
(* The source is replaced, the process restarts *)

\* on_permanent_failure: the simulator takes over the failed source's tickers.
Failover ==
    /\ live = "massive"
    /\ live' = "simulator"
    /\ tracked' = [tracked EXCEPT !["simulator"] = tracked["massive"]]
    /\ disturbed' = disturbed \cup Reconciling
    /\ UNCHANGED <<db, seen, pc, task, wanted, counts, restored, evicted, unsettled, keptHeld>>

\* The simulator does not start either: no source is left until the next restart.
FailoverFails ==
    /\ live = "massive"
    /\ live' = NoSource
    /\ UNCHANGED <<db, tracked, seen, pc, task, wanted, counts, history>>

\* _lifespan: the tracked set is loaded from the database before anything is served.
Restart ==
    /\ restarts < MaxRestarts
    /\ restarts' = restarts + 1
    /\ live' = "massive" /\ seen' = LoadTrackedTickers
    /\ tracked' = [s \in Sources |-> IF s = "massive" THEN LoadTrackedTickers ELSE {}]
    /\ pc' = [x \in Tasks |-> IF pc[x] \in {"idle", "refused", "done", "failed"}
                              THEN pc[x] ELSE "lost"]
    /\ disturbed' = {} /\ unsettled' = {}
    /\ op' = [r \in Requests |-> "add"]
    /\ arg' = [x \in Tasks |-> NoTicker]
    /\ source' = [r \in Requests |-> "massive"]
    /\ wanted' = [r \in Requests |-> {}]
    /\ evicted' = [r \in Requests |-> {}]
    /\ keptHeld' = [r \in Requests |-> {}]
    /\ UNCHANGED <<db, failures, restored>>

-----------------------------------------------------------------------------
RequestStep(r) ==
    \/ \E kind \in {"add", "remove"}, s \in Spellings : Arrive(r, kind, s)
    \/ AddRow(r) \/ RemoveRow(r)
    \/ ReadFirst(r) \/ Evict(r) \/ ReadSecond(r) \/ Subscribe(r)
    \/ ReadFails(r) \/ SourceRefuses(r) \/ AddUndo(r) \/ RemoveUndo(r) \/ UndoFails(r)

TradeStep(x) ==
    \/ \E t \in Tickers : TradePriced(x, t)
    \/ BuyCommit(x) \/ SellCommit(x)

Next ==
    \/ \E r \in Requests : RequestStep(r)
    \/ \E x \in Trades : TradeStep(x)
    \/ \E x \in Tasks : Unavailable(x)
    \/ Failover \/ FailoverFails
    \/ Restart

Spec == Init /\ [][Next]_vars

-----------------------------------------------------------------------------
(* Properties *)

Ended == {"idle", "refused", "done", "failed", "lost"}
Quiet == \A r \in Requests : pc[r] \in Ended

\* The list holds a symbol once, however it was spelled, and only putting back a row
\* whose removal failed can push it over its cap.
CapRespected == watch \subseteq Tickers /\ Cardinality(watch) <= Cap + Cardinality(restored)

\* Once no watchlist request is under way, every watched ticker is streamed by the
\* live source, in whatever order any number of overlapping reconciles ran and
\* trades committed: an eviction decided on an old reading is always followed by
\* the second reading that undoes it.  Left out are only the tickers that a failed
\* request, or one that worked on a retired source, was about or had unsubscribed.
WatchedIsStreamed == Quiet /\ live # NoSource => watch \ unsettled \subseteq Streamed

\* A reconcile nobody disturbs leaves exactly watchlist \cup positions subscribed,
\* whatever earlier races left behind: the next mutation heals.
ReconcileHeals ==
    [][\A r \in Requests :
          At(r, "subscribe") /\ pc'[r] = "done" /\ r \notin disturbed /\ source[r] = live
              => tracked'[live] = watch' \cup held']_vars

\* No reconcile unsubscribes a ticker that has been held ever since its request
\* began: a removal from the watchlist never takes the price of a holding away.
HoldingsKeepTheirPrice ==
    [][\A r \in Requests :
          At(r, "evict") /\ pc'[r] # pc[r] /\ pc'[r] # "lost"
              => (tracked[source[r]] \ tracked'[source[r]]) \cap keptHeld[r] = {}]_vars

\* What watchlist.reconcile's comment claims for a buy that commits during a
\* reconcile, "Re-reading turns that race into an add": once everything is quiet,
\* every holding is streamed.
HeldIsStreamed ==
    Quiet /\ failures = 0 /\ live = "massive" => held \subseteq Streamed
=============================================================================
