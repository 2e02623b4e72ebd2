# FinAlly: specification, model checking and proofs

FinAlly is a single-user trading terminal with simulated money: a FastAPI
process (`backend/app`) keeps an account in SQLite, streams prices from one
market source, and lets an LLM trade on the user's behalf; a Next.js front end
(`frontend/src`) shows it.  This directory holds TLA+ modules of that program,
the TLC runs that check them and the theorems that TLAPS proves about them.
Every definition is translated from the source; `PROJECT.json` maps each one to
its lines.

## 1. Inventory

| Part | State it keeps | Operations | Talks to |
|---|---|---|---|
| Trade execution (`portfolio.py`) | none of its own | `execute_trade`, `record_snapshot`, `get_portfolio` | cache (one reading), database (one transaction) |
| Database (`db/`) | profile, positions, trades, snapshots, watchlist, chat messages | `transaction`, `read_transaction`, lazy initialisation | called from worker threads; one writer at a time |
| Price cache (`market/cache.py`) | ticker -> price, time of receipt; version counter | `update`, `remove`, `get_all`, `is_stale` | written by the source, read by trades, SSE and chat |
| Massive poller (`massive_client.py`) | ticker list, task, market status | start, poll (HTTP in a thread), add, remove, stop | external service; failover callback |
| Simulator (`simulator.py`) | simulated tickers, task | start, tick, add, remove, stop | cache, event log |
| Factory (`factory.py`) and lifespan (`main.py`) | `app.state`: the live source, the shutdown flag, the snapshot task | boot with fallback, failover, shutdown, snapshot loop | all of the above |
| Watchlist (`watchlist.py`) | none; rules over rows and subscriptions | `add`, `remove`, `reconcile` with compensation | database, then source |
| SSE (`stream.py`, `events.py`) | ring of shocks; version, cursor, status per connection | one generator per client | cache, log, source status |
| Chat (`chat.py`, `llm/`) | chat messages | `handle_message`: context, LLM, adds, trades, removes, transcript | everything above |
| Price stream hook (`usePriceStream.ts`) | connection status, escalation timer, age of the last frame, series, shocks | open, error, frame, shock, stall check, reload | SSE |
| Account half of the page | composer, pending turn, account resources | send, reload, poll | REST |

What is hard in it: SQLite calls run in threads while the event loop goes on, so
every `await` in the watchlist code is a point where a trade or another request
commits; the source is shared and can be replaced under a request that holds it;
a poll leaves the loop and comes back with an answer to an old question; a
transaction may fail or the process die between any two statements; the chat
executes trades and then has to say so over a connection that may be gone; money
is rounded per fill and quantities compared within a tolerance.  The list, line
by line, is `hazards` in `PROJECT.json`.

What makes each part correct:

* the account is never overdrawn, holds no short or empty rows, drifts from the
  exact flow of money and shares by no more than rounding and tolerance explain,
  and each trade is atomic for every reader and across crashes;
* what is watched or held is streamed and priced, whatever requests overlap, and
  the list respects its size;
* exactly one source writes the cache, the one the app names, and nothing runs
  after shutdown; no price outlives its removal;
* every connection sees each price's last value, every shock once, the status,
  and a sign of life; the page's dot tells an open stream from a lost, a dead and
  a silent one, and its lists survive a reconnect without repeating;
* a chat turn reports exactly what it did, later prompts say the same of it, and
  nothing makes the user repeat it unknowingly.

## 2. Modules

| Module | Models | Run |
|---|---|---|
| `Account` | arithmetic of a fill: rounding, average cost, tolerance, the position row | through `Ledger` |
| `Ledger` | the promise: each trade and each P&L point is one indivisible step | `ledger` |
| `LedgerProofs` | theorems about `Ledger` | TLAPS |
| `TradeTxn` | the same account as threads, statements, one write lock, read snapshots, crashes | `trade_txn`, `frozen_price` |
| `TradeTxnProofs` | theorems about `TradeTxn`, the refinement of `Ledger` among them | TLAPS |
| `Tracking` | watchlist requests, reconcile, trades beside them, failover, restart | `tracking`, `held_is_streamed` |
| `TrackingProofs` | theorems about `Tracking` | TLAPS |
| `Feed` | boot, poller, simulator, cache, failover, shutdown | `feed`, `stale_price` |
| `FeedProofs` | theorems about `Feed` | TLAPS |
| `Stream` | SSE generators, version and cursors, the ring, status, heartbeat | through `PriceStream` |
| `PriceStream` | the page's end of the stream, composed with `Stream` | `price_stream` |
| `PriceStreamProofs` | theorems about `PriceStream` and `Stream` | TLAPS |
| `DbInit` | lazy creation and seeding of the database | `db_init` |
| `DbInitProofs` | theorems about `DbInit` | TLAPS |
| `ChatTurn` | chat panel, server turn, actions, transcript, lost answers | `chat_turn`, `chat_resend` |
| `ChatTurnProofs` | theorems about `ChatTurn` | TLAPS |
| `Terminal` | the page's account resources, reloads, polls, mutations, conversation | `terminal` |
| `TerminalProofs` | theorems about `Terminal` | TLAPS |

`MC<Module>` gives a module's constants small values for TLC.  In a module,
`\* Mutant of Op` marks an alternative to `Op` as a plausible bug would have it;
with it in place of `Op` the run must find the named property violated
(`mutants` in `PROJECT.json`), which shows that the property watches that code.

**Account and Ledger.**  Money is whole cents, a quantity is a whole number of
units with `Scale` units to the share.  `FillValues` is a set: `round()` of an
exact half goes either way, depending on the double, so both outcomes are
allowed.  `Buy` and `Sell` are `execute_trade` with the one price reading it
works from (`prices`, of which tickers may be missing); `RecordSnapshot` is the
background point, skipped while a holding has no price.  `exactCash` and
`netShares` are history: what no code keeps but the drift is measured against.

**TradeTxn.**  Each `pc` value is a point between two statements.  `transaction`
takes the write lock at `BEGIN IMMEDIATE` (external: SQLite), works on a private
copy, and publishes at `COMMIT`; `read_transaction` fixes its snapshot at the
first read.  Any statement may fail, the lock may time out, the process may
crash.  The refinement mapping `L` sends the committed tables to `Ledger`'s and
computes its history variables as running totals (`Total`) over the blotter;
`ImplementsLedger` says that every step is a step of `Ledger` or changes nothing
there.

**Tracking.**  A step is what runs between two awaits that really suspend: a
database call in its thread, or one of `reconcile`'s two loops over the source
(neither source suspends in them).  A request keeps the source it was given.
A reading of the database may fail, and so may the source, half-way through either
loop (`SourceRefuses`); the compensation is modelled, its failure too.  A failover
may fail as well (`FailoverFails`), after which requests and trades get a 503
(`Unavailable`) until the process restarts.  Trades commit without reconciling, and
fill at any price the cache may hold: of a ticker that has been streamed since the
process started (`seen`), streamed now or not (`GhostFills`; `held_is_streamed`
leaves such fills out, so that its counterexample needs none).  `unsettled` is
history: the tickers a request that failed, or that worked on a retired source, was
about or had unsubscribed from the live one (`evicted`) and left watched without a
stream.  It exempts no other ticker, so that a failed request must leave alone what
it had no business with.

**Feed.**  `poller` is the task's program counter.  `PollAsk` is the worker
thread reading the ticker list, `PollLand` the answer's arrival on the loop.
A price is represented by the removal count of its ticker when it was asked for,
which is what tells a live price from a ghost.  Two sources may exist at a time,
sharing the cache, as during failover.  A poll with nothing to ask does not reach the
venue, so a revoked key is found out only once there is a ticker to ask for, at boot
as later.  A poll after the revocation may still fail in a way that is not recognised
(no connection, an answer without a marker), as often as `MaxFailures` says;
`FailoverHappens` thus assumes that the venue's refusal is understood in the end.

**Stream.**  A connection's `pc` follows the generator from yield to yield.
Versions, shock ids and status are values; a frame carries the whole cache.
Losing the connection at any point and reconnecting are actions.  A generator first
sends the retry line (`opening`) and takes its cursor when it resumes (`Begin`): the
shocks it owes its client are those appended since then.

**PriceStream.**  EXTENDS `Stream` and adds the page: `source` is the one
EventSource (the generator it is connected to, or its `readyState`), `dot` the
status, `escalation` the timer of the grace period, `age` the seconds since the
last price frame.  `Open` is `onopen` together with the server's `Connect`,
`Fail` is `onerror` with its three cases, `ReceivePrices` and `ReceiveShock` are
a generator's yield with the handler that gets it, if the page is still on that
connection.  `Drop` loses the connection with or without the server noticing; a
generator nobody hears runs on beside the next one until it is told.  The
EventSource's retries are external: an attempt opens, fails, or meets an answer
it gives up on.  `Remount` is a reload, which forgets everything; the hook's effect
also runs again when its path changes, keeping what is shown, but the page opens one
path only (`TerminalProvider.tsx:124`).

**DbInit.**  Two checks of two statements each, outside and inside `_init_lock`,
then one transaction; `files` keeps every file there has been, since a connection
stays on the one it opened when the path is deleted.  A found file may be half
built.  One process: the container runs a single worker.  With a second process
the write lock still serialises initialisation, but nobody checks again after
`BEGIN IMMEDIATE`, so the seed could restore a ticker removed in between.

**ChatTurn.**  The model's answer is any list of items: valid, invalid, too many.
`Plan` is the order adds, trades, removes; `Picked` is a list comprehension with a
condition.  A trade or a watchlist change is one
step here (`TradeTxn` and `Tracking` take them apart).  `LoseConnection` leaves
the server running, so turns can overlap; `Raise` is an exception nothing
catches; `handedBack` records the turns whose text the panel put back.  `tracked` is
what was watched or held when a turn began, the tickers it may count on; one that is
merely still streamed, because what was held of it has been sold, is dropped by the
reconcile of the turn's own adds, so that a trade in it is refused for want of a price.
The rows of `Earlier` are what former sessions stored, as turn 0; `fills` is the part of
the blotter since then.
`LoadContext` replays the newest `MaxHistory` rows of the transcript into the
prompt, each with the outcomes of its actions; the portfolio block, which is
read before them in another transaction, is not part of the model.

**Terminal.**  A resource holds the set of changes it reflects, which is all that
freshness needs.  `attempt` and the effect's key are three facts: `due` (an attempt
raised and not yet rendered), `settled` (the result has the effect's key) and the
fetch of the effect; what was cleaned up is `superseded` and may still deliver its
answer.  The server is reduced to when a request changes what; a chat turn acts,
then stores, and either may be cut short.  `confirmed` and `seen` are history.
A read has all changes made so far: that `read_history` keeps the newest points only
is left out, since a change ages out of the series only after newer ones are in it.
Each resource has its own hook, so the run follows the one that polls besides
being reloaded, and the conversation.

## 3. Runs and what they show

| Run | Bounds | Result |
|---|---|---|
| `ledger` | 2 tickers (symmetric), 2 prices, orders of 2 and 5 quarter-shares, tolerance of one unit, 4 fills, 1 point | holds; about 340 000 states |
| `trade_txn` | 2 trades, 1 reader, 1 background round, 2 cache changes, 1 fault | holds, `Ledger` refined |
| `tracking` | 2 requests, 1 trade, 3 tickers and a second spelling, list of size 2, any database of 2 of them at first, 2 failures, 1 restart | holds; 4.4 million states |
| `feed` | 2 tickers and a second spelling, 4 changes, 2 failed polls | holds; about 58 000 states |
| `price_stream` | 1 page, 2 connections, 2 tickers, ring of 1, heartbeat of 1, 2 events (writes, shocks, at most 1 oddity), grace of 2 s, stall after 1 s, series and list of 2 | holds; about 410 000 states |
| `db_init` | 3 requests, 1 default ticker, 1 deletion, 1 fault, every half-built file | holds; about 340 000 states |
| `chat_turn` | 2 messages, 2 requests, replies of up to 2 items, cap of 1, prompts of one exchange after an earlier one, 2 faults | holds; about 300 000 states |
| `terminal` | the P&L series and the chat, 2 mutations, 1 point, 1 fault, 1 reload of the page | holds; 1.3 million states |
| `frozen_price`, `held_is_streamed`, `stale_price`, `chat_resend` | as above | violated: see section 4 |

Why these bounds are enough to meet the interesting cases:

* four fills are two purchases, a partial sale and a closing, or a re-opening;
  with 5-unit orders and a scale of 4 every kind of rounding occurs, and the
  tolerance of one unit admits the oversell and the discarded residue;
* two writers and one reader contain every pairwise race of transactions; a
  third writer would only wait for the same lock;
* two requests are the overlap of an add and a removal, or of either with itself,
  and the three tickers are those of the two requests and one that neither is about
  but both reconcile; the second request refills a list of two between an undo and
  its cause; two failures are a reading or a source that fails and a failing undo.
  More requests at a time are left to the theorems, which know no bound;
* a ring of one overflows at the second shock; two connections are one and its
  reconnect, with the old generator still running or not; two events of the
  market are two writes around a frame, two shocks of which one is dropped, or
  one of them beside an eviction, a change of status, a reload, a refusal; a
  grace of two seconds can be put off between its start and its end;
* three threads are one that initialises, one that waited for the lock, and one
  whose write a second seeding would undo;
* a reply of two items against a cap of one meets the cap, the rejection before
  it and the one line after it; two requests are a retry or an overlap;
* two mutations, a background point and unbounded polls put the reload after one
  in the way of the other's; one fault is a lost answer or a failed fetch, after
  which the rest must recover.

Deadlock is checked except where the program may really come to rest: the
account with its bounds used up (`ledger`), all requests served (`tracking`,
`chat_turn`, `db_init`).  The page always polls, and its clock always ticks.

**Fairness.**  Weak fairness only, and only of what the runtime drives: a thread
that has started a request goes on (`TradeTxn`, `DbInit`), the event loop resumes boot,
poll and tick (`Feed`: HTTP calls have time-outs), a connected generator does its
round, the page's timers fire and the browser's attempts end, in success or not
(`PriceStream`), a turn's coroutine runs and the panel hears of an answer or of
a dead server (`ChatTurn`).  `Terminal` alone uses strong fairness, of the polled
fetch: a poll supersedes the fetch before it, so a server that needed more than
half a minute for every answer would never be heard; the assumption is that now
and then it does not.  Nothing is assumed of users, the market, the venue,
failures or lost connections.  `Tracking` and `Ledger` state safety only.

## 4. Disagreements between code and its comments

Each is a run whose property is what a comment says and whose violation TLC finds.

* `frozen_price`: `execute_trade` reads prices, then asks `is_stale`
  (`portfolio.py:251`); a feed that wakes up between the two lets a frozen price
  fill an order that `_require_price` means to refuse.
* `held_is_streamed`: `reconcile` claims that re-reading turns a racing buy into
  an add (`watchlist.py:136`); a buy that commits after the second reading is
  missed, and no trade reconciles.
* `stale_price`: a poll in flight across `remove_ticker` writes the removed price
  back (`massive_client.py:318`); re-added, the ticker can trade at it.
* `chat_resend`: an exception after a committed trade, in a later action or in
  `_finish`'s valuation (`chat.py:377`), is a 500; the panel takes every such
  answer for a refusal before execution and offers the text again
  (`ChatPanel.tsx:110`).

The properties of the passing runs mark the boundary: `WatchedIsStreamed`,
`SimulatorLeavesNoGhost` and `NoSilentDoubleFill` are the versions that do hold.
So is `HistoryCatchesUp`: a trade whose answer is lost after it committed reloads
nothing, and only the polled series is sure to show it later; likewise a chat
turn that goes on after its connection has failed, or fails after having acted.
`TroubleIsShown` speaks of a market that goes quiet after it has priced the page:
over an open stream that has never carried a price the dot stays "connected" and
the stall check never fires, because `lastFrame` is still null
(`usePriceStream.ts:242`), whereas the test at `usePriceStream.test.tsx:388` takes
it that "connecting" already reports that state.  `PromptTellsTheTruth` is about
the replayed messages: a turn overlapping with the reading of a prompt can be in
them and not in the portfolio block above them.

## 5. Proofs

Every safety property that a passing run checks (invariants, action properties and
the refinement) is a theorem, for every value of the constants: any number of
tickers, prices, threads, connections, requests, turns and faults.  None of the
bounds of section 3 enters a proof as a number.  Each proof finds an inductive
invariant, shows that `Init` gives it and every action keeps it, with one step to an
action and under it one to a conjunct the action can disturb, and derives the
property from it.  Steps that leave most of the state alone are summed up once (what
a request, a commit, a connection's round moves), and the invariants are shown from
these summaries.

### The account: `LedgerProofs`

`TypeCorrectness`, `Solvency`, `CashDrift`, `ShareDrift` and `FillsConserveValue`
rest on `Inv`: `TypeOK` of `Ledger` (types, and that a row holds shares), `Solvent`,
`CashDriftBounded` and `ShareDriftBounded`.  That a row holds shares is needed
because its average cost is a quotient, whose denominator is the number of shares:
without it the next purchase could not be shown to give a proper row.  The drift
bounds need types alone: a fill adds at most half a cent (`FillValueNear`) and at
most the tolerance (`RemainingNear`) to a distance that grows with the blotter.

`AverageCost` says that the average stays between the cheapest and the dearest
purchase.  It is inductive beside `Inv` in the form `Between`: some purchase bounds
the average from above and some from below.  A purchase makes the new average a mean
of the old one and of the price paid; a mean exceeds the larger of the two or falls
short of the smaller one in no case, so either the old witness or the new row is a
witness again (`MeanOfOld`, `MeanOfNew`).  A sale leaves the average alone.

### Statement by statement: `TradeTxnProofs`

`ReportsOneAccount` (`ReportedAccountExisted`) needs the lock: `Locked` says that a
thread holds it exactly while it is inside a write transaction, hence one at a time,
and `Existed` that whatever a reader has read was committed together.
`AnswersHold` (`AnswerMatchesBlotter`) needs `Blotter`: a request with an answer to
give has a row, one without has none unless it was lost, and none has two.

`RefinesLedger` is `Spec => ImplementsLedger`, the refinement.  What makes each
commit one step of `Ledger` is `WholeWork`: from the moment a thread enters its
transaction, its private copy differs from the committed database by exactly the
statements it has executed, computed from its one reading of the prices.  The lock
makes that stable: nobody else commits in between.  `Readings` says that a reading is
one, `Room` that the ledger's own bounds are never in the way.  Every step changes
either nothing committed (`OnlyCommits`) or is a fill (`FillRefines`) or a round of
the background thread (`RoundRefines`).

The history variables are running totals over the blotter, recursive functions.  The
library's induction theorems are out of reach, but the least failing number is not: by
`WFMin` of the library a non-empty set of naturals has a least element, and a total
that is missing for some length is missing for a least one (`LeastFailure`), where its
predecessor gives it.  The same argument serves `Since` in `Stream` and `Picked` in
`ChatTurn`, which is why these are recursive functions rather than folds.

`AccountIsSound` instantiates `LedgerProofs` under the refinement mapping: what is
proved of the ledger holds of the committed database under concurrency and faults.

### Watchlist, feed, database: `TrackingProofs`, `FeedProofs`, `DbInitProofs`

* `CapHolds` adds to the cap that the watched and the restored are finite, and that a
  request which restored a row has failed and can do so no more.
* `Coverage` (`WatchedIsStreamed`) is not inductive while a request is under way.
  `Covered` is: a watched ticker is streamed, or known to be unsettled, or some request
  under way still owes it (`Owes`): it is about the ticker, or has unsubscribed it, and
  has yet to subscribe what its second reading finds, or to undo, which leaves the ticker
  among the unsettled.
* `Heals` (`ReconcileHeals`) follows from `Settling`, which says of an undisturbed
  request that its reading is still what is watched or held, and that once it has
  evicted nothing else is subscribed.
* `HoldingsKept` follows from `Kept`: what has been held ever since a request began is
  in what the request wants to keep when it evicts.
* `NamedSourceRuns` needs `Running`: in each phase, which of poller and tick may run,
  and what the app names then.  `NoGhosts` needs `SimulatorAlone`: nothing ever offers
  such a process another source, and the simulator's cache has its tickers only.
  `FeedTyped` dates each price by a generation its ticker has reached.
* `CompleteWhenServed` and `SeedsOnce` need `Stage`: what a thread has found and written
  by each statement, that it creates only under `_init_lock`, and that the file it
  creates in was incomplete when it looked under that lock.  Nobody else completes it
  while the lock is held, which is what the second check in `ensure_initialized` is for.

### The page and the stream: `TerminalProofs`, `PriceStreamProofs`

`PanelsAgree`, `TurnsOnce` and `SpinnersEnd` rest on `Current`, which orders what a
panel has shown, shows, is being sent and what the server has, and says that a fetch
begun with no render due carries every change the user was told of; and on `Once`, for
the conversation, which is fetched once and before anything is sent.

`HonestStatus` is `StatusIsHonest`, inductive once the page's variables are typed
(`DotInv`).  `SteadyHeartbeat` (`NeverSilent`) is not: what bounds the silence is the
generator's own counter, so `BeatInv` says that the counter never falls behind the
silence, that there is none while a frame of this round is out, and that a generator
goes to sleep with room for one more round.  `RingIsNewest` makes the ring an interval
of ids ending at the newest (`RingOK`).  `EveryShockOnce` (`ShocksInOrder`) keeps for
each connection that what it has delivered and what it holds are, in order, all ids
from where it joined to its cursor but the lost ones, and that of the ids beyond the
cursor those are lost that the ring no longer has (`Heard`).  `PageListsShocks`
(`ShocksOnPage`) needs besides that every id the present connection may still deliver
is above all the page shows (`Follows`), which is why a reconnect never repeats one.

### The conversation: `ChatTurnProofs`

* `NoSecondFill` (`NoSilentDoubleFill`) rests on `Once`: a text in the composer, or in
  a later turn, belongs only to turns answered with an error, and a turn that has not
  reached its actions has no fills.
* `ReportsAreComplete` (`ReportsWhatItDid`) rests on `Honest`: the fills of a turn and
  the trades it reports agree one by one; what it has still to do is adds, trades and
  removes in three blocks, of which the middle one, with what was traded already, fits
  the cap; and what is reported, is left and was rejected add up to what was asked for.
* `ConversationIsTrue` (`TranscriptMatchesLedger`) needs that a stored row's turn is
  over, so that its fills can change no more (`Settled`).
* `PromptsAreTrue` (`PromptTellsTheTruth`) needs that the transcript only grows, so
  that a prompt under way stays the window of it that was read (`FromTranscript`).
* `TradesArePriced` (`TradesKeepTheirPrice`) rests on `Supplied`, for a turn that runs
  alone: while it adds, its tickers are watched or held, so that none of its reconciles
  drops them; once it trades there is no reconcile to come, and they are streamed.
  The attempt to prove this showed that the property was first stated too strongly:
  of a ticker that is only streamed still it does not hold, with two tickers and three
  turns, a case the run's single ticker does not have.

### Assumptions

All are stated as `ASSUME`s where the constants are declared, and evaluated by TLC on
every run:

* prices are natural numbers of cents, order sizes and the scale positive, tolerance,
  starting cash, caps and limits natural numbers (`Account`, `Ledger`,
  `MoneyAssumption`, `CapAssumption`, `LimitsAssumption`, `PageAssumption`,
  `CapacityAssumption`, `BoundsAssumption`): validation and the settings' types;
* normalisation is a function to canonical symbols (`CanonicalAssumption`,
  `SpellingsAssumption`);
* the trading threads, and the tickers watched at first, are finitely many, the latter
  within the cap (`ThreadsAssumption`, `SeededAssumption`): the seed is a list of ten
  in `seed_prices.py`;
* values that mean "nobody" are not threads or connections (`ThreadsAssumption`,
  `NoThreadAssumption`, `SourceAssumption`); orders are orders, and the resources and
  panels followed are some of the page's (`OrdersAssumption`, `FollowedAssumption`);
* the model's reply is two lists of items, each an item asked for or junk
  (`RepliesAssumption`): a reply that is not parses to no message or no list;
* the limit of a prompt's history is even, as `MAX_HISTORY_MESSAGES` is, and what
  earlier sessions stored is whole exchanges (`HistoryAssumption`,
  `EarlierAssumption`), which is what `ConversationIsTrue` then shows of this one.

### Model-checked only

The liveness properties (`EveryRequestEnds` twice, `FailoverHappens`,
`SimulatorRestoresPrices`, `StatusReachesClient`, `PageCatchesUp`, `TroubleIsShown`,
`EveryTurnEnds`, `HistoryCatchesUp`): fairness and `ENABLED` are beyond this prover.
What a point of the P&L series is worth is a sum over a set and has no theorem of its
own; the refinement carries it as it stands, as the same sum over the same rows.
The violations of section 4 are counterexamples.

## 6. Not modelled

The price process of the simulator (random reals nothing depends on), the
prompt's prose and the mock's canned replies, percentages and other presentation, request
validation that repeats the domain's, health reports, static files,
configuration, rendering, container and scripts, and the terminal demo of the
market data (`market_data_demo.py`).  The page's valuation of holdings
(`valuation.ts`) is a pure function of what `Terminal` and `PriceStream` deliver.
Time is not measured, except in seconds on the page (`PriceStream`): elsewhere a
time-out or a stale price is an event that may happen at any moment.

## 7. Plan

Order of the modules: the account first (`Account`, `Ledger`, `TradeTxn`), then
what prices it (`Tracking`, `Feed`), what shows it (`Stream`, `PriceStream`), what drives it
(`ChatTurn`), what creates the database (`DbInit`) and the page (`Terminal`);
these are done.  What is left:

1. Proofs: what a point of the P&L series is worth, once its sum is a running total
   over an enumeration of the rows, as `Total` is over the blotter; for each liveness
   property the measure that its steps decrease, as an action property.
2. Composition: `ChatTurn`'s one-step trade and watchlist change implemented by
   `TradeTxn` and `Tracking`.
3. Breadth: the percentages of the portfolio view and the mock's canned replies, if
   ever a property is about them.
