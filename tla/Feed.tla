--------------------------------- MODULE Feed ---------------------------------
(***************************************************************************)
(* The market feed: the Massive poller, the simulator that stands in for   *)
(* it, the price cache both write, and the lifespan that starts them,      *)
(* replaces one by the other and shuts them down (backend/app/market and   *)
(* main.py).                                                               *)
(*                                                                         *)
(* Everything here but the HTTP call of a poll runs on one event loop, so  *)
(* a step is what happens between two awaits that really suspend.  The     *)
(* poll itself leaves the loop twice: the worker thread reads the ticker   *)
(* list when it starts (Ask), the loop takes the answer later (Land).      *)
(*                                                                         *)
(* A price is the generation of the ticker it was asked for: how often the *)
(* ticker had been removed by then.  Numbers do not matter here, where a   *)
(* price comes from does.                                                  *)
(***************************************************************************)
EXTENDS Integers

CONSTANTS
    Tickers,      \* canonical symbols
    Spellings,    \* what callers pass
    Canonical,    \* spelling -> ticker
    MaxChanges,   \* bound: subscription changes by requests
    MaxFailures   \* bound: polls that fail in passing or answer in part, failovers that fail

ASSUME SpellingsAssumption ==
    Tickers \subseteq Spellings /\ Canonical \in [Spellings -> Tickers]

Sources == {"massive", "simulator"}

VARIABLES
    configured,  \* the source the environment asks for
    phase,       \* where the lifespan is
    live,        \* app.state.market_source
    offered,     \* history: sources app.state.market_source has named
    tickers,     \* each source's active set
    poller,      \* MassiveDataSource._task and what it is doing
    asked,       \* the poll in flight: ticker -> generation
    ticking,     \* whether SimulatorDataSource._task runs
    prices,      \* PriceCache: ticker -> generation its price is from
    revoked,     \* the venue refuses the key from now on
    generation,  \* history: how often each symbol was removed
    changes, failures

vars == <<configured, phase, live, offered, tickers, poller, asked, ticking, prices,
          revoked, generation, changes, failures>>

Nothing == [t \in {} |-> 0]
Polling == {"starting", "asleep", "asking", "waiting"}

Init ==
    /\ configured \in Sources
    /\ phase = "booting"
    /\ live = "none" /\ offered = {}
    /\ \E rows \in SUBSET Tickers : tickers = [s \in Sources |-> rows]
    /\ poller = "none"
    /\ asked = Nothing
    /\ ticking = FALSE
    /\ prices = Nothing
    /\ revoked \in BOOLEAN
    /\ generation = [t \in Spellings |-> 0]
    /\ changes = 0 /\ failures = 0

-----------------------------------------------------------------------------
(* PriceCache *)

Written(old, new) ==
    [t \in DOMAIN old \cup DOMAIN new |-> IF t \in DOMAIN new THEN new[t] ELSE old[t]]

Now(set) == [t \in set |-> generation[t]]

-----------------------------------------------------------------------------
(* factory.start_market_data *)

Offer(s) == live' = s /\ offered' = offered \cup {s}

\* SimulatorDataSource.start: seeds the cache, then starts the loop.
SimulatorStarts(set) ==
    /\ tickers' = [tickers EXCEPT !["simulator"] = set]
    /\ prices' = Written(prices, Now(set))
    /\ ticking' = TRUE

BootSimulator ==
    /\ phase = "booting" /\ configured = "simulator"
    /\ SimulatorStarts(tickers["simulator"])
    /\ Offer("simulator")
    /\ phase' = "serving"
    /\ UNCHANGED <<configured, poller, asked, revoked, generation, changes, failures>>

\* MassiveDataSource.start polls before its task exists.
BootMassive ==
    /\ phase = "booting" /\ configured = "massive" /\ poller = "none"
    /\ poller' = "starting"
    /\ asked' = Now(tickers["massive"])
    /\ UNCHANGED <<configured, phase, live, offered, tickers, ticking, prices, revoked,
                   generation, changes, failures>>

\* _verify_priced: something was wanted and nothing is there.
Unusable(cache) == tickers["massive"] # {} /\ tickers["massive"] \cap DOMAIN cache = {}

\* The first poll has answered for the tickers of got: none of them when it failed, or
\* was refused in words that do not look permanent.  With nothing to ask for it never
\* reaches the venue, and a revoked key boots.
BootVerified(got) ==
    /\ poller = "starting" /\ (revoked => got = {})
    /\ got \subseteq DOMAIN asked
    /\ got # DOMAIN asked => failures < MaxFailures
    /\ failures' = IF got = DOMAIN asked THEN failures ELSE failures + 1
    /\ LET filled == Written(prices, [t \in got |-> asked[t]])
       IN  \/ /\ ~Unusable(filled)
              /\ prices' = filled
              /\ poller' = "asleep"
              /\ Offer("massive")
              /\ UNCHANGED <<tickers, ticking>>
           \/ /\ Unusable(filled)
              /\ SimulatorStarts(tickers["massive"])
              /\ poller' = "gone"
              /\ Offer("simulator")
    /\ asked' = Nothing
    /\ phase' = "serving"
    /\ UNCHANGED <<configured, revoked, generation, changes>>

BootRejected ==
    /\ poller = "starting" /\ revoked /\ asked # Nothing
    /\ SimulatorStarts(tickers["massive"])
    /\ poller' = "gone"
    /\ Offer("simulator")
    /\ asked' = Nothing
    /\ phase' = "serving"
    /\ UNCHANGED <<configured, revoked, generation, changes, failures>>

-----------------------------------------------------------------------------
(* The poll loop *)

\* _poll_once returns at once when there is nothing to ask for.
PollBegin ==
    /\ poller = "asleep" /\ tickers["massive"] # {}
    /\ poller' = "asking"
    /\ UNCHANGED <<configured, phase, live, offered, tickers, asked, ticking, prices, revoked,
                   generation, changes, failures>>

\* _fetch_snapshots, in its thread, reads the tickers as they are by then.
PollAsk ==
    /\ poller = "asking"
    /\ asked' = Now(tickers["massive"])
    /\ poller' = "waiting"
    /\ UNCHANGED <<configured, phase, live, offered, tickers, ticking, prices, revoked,
                   generation, changes, failures>>

\* Mutant of IsPermanent: the refusal is taken for one more transient failure.
IsPermanentForgotten == FALSE
IsPermanent == revoked

\* Every snapshot that parses is written, whoever still wants it.  A revoked key may
\* meet transient failures too, or refusals without one of the permanent markers.
PollLand(got) ==
    /\ poller = "waiting" /\ (IsPermanent => got = {})
    /\ got \subseteq DOMAIN asked
    /\ \/ ~IsPermanent /\ got = DOMAIN asked /\ UNCHANGED failures
       \/ /\ IsPermanent \/ got # DOMAIN asked
          /\ failures < MaxFailures
          /\ failures' = failures + 1
    /\ prices' = Written(prices, [t \in got |-> asked[t]])
    /\ asked' = Nothing
    /\ poller' = "asleep"
    /\ UNCHANGED <<configured, phase, live, offered, tickers, ticking, revoked, generation, changes>>

\* The failover handler, run inside the failing poller's task.  While the lifespan
\* is shutting down it installs nothing and retires what it started.
MayInstall == phase = "serving"

\* Mutant of PollerAfterFailure: the loop goes on polling after its callback.
PollerAfterFailureContinues == "asleep"
PollerAfterFailure == "gone"

PollRejected ==
    /\ poller = "waiting" /\ IsPermanent
    /\ poller' = PollerAfterFailure
    /\ asked' = Nothing
    /\ LET carried == IF live = "massive" THEN tickers["massive"] ELSE {}
       IN  \/ /\ MayInstall
              /\ SimulatorStarts(carried)
              /\ Offer("simulator")
           \/ /\ ~MayInstall
              /\ tickers' = [tickers EXCEPT !["simulator"] = carried]
              /\ prices' = Written(prices, Now(carried))
              /\ UNCHANGED <<ticking, live, offered>>
    /\ UNCHANGED <<configured, phase, revoked, generation, changes, failures>>

\* The simulator does not start either: no source at all.
FailoverFails ==
    /\ poller = "waiting" /\ IsPermanent
    /\ failures < MaxFailures
    /\ failures' = failures + 1
    /\ poller' = PollerAfterFailure
    /\ asked' = Nothing
    /\ live' = "none"
    /\ UNCHANGED <<configured, phase, offered, tickers, ticking, prices, revoked, generation, changes>>

-----------------------------------------------------------------------------
(* The simulator loop *)

\* Mutant of Moved: a step that walks the cache instead of the simulation.
MovedCached == tickers["simulator"] \cap DOMAIN prices
Moved == tickers["simulator"]

Tick ==
    /\ ticking
    /\ prices' = Written(prices, Now(Moved))
    /\ UNCHANGED <<configured, phase, live, offered, tickers, poller, asked, ticking, revoked,
                   generation, changes, failures>>

-----------------------------------------------------------------------------
(* Requests, on the source they were given: it may have been retired since *)

Given(s) ==
    /\ phase \in {"serving", "stopping"}
    /\ changes < MaxChanges
    /\ s \in offered
    /\ changes' = changes + 1

\* Mutant of Normalize: the symbol is taken as it came.
NormalizeNot(spelling) == spelling
Normalize(spelling) == Canonical[spelling]

\* The simulator writes the price of a ticker it has already, too.
AddTicker(s, spelling) ==
    LET t == Normalize(spelling)
    IN  /\ Given(s)
        /\ tickers' = [tickers EXCEPT ![s] = @ \cup {t}]
        /\ prices' = IF s = "simulator" THEN Written(prices, Now({t})) ELSE prices
        /\ UNCHANGED <<configured, phase, live, offered, poller, asked, ticking, revoked,
                       generation, failures>>

\* Mutant of PricesWithout: the cache entry is left behind.
PricesWithoutKept(t) == prices
PricesWithout(t) == [u \in DOMAIN prices \ {t} |-> prices[u]]

\* The price goes even if this source did not have the ticker.
RemoveTicker(s, spelling) ==
    LET t == Normalize(spelling)
    IN  /\ Given(s)
        /\ tickers' = [tickers EXCEPT ![s] = @ \ {t}]
        /\ prices' = PricesWithout(t)
        /\ generation' = [generation EXCEPT ![t] = @ + 1]
        /\ UNCHANGED <<configured, phase, live, offered, poller, asked, ticking, revoked,
                       failures>>

-----------------------------------------------------------------------------
(* The venue and the end of the process *)

\* The key is revoked: 401 or 403 from here on.
Revoke ==
    /\ ~revoked
    /\ revoked' = TRUE
    /\ UNCHANGED <<configured, phase, live, offered, tickers, poller, asked, ticking, prices,
                   generation, changes, failures>>

\* The lifespan sets shutting_down and awaits the snapshot task.
ShutdownBegin ==
    /\ phase = "serving"
    /\ phase' = "stopping"
    /\ UNCHANGED <<configured, live, offered, tickers, poller, asked, ticking, prices, revoked,
                   generation, changes, failures>>

\* Then it clears market_source and stops what was there.  A poll in flight is
\* cancelled: its thread may finish, its answer goes nowhere.
\* Mutant of Current: the source the lifespan started with.
CurrentAsStarted == configured
Current == live

ShutdownStop ==
    /\ phase = "stopping"
    /\ phase' = "stopped"
    /\ live' = "none"
    /\ poller' = IF Current = "massive" THEN "gone" ELSE poller
    /\ asked' = IF Current = "massive" THEN Nothing ELSE asked
    /\ ticking' = IF Current = "simulator" THEN FALSE ELSE ticking
    /\ UNCHANGED <<configured, offered, tickers, prices, revoked, generation, changes, failures>>

\* A stopped process, with the sources it has left, does nothing more.
Stopped ==
    /\ phase = "stopped" /\ poller \notin Polling /\ ~ticking
    /\ UNCHANGED vars

-----------------------------------------------------------------------------
PollStep ==
    \/ PollBegin \/ PollAsk \/ PollRejected \/ FailoverFails
    \/ \E got \in SUBSET DOMAIN asked : PollLand(got)

BootStep ==
    \/ BootSimulator \/ BootMassive \/ BootRejected
    \/ \E got \in SUBSET DOMAIN asked : BootVerified(got)

Next ==
    \/ BootStep
    \/ PollStep
    \/ Tick
    \/ \E s \in Sources, t \in Spellings : AddTicker(s, t) \/ RemoveTicker(s, t)
    \/ Revoke
    \/ ShutdownBegin \/ ShutdownStop
    \/ Stopped

\* The event loop runs, timers fire, and an HTTP call returns or times out (both
\* time-outs are set).  Nothing is assumed of requests, the venue or the operator.
Fairness == WF_vars(BootStep) /\ WF_vars(PollStep) /\ WF_vars(Tick)

Spec == Init /\ [][Next]_vars /\ Fairness

-----------------------------------------------------------------------------
(* Properties *)

\* Types of the sources, the cache and the lifespan.
FeedTypeOK ==
    /\ phase \in {"booting", "serving", "stopping", "stopped"}
    /\ live \in Sources \cup {"none"}
    /\ tickers \in [Sources -> SUBSET Tickers]
    /\ poller \in Polling \cup {"none", "gone"}
    /\ DOMAIN asked \subseteq Tickers
    /\ DOMAIN prices \subseteq Tickers
    /\ \A t \in DOMAIN prices : prices[t] \in 0..generation[t]

\* While the app serves, what app.state names as the live source is really running,
\* and what runs is what it names: after failing over and failing to fail over too.
\* Once the lifespan has ended, whatever happened during it, nothing runs.  And at no
\* time do both sources run, which would mix real and simulated prices in the cache.
LiveSourceRuns ==
    /\ ~(poller \in Polling /\ ticking)
    /\ phase \in {"serving", "stopped"} =>
          /\ poller \in Polling <=> live = "massive"
          /\ ticking <=> live = "simulator"

\* A process that started on the simulator never keeps a price of a ticker nobody
\* tracks: its loop runs between requests, never across one.
SimulatorLeavesNoGhost ==
    configured = "simulator" => DOMAIN prices \subseteq tickers["simulator"]

\* A key revoked while the app serves does not leave a dead poller in place for
\* ever, unless there is nothing to poll for: sooner or later a refusal is recognised,
\* however many polls fail in passing first.
FailoverHappens ==
    revoked /\ phase = "serving" /\ live = "massive"
        ~> phase # "serving" \/ live # "massive" \/ tickers["massive"] = {}

\* A ticker the running simulator tracks gets its price back even when a request on
\* the retired source has just dropped it from the shared cache.
SimulatorRestoresPrices ==
    \A t \in Tickers :
        (ticking /\ t \in tickers["simulator"])
            ~> (t \in DOMAIN prices \/ t \notin tickers["simulator"] \/ ~ticking)

\* What portfolio._require_price says is never right, "a stale price from before it
\* was removed and re-added": a tracked ticker's price was asked for after its last
\* removal.
NoPriceFromBeforeRemoval ==
    live = "massive" =>
        \A t \in tickers["massive"] \cap DOMAIN prices : prices[t] = generation[t]
=============================================================================
