------------------------------ MODULE FeedProofs ------------------------------
(***************************************************************************)
(* Theorems about the market feed, for any set of tickers and spellings    *)
(* and any number of polls, failures, requests and revocations.            *)
(***************************************************************************)
EXTENDS Feed, TLAPS

-----------------------------------------------------------------------------
(* The inductive invariant *)

\* A map from tickers to generations that have been.
Dated(map) ==
    /\ DOMAIN map \subseteq Tickers
    /\ \A t \in DOMAIN map : map[t] \in 0..generation[t]

Types ==
    /\ configured \in Sources
    /\ phase \in {"booting", "serving", "stopping", "stopped"}
    /\ live \in Sources \cup {"none"}
    /\ offered \subseteq Sources
    /\ tickers \in [Sources -> SUBSET Tickers]
    /\ poller \in Polling \cup {"none", "gone"}
    /\ ticking \in BOOLEAN
    /\ generation \in [Spellings -> Nat]
    /\ Dated(asked) /\ Dated(prices)

\* Who runs in which phase of the lifespan.  Before there is a source nothing ticks and
\* only the first poll is under way; that poll is over when the app serves.  While the
\* lifespan is stopping a poller may have died that is still named, which is why
\* LiveSourceRuns says nothing of that phase; but nothing runs that is not named.
Running ==
    /\ phase = "booting" => live = "none" /\ ~ticking /\ poller \in {"none", "starting"}
    /\ phase # "booting" => poller # "starting"
    /\ phase = "serving" /\ live = "massive" => poller \in Polling
    /\ phase # "booting" /\ poller \in Polling => live = "massive"
    /\ phase # "booting" => (ticking <=> live = "simulator")
    /\ phase = "stopped" => live = "none"

\* A process configured for the simulator has no poller and offers nothing else.
SimulatorAlone ==
    configured = "simulator" =>
        /\ poller = "none" /\ live # "massive" /\ offered \subseteq {"simulator"}
        /\ DOMAIN prices \subseteq tickers["simulator"]

Inv == Types /\ Running /\ SimulatorAlone

LEMMA InvInit == Init => Inv
<1> SUFFICES ASSUME Init
             PROVE  Inv
    OBVIOUS
<1>1. tickers \in [Sources -> SUBSET Tickers]
    BY DEF Init
<1>2. Dated(asked) /\ Dated(prices) /\ DOMAIN prices = {}
    BY DEF Init, Dated, Nothing
<1>3. Types
    BY <1>1, <1>2 DEF Init, Types
<1> QED
    BY <1>2, <1>3 DEF Init, Inv, Running, SimulatorAlone, Polling

-----------------------------------------------------------------------------
(* The cache *)

LEMMA WrittenDated ==
    ASSUME NEW old, NEW new, Dated(old), Dated(new)
    PROVE  Dated(Written(old, new)) /\ DOMAIN Written(old, new) = DOMAIN old \cup DOMAIN new
BY DEF Dated, Written

LEMMA NowDated ==
    ASSUME generation \in [Spellings -> Nat], NEW set \in SUBSET Tickers
    PROVE  Dated(Now(set)) /\ DOMAIN Now(set) = set
BY SpellingsAssumption DEF Dated, Now

LEMMA PartDated ==
    ASSUME NEW map, Dated(map), NEW got \in SUBSET DOMAIN map
    PROVE  Dated([t \in got |-> map[t]]) /\ DOMAIN [t \in got |-> map[t]] = got
BY DEF Dated

LEMMA NothingDated == Dated(Nothing)
BY DEF Dated, Nothing

\* Starting the simulator, or what PollRejected does of it, on a set of tickers.
LEMMA SimulatorWrites ==
    ASSUME Types, NEW set \in SUBSET Tickers,
           tickers' = [tickers EXCEPT !["simulator"] = set],
           prices' = Written(prices, Now(set)), UNCHANGED generation
    PROVE  /\ tickers' \in [Sources -> SUBSET Tickers] /\ tickers'["simulator"] = set
           /\ Dated(prices)' /\ DOMAIN prices' = DOMAIN prices \cup set
<1>1. Dated(prices') /\ DOMAIN prices' = DOMAIN prices \cup set
    <2>1. Dated(Now(set)) /\ DOMAIN Now(set) = set
        BY NowDated DEF Types
    <2>2. Dated(prices)
        BY DEF Types
    <2>3. /\ Dated(Written(prices, Now(set)))
          /\ DOMAIN Written(prices, Now(set)) = DOMAIN prices \cup DOMAIN Now(set)
        BY <2>1, <2>2, WrittenDated
    <2> QED
        BY <2>1, <2>3
<1>2. Dated(prices)'
    BY <1>1 DEF Dated
<1> QED
    BY <1>1, <1>2 DEF Types, Sources

-----------------------------------------------------------------------------
(* Boot *)

LEMMA StepBootSimulator ==
    ASSUME Inv, BootSimulator
    PROVE  Inv'
<1>1. /\ tickers' \in [Sources -> SUBSET Tickers]
      /\ tickers'["simulator"] = tickers["simulator"]
      /\ Dated(prices)' /\ DOMAIN prices' = DOMAIN prices \cup tickers["simulator"]
    BY SimulatorWrites DEF BootSimulator, SimulatorStarts, Inv, Types, Sources
<1>2. Types'
    BY <1>1 DEF BootSimulator, SimulatorStarts, Offer, Inv, Types, Sources, Dated
<1>3. Running'
    BY DEF BootSimulator, SimulatorStarts, Offer, Inv, Running, SimulatorAlone, Polling
<1>4. SimulatorAlone'
    BY <1>1 DEF BootSimulator, Offer, Inv, SimulatorAlone
<1> QED
    BY <1>2, <1>3, <1>4 DEF Inv

LEMMA StepBootMassive ==
    ASSUME Inv, BootMassive
    PROVE  Inv'
<1>1. Dated(asked')
    BY NowDated DEF BootMassive, Inv, Types, Sources
<1>2. Types'
    BY <1>1 DEF BootMassive, Inv, Types, Dated, Polling
<1> QED
    BY <1>2 DEF BootMassive, Inv, Running, SimulatorAlone, Polling

\* The first poll ends in Massive asleep or in the simulator.
LEMMA StepBootVerified ==
    ASSUME Inv, NEW got \in SUBSET DOMAIN asked, BootVerified(got)
    PROVE  Inv'
<1> DEFINE filled == Written(prices, [t \in got |-> asked[t]])
<1>1. configured # "simulator" /\ phase = "booting" /\ ~ticking
    BY DEF BootVerified, Inv, SimulatorAlone, Running, Types, Sources
<1>2. CASE prices' = filled /\ poller' = "asleep" /\ Offer("massive") /\ UNCHANGED <<tickers, ticking>>
    <2>1. Dated(filled)
        BY PartDated, WrittenDated DEF Inv, Types
    <2>2. Types'
        BY <1>2, <2>1, NothingDated
           DEF BootVerified, Offer, Inv, Types, Dated, Sources, Polling
    <2> QED
        BY <1>1, <1>2, <2>2 DEF BootVerified, Offer, Inv, Running, SimulatorAlone, Polling
<1>3. CASE SimulatorStarts(tickers["massive"]) /\ poller' = "gone" /\ Offer("simulator")
    <2>1. /\ tickers' \in [Sources -> SUBSET Tickers]
          /\ Dated(prices)'
        BY <1>3, SimulatorWrites DEF SimulatorStarts, BootVerified, Inv, Types, Sources
    <2>2. Types'
        BY <1>3, <2>1, NothingDated
           DEF BootVerified, SimulatorStarts, Offer, Inv, Types, Dated, Sources, Polling
    <2> QED
        BY <1>1, <1>3, <2>2
           DEF BootVerified, SimulatorStarts, Offer, Inv, Running, SimulatorAlone, Polling
<1> QED
    BY <1>2, <1>3 DEF BootVerified

LEMMA StepBootRejected ==
    ASSUME Inv, BootRejected
    PROVE  Inv'
<1>1. configured # "simulator"
    BY DEF BootRejected, Inv, SimulatorAlone
<1>2. tickers' \in [Sources -> SUBSET Tickers] /\ Dated(prices)'
    BY SimulatorWrites DEF SimulatorStarts, BootRejected, Inv, Types, Sources
<1>3. Types'
    BY <1>2, NothingDated
       DEF BootRejected, SimulatorStarts, Offer, Inv, Types, Dated, Sources, Polling
<1> QED
    BY <1>1, <1>3
       DEF BootRejected, SimulatorStarts, Offer, Inv, Running, SimulatorAlone, Polling

-----------------------------------------------------------------------------
(* Polls *)

LEMMA StepPollBeginAsk ==
    ASSUME Inv, PollBegin \/ PollAsk
    PROVE  Inv'
<1>1. Dated(asked')
    <2>1. CASE PollBegin
        BY <2>1 DEF PollBegin, Inv, Types
    <2>2. CASE PollAsk
        BY <2>2, NowDated DEF PollAsk, Inv, Types, Sources
    <2> QED
        BY <2>1, <2>2
<1>2. Types'
    BY <1>1 DEF PollBegin, PollAsk, Inv, Types, Dated, Polling
<1> QED
    BY <1>2 DEF PollBegin, PollAsk, Inv, Running, SimulatorAlone, Polling

LEMMA StepPollLand ==
    ASSUME Inv, NEW got \in SUBSET DOMAIN asked, PollLand(got)
    PROVE  Inv'
<1>1. Dated([t \in got |-> asked[t]])
    BY PartDated DEF Inv, Types
<1>2. Dated(prices')
    BY <1>1, WrittenDated DEF PollLand, Inv, Types
<1>3. Types'
    BY <1>2, NothingDated DEF PollLand, Inv, Types, Dated, Polling
<1> QED
    BY <1>3 DEF PollLand, Inv, Running, SimulatorAlone, Polling

\* The failover, installed or retired at once.
LEMMA StepPollRejected ==
    ASSUME Inv, PollRejected
    PROVE  Inv'
<1> DEFINE carried == IF live = "massive" THEN tickers["massive"] ELSE {}
<1>1. configured # "simulator" /\ phase # "booting" /\ live = "massive"
    BY DEF PollRejected, Inv, SimulatorAlone, Running, Polling
<1>2. tickers' \in [Sources -> SUBSET Tickers] /\ Dated(prices)'
    <2>1. /\ tickers' = [tickers EXCEPT !["simulator"] = carried]
          /\ prices' = Written(prices, Now(carried)) /\ UNCHANGED generation
        BY DEF PollRejected, SimulatorStarts
    <2>2. carried \in SUBSET Tickers
        BY DEF Inv, Types, Sources
    <2> HIDE DEF carried
    <2> QED
        BY <2>1, <2>2, SimulatorWrites DEF Inv
<1>3. /\ poller' = "gone" /\ asked' = Nothing /\ UNCHANGED <<configured, phase, revoked, generation>>
      /\ \/ phase = "serving" /\ ticking' = TRUE /\ live' = "simulator"
            /\ offered' = offered \cup {"simulator"}
         \/ phase # "serving" /\ UNCHANGED <<ticking, live, offered>>
    BY DEF PollRejected, PollerAfterFailure, MayInstall, SimulatorStarts, Offer
<1>4. Types'
    BY <1>2, <1>3, NothingDated DEF Inv, Types, Dated, Sources, Polling
<1> QED
    BY <1>1, <1>3, <1>4 DEF Inv, Running, SimulatorAlone, Polling

LEMMA StepFailoverFails ==
    ASSUME Inv, FailoverFails
    PROVE  Inv'
<1>1. configured # "simulator" /\ phase # "booting" /\ live = "massive"
    BY DEF FailoverFails, Inv, SimulatorAlone, Running, Polling
<1>2. Types'
    BY NothingDated DEF FailoverFails, PollerAfterFailure, Inv, Types, Dated, Sources, Polling
<1> QED
    BY <1>1, <1>2
       DEF FailoverFails, PollerAfterFailure, Inv, Running, SimulatorAlone, Polling

-----------------------------------------------------------------------------
(* The simulator, requests, and the end *)

LEMMA StepTick ==
    ASSUME Inv, Tick
    PROVE  Inv'
<1>1. Dated(Now(Moved)) /\ DOMAIN Now(Moved) = tickers["simulator"]
    BY NowDated DEF Moved, Inv, Types, Sources
<1>2. Dated(prices') /\ DOMAIN prices' = DOMAIN prices \cup tickers["simulator"]
    BY <1>1, WrittenDated DEF Tick, Inv, Types
<1>3. Types'
    BY <1>2 DEF Tick, Inv, Types, Dated
<1> QED
    BY <1>2, <1>3 DEF Tick, Inv, Running, SimulatorAlone, Polling

LEMMA StepAddTicker ==
    ASSUME Inv, NEW s \in Sources, NEW spelling \in Spellings, AddTicker(s, spelling)
    PROVE  Inv'
<1> DEFINE t == Normalize(spelling)
<1>1. t \in Tickers
    BY SpellingsAssumption DEF Normalize
<1> HIDE DEF t
<1>2. tickers' = [tickers EXCEPT ![s] = @ \cup {t}] /\ tickers' \in [Sources -> SUBSET Tickers]
    BY <1>1 DEF AddTicker, t, Inv, Types
<1>3. CASE s = "simulator"
    <2>1. Dated(Now({t})) /\ DOMAIN Now({t}) = {t}
        BY <1>1, NowDated DEF Inv, Types
    <2>2. prices' = Written(prices, Now({t}))
        BY <1>3 DEF AddTicker, t
    <2>3. Dated(prices') /\ DOMAIN prices' = DOMAIN prices \cup {t}
        BY <2>1, <2>2, WrittenDated DEF Inv, Types
    <2>4. Types'
        BY <1>2, <2>3 DEF AddTicker, Given, Inv, Types, Dated
    <2>5. DOMAIN prices \subseteq tickers["simulator"] =>
              DOMAIN prices' \subseteq tickers'["simulator"]
        BY <1>2, <1>3, <2>3 DEF Inv, Types
    <2> QED
        BY <2>4, <2>5 DEF AddTicker, Given, Inv, Running, SimulatorAlone
<1>4. CASE s # "simulator"
    <2>1. prices' = prices /\ s = "massive"
        BY <1>4 DEF AddTicker, Sources
    <2>2. Types'
        BY <1>2, <2>1 DEF AddTicker, Given, Inv, Types, Dated
    <2>3. tickers'["simulator"] = tickers["simulator"]
        BY <1>2, <2>1 DEF Inv, Types, Sources
    <2> QED
        BY <2>1, <2>2, <2>3 DEF AddTicker, Given, Inv, Running, SimulatorAlone
<1> QED
    BY <1>3, <1>4

LEMMA StepRemoveTicker ==
    ASSUME Inv, NEW s \in Sources, NEW spelling \in Spellings, RemoveTicker(s, spelling)
    PROVE  Inv'
<1> DEFINE t == Normalize(spelling)
<1>1. t \in Tickers /\ t \in Spellings
    BY SpellingsAssumption DEF Normalize
<1> HIDE DEF t
<1>2. /\ tickers' = [tickers EXCEPT ![s] = @ \ {t}]
      /\ generation' = [generation EXCEPT ![t] = @ + 1]
      /\ DOMAIN prices' = DOMAIN prices \ {t}
      /\ \A u \in DOMAIN prices' : prices'[u] = prices[u]
    BY DEF RemoveTicker, PricesWithout, t
<1>3. /\ tickers' \in [Sources -> SUBSET Tickers]
      /\ generation' \in [Spellings -> Nat]
      /\ \A u \in Spellings : generation[u] <= generation'[u]
    BY <1>1, <1>2 DEF Inv, Types
<1>4. Dated(prices)' /\ Dated(asked)'
    <2>1. Tickers \subseteq Spellings
        BY SpellingsAssumption
    <2>2. generation \in [Spellings -> Nat] /\ Dated(prices) /\ Dated(asked)
        BY DEF Inv, Types
    <2>3. asked' = asked
        BY DEF RemoveTicker
    <2> QED
        BY <1>2, <1>3, <2>1, <2>2, <2>3 DEF Dated
<1>5. Types'
    BY <1>3, <1>4 DEF RemoveTicker, Given, Inv, Types
<1>6. DOMAIN prices \subseteq tickers["simulator"] =>
          DOMAIN prices' \subseteq tickers'["simulator"]
    BY <1>2 DEF Inv, Types, Sources
<1> QED
    BY <1>5, <1>6 DEF RemoveTicker, Given, Inv, Running, SimulatorAlone

LEMMA StepEnd ==
    ASSUME Inv, Revoke \/ ShutdownBegin \/ Stopped
    PROVE  Inv'
<1>1. Types'
    BY DEF Revoke, ShutdownBegin, Stopped, vars, Inv, Types, Dated
<1> QED
    BY <1>1 DEF Revoke, ShutdownBegin, Stopped, vars, Inv, Running, SimulatorAlone

LEMMA StepShutdownStop ==
    ASSUME Inv, ShutdownStop
    PROVE  Inv'
<1>1. Types'
    BY NothingDated DEF ShutdownStop, Current, Inv, Types, Dated
<1>2. poller' \notin Polling
    BY DEF ShutdownStop, Current, Inv, Running, Polling
<1>3. ~ticking'
    <2>1. CASE live = "simulator"
        BY <2>1 DEF ShutdownStop, Current
    <2>2. CASE live # "simulator"
        BY <2>2, Zenon DEF ShutdownStop, Current, Inv, Running
    <2> QED
        BY <2>1, <2>2
<1>4. /\ phase' = "stopped" /\ live' = "none" /\ poller' \in {"gone", poller}
      /\ UNCHANGED <<configured, offered, tickers, prices>> /\ poller # "starting"
    BY DEF ShutdownStop, Inv, Running
<1>5. Running'
    BY <1>2, <1>3, <1>4 DEF Running
<1>6. SimulatorAlone'
    BY <1>4 DEF ShutdownStop, Current, Inv, SimulatorAlone
<1> QED
    BY <1>1, <1>5, <1>6 DEF Inv

LEMMA InvStep == Inv /\ [Next]_vars => Inv'
<1> SUFFICES ASSUME Inv, [Next]_vars
             PROVE  Inv'
    OBVIOUS
<1>1. CASE UNCHANGED vars
    BY <1>1 DEF vars, Inv, Types, Dated, Running, SimulatorAlone
<1>2. CASE BootStep
    BY <1>2, StepBootSimulator, StepBootMassive, StepBootVerified, StepBootRejected
       DEF BootStep
<1>3. CASE PollStep
    BY <1>3, StepPollBeginAsk, StepPollLand, StepPollRejected, StepFailoverFails DEF PollStep
<1>4. CASE \E s \in Sources, t \in Spellings : AddTicker(s, t) \/ RemoveTicker(s, t)
    BY <1>4, StepAddTicker, StepRemoveTicker
<1> QED
    BY <1>1, <1>2, <1>3, <1>4, StepTick, StepEnd, StepShutdownStop DEF Next

-----------------------------------------------------------------------------
(* Theorems *)

LEMMA Invariance == Spec => []Inv
BY InvInit, InvStep, PTL DEF Spec

\* The sources' tickers and every price in the cache are canonical, and no price is
\* from a generation of its ticker that has not been.
THEOREM FeedTyped == Spec => []FeedTypeOK
<1>1. Inv => FeedTypeOK
    BY DEF Inv, Types, Dated, FeedTypeOK
<1> QED
    BY <1>1, Invariance, PTL

\* What app.state names runs and what runs it names, through boot, failover, failover
\* that fails and shutdown; the two sources never run together.
THEOREM NamedSourceRuns == Spec => []LiveSourceRuns
<1>1. Inv => LiveSourceRuns
    BY DEF Inv, Types, Running, LiveSourceRuns, Polling, Sources
<1> QED
    BY <1>1, Invariance, PTL

\* A process on the simulator has no price of a ticker it does not track.
THEOREM NoGhosts == Spec => []SimulatorLeavesNoGhost
<1>1. Inv => SimulatorLeavesNoGhost
    BY DEF Inv, SimulatorAlone, SimulatorLeavesNoGhost
<1> QED
    BY <1>1, Invariance, PTL
=============================================================================
