-------------------------------- MODULE Stream --------------------------------
(***************************************************************************)
(* GET /api/stream/prices: one generator per connected client              *)
(* (market/stream.py) over the price cache, the ring buffer of shocks      *)
(* (market/events.py) and the market status.                               *)
(*                                                                         *)
(* The generators, the simulator and the poller share one event loop: a    *)
(* step is the code between two points that suspend, which for a generator *)
(* are each yield, the disconnect test and the sleep.  A connection may be *)
(* lost at any of them; the browser then opens a new one.                  *)
(***************************************************************************)
EXTENDS Integers, SequencesExt

CONSTANTS
    Tickers,
    Clients,
    Statuses,        \* what a venue's status may be
    NoStatus,        \* None: the simulator has none
    Capacity,        \* EventLog's capacity
    Heartbeat,       \* heartbeat / interval, in rounds of the loop
    MaxOddities,     \* bound: evictions, changes of the status, raising providers
    MaxEvents,       \* bound: these, writes to the cache and shocks together
    MaxConnections   \* bound: connections of all clients together

ASSUME CapacityAssumption == Capacity \in Nat \ {0} /\ Heartbeat \in Nat \ {0}

VARIABLES
    prices,       \* PriceCache: ticker -> the write its price is from
    version,      \* PriceCache._version
    ring,         \* EventLog._events: the ids still kept
    nextId,       \* EventLog._next_id
    status,       \* what status_provider returns
    pc,           \* where each client's generator is
    local,        \* its local variables
    shocks,       \* the shocks each connection received, in order
    shown,        \* the status each connection was told last
    joined,       \* history: the first id each connection is entitled to
    lost,         \* history: ids the ring dropped before a connection read them
    quiet,        \* history: rounds since the connection last carried a byte
    oddities, connections

market == <<prices, version, ring, nextId, status>>
serving == <<pc, local, joined, lost, quiet, connections>>
client == <<shocks, shown>>
vars == <<prices, version, ring, nextId, status, pc, local, shocks, shown, joined,
          lost, quiet, oddities, connections>>

Fresh == [lastVersion |-> -1, lastStatus |-> NoStatus, cursor |-> 0,
          pending |-> <<>>, sent |-> FALSE, silent |-> 0]

NoPrices == [t \in {} |-> 0]

Init ==
    /\ prices = NoPrices
    /\ version = 0
    /\ ring = <<>> /\ nextId = 0
    /\ status \in Statuses \cup {NoStatus}
    /\ pc = [c \in Clients |-> "closed"]
    /\ local = [c \in Clients |-> Fresh]
    /\ shocks = [c \in Clients |-> <<>>]
    /\ shown = [c \in Clients |-> NoStatus]
    /\ joined = [c \in Clients |-> 0]
    /\ lost = [c \in Clients |-> {}]
    /\ quiet = [c \in Clients |-> 0]
    /\ oddities = 0 /\ connections = 0

-----------------------------------------------------------------------------
(* The market side: PriceCache.update and remove, EventLog.append *)

Room == version + nextId + oddities < MaxEvents
Odd == oddities < MaxOddities /\ Room

Update(t) ==
    /\ Room
    /\ prices' = [u \in DOMAIN prices \cup {t} |-> IF u = t THEN version + 1 ELSE prices[u]]
    /\ version' = version + 1
    /\ UNCHANGED <<ring, nextId, status, client, serving, oddities>>

\* A removal does not count as a new version.
Evict(t) ==
    /\ Odd /\ t \in DOMAIN prices
    /\ oddities' = oddities + 1
    /\ prices' = [u \in DOMAIN prices \ {t} |-> prices[u]]
    /\ UNCHANGED <<version, ring, nextId, status, client, serving>>

\* Mutant of Kept: a deque without maxlen.
KeptAll(ids) == ids

\* deque(maxlen=capacity): the oldest goes when there is no room.
Kept(ids) == IF Len(ids) > Capacity THEN Tail(ids) ELSE ids

\* The generator has taken its place in the log of shocks.
Reading(c) == pc[c] \notin {"closed", "opening"}

AppendShock ==
    /\ Room
    /\ ring' = Kept(Append(ring, nextId))
    /\ nextId' = nextId + 1
    /\ lost' = [c \in Clients |->
                   lost[c] \cup {id \in Range(ring) \ Range(ring') :
                                    Reading(c) /\ id >= local[c].cursor}]
    /\ UNCHANGED <<prices, version, status, pc, local, client, joined, quiet, oddities,
                   connections>>

ChangeStatus(s) ==
    /\ Odd /\ s # status
    /\ oddities' = oddities + 1
    /\ status' = s
    /\ UNCHANGED <<prices, version, ring, nextId, client, serving>>

-----------------------------------------------------------------------------
(* The generator of one connection *)

\* Mutant of Since: the event the cursor stands for is left out.
SinceAfter(cursor) == SelectSeq(ring, LAMBDA id : id > cursor)
Since(cursor) ==
    LET fresh[i \in 0..Len(ring)] ==
            IF i = 0 THEN <<>>
            ELSE IF ring[i] >= cursor THEN Append(fresh[i - 1], ring[i])
            ELSE fresh[i - 1]
    IN  fresh[Len(ring)]

\* Mutant of CursorAtConnect: a new connection is given the backlog.
CursorAtConnectBacklog == 0
CursorAtConnect == nextId

\* The first frame is the retry line, and the generator suspends at it ...
Connect(c) ==
    /\ pc[c] = "closed"
    /\ connections < MaxConnections
    /\ connections' = connections + 1
    /\ pc' = [pc EXCEPT ![c] = "opening"]
    /\ UNCHANGED <<market, local, client, joined, lost, quiet, oddities>>

\* ... so that "now" is when it resumes, and not when the client connected.
Begin(c) ==
    /\ pc[c] = "opening"
    /\ local' = [local EXCEPT ![c].cursor = CursorAtConnect]
    /\ joined' = [joined EXCEPT ![c] = CursorAtConnect]
    /\ pc' = [pc EXCEPT ![c] = "prices"]
    /\ UNCHANGED <<market, client, lost, quiet, oddities, connections>>

\* What a connection had is gone with it.
Disconnect(c) ==
    /\ pc[c] # "closed"
    /\ pc' = [pc EXCEPT ![c] = "closed"]
    /\ local' = [local EXCEPT ![c] = Fresh]
    /\ shocks' = [shocks EXCEPT ![c] = <<>>]
    /\ shown' = [shown EXCEPT ![c] = NoStatus]
    /\ joined' = [joined EXCEPT ![c] = 0]
    /\ lost' = [lost EXCEPT ![c] = {}]
    /\ quiet' = [quiet EXCEPT ![c] = 0]
    /\ UNCHANGED <<market, oddities, connections>>

\* The frame carries the whole cache.
Framed(c) == version # local[c].lastVersion /\ DOMAIN prices # {}

\* 1. A price frame, if the version has moved and there is a price to send.
SendPrices(c) ==
    /\ pc[c] = "prices"
    /\ local' = [local EXCEPT ![c].lastVersion = version, ![c].sent = Framed(c)]
    /\ quiet' = IF Framed(c) THEN [quiet EXCEPT ![c] = 0] ELSE quiet
    /\ pc' = [pc EXCEPT ![c] = "shocks"]
    /\ UNCHANGED <<market, client, joined, lost, oddities, connections>>

\* Mutant of VersionAfterFrame: the version is noted once the frame is out.
VersionAfterFrameLater(c) == version
VersionAfterFrame(c) == local[c].lastVersion

\* 2. The shocks since the cursor ...
ReadShocks(c) ==
    /\ pc[c] = "shocks"
    /\ local' = [local EXCEPT ![c].pending = Since(local[c].cursor), ![c].cursor = nextId,
                              ![c].lastVersion = VersionAfterFrame(c)]
    /\ pc' = [pc EXCEPT ![c] = "sending"]
    /\ UNCHANGED <<market, client, joined, lost, quiet, oddities, connections>>

\* ... one frame each.
SendShock(c) ==
    /\ pc[c] = "sending" /\ local[c].pending # <<>>
    /\ shocks' = [shocks EXCEPT ![c] = Append(@, Head(local[c].pending))]
    /\ local' = [local EXCEPT ![c].pending = Tail(@), ![c].sent = TRUE]
    /\ quiet' = [quiet EXCEPT ![c] = 0]
    /\ UNCHANGED <<market, pc, shown, joined, lost, oddities, connections>>

\* Mutant of StatusMoved: None is taken for "nothing to say".
StatusMovedToValue(c) == status # NoStatus /\ status # local[c].lastStatus
StatusMoved(c) == status # local[c].lastStatus

\* Mutant of Silence: the clock restarts whether or not anything was sent.
SilenceAlwaysReset(c, sent) == 0
Silence(c, sent) == IF sent THEN 0 ELSE local[c].silent

\* 3. A status frame on a transition; 4. a heartbeat when nothing else went out for
\* long enough.  The provider may raise, which leaves the status for the next round.
SendStatus(c) ==
    /\ pc[c] = "sending" /\ local[c].pending = <<>>
    /\ \E raised \in BOOLEAN :
          LET told   == ~raised /\ StatusMoved(c)
              silent == Silence(c, local[c].sent \/ told)
              beat   == silent >= Heartbeat
          IN  /\ raised => Odd
              /\ oddities' = IF raised THEN oddities + 1 ELSE oddities
              /\ shown' = IF told THEN [shown EXCEPT ![c] = status] ELSE shown
              /\ local' = [local EXCEPT ![c].lastStatus = IF told THEN status ELSE @,
                                        ![c].sent = FALSE,
                                        ![c].silent = IF beat THEN 0 ELSE silent]
              /\ quiet' = IF told \/ beat THEN [quiet EXCEPT ![c] = 0] ELSE quiet
    /\ pc' = [pc EXCEPT ![c] = "asleep"]
    /\ UNCHANGED <<market, shocks, joined, lost, connections>>

Wake(c) ==
    /\ pc[c] = "asleep"
    /\ local' = [local EXCEPT ![c].silent = @ + 1]
    /\ quiet' = [quiet EXCEPT ![c] = @ + 1]
    /\ pc' = [pc EXCEPT ![c] = "prices"]
    /\ UNCHANGED <<market, client, joined, lost, oddities, connections>>

-----------------------------------------------------------------------------
Round(c) ==
    \/ Begin(c)
    \/ SendPrices(c) \/ ReadShocks(c) \/ SendShock(c) \/ SendStatus(c) \/ Wake(c)

Next ==
    \/ \E t \in Tickers : Update(t) \/ Evict(t)
    \/ AppendShock
    \/ \E s \in Statuses \cup {NoStatus} : ChangeStatus(s)
    \/ \E c \in Clients : Connect(c) \/ Disconnect(c) \/ Round(c)

\* An open connection is served: the loop runs and the client reads.
Fairness == \A c \in Clients : WF_vars(Round(c))

Spec == Init /\ [][Next]_vars /\ Fairness

-----------------------------------------------------------------------------
(* Properties *)

Connected(c) == pc[c] # "closed"

\* Types, and the ring: the newest ids without a gap, never more than its capacity.
StreamTypeOK ==
    /\ DOMAIN prices \subseteq Tickers
    /\ status \in Statuses \cup {NoStatus}
    /\ shown \in [Clients -> Statuses \cup {NoStatus}]
    /\ Len(ring) <= Capacity
    /\ ring = [i \in 1..Len(ring) |-> nextId - Len(ring) + i - 1]

\* What a connection has read of the shocks is everything since it began, each
\* once and in order, except what the ring had to drop before it came round: no
\* client consumes another one's events.
ShocksInOrder ==
    \A c \in Clients : Connected(c) =>
        LET read == shocks[c] \o local[c].pending
        IN  /\ Range(read) = (joined[c]..(local[c].cursor - 1)) \ lost[c]
            /\ \A i \in 1..(Len(read) - 1) : read[i] < read[i + 1]

\* A connection carries something at least every heartbeat, so that no proxy takes
\* it for dead while the market is quiet.
NeverSilent == \A c \in Clients : Connected(c) => quiet[c] <= Heartbeat

\* A client that stays connected ends up with the market status, the change to None
\* of a failover included.
StatusReachesClient == \A c \in Clients : <>[](Connected(c) => shown[c] = status)
=============================================================================
