--------------------------- MODULE PriceStreamProofs ---------------------------
(***************************************************************************)
(* Theorems about the stream and its page, for every set of tickers,       *)
(* connections and statuses, every capacity, heartbeat, grace period and   *)
(* stall limit, and any number of events, connections and retries.         *)
(***************************************************************************)
EXTENDS PriceStream, WellFoundedInduction, SequenceTheorems, TLAPS

-----------------------------------------------------------------------------
(* The dot *)

\* What the page's connection state is made of; age is Never or a number of seconds.
PageTypes ==
    /\ source \in Clients \cup Waiting
    /\ dot \in {"connecting", "connected", "reconnecting", "disconnected"}
    /\ escalation \in Nat
    /\ age \in Nat \cup {Never}

DotInv == PageTypes /\ StatusIsHonest

LEMMA DotInit == PageInit => DotInv
BY PageAssumption, SourceAssumption
   DEF PageInit, DotInv, PageTypes, StatusIsHonest, Waiting, Off, Never

\* onopen, onerror and the timer, the three that move the dot.
LEMMA DotOpen ==
    ASSUME DotInv, NEW c \in Clients, Open(c)
    PROVE  DotInv'
BY PageAssumption, SourceAssumption
   DEF DotInv, PageTypes, StatusIsHonest, Open, EscalationAfterOpen, feed, Off, Waiting

LEMMA DotFail ==
    ASSUME DotInv, NEW readyState \in Waiting, Fail(readyState)
    PROVE  DotInv'
BY PageAssumption, SourceAssumption
   DEF DotInv, PageTypes, StatusIsHonest, Fail, EscalationAfterError, AlreadyRed, feed, Off,
       Waiting

LEMMA DotClock ==
    ASSUME DotInv, Clock
    PROVE  DotInv'
<1>1. CASE Check
    <2>1. PageTypes'
        BY <1>1, PageAssumption, SourceAssumption DEF DotInv, PageTypes, Check, Off, Never
    <2>2. escalation' # Off <=> escalation # Off
        BY <1>1 DEF DotInv, PageTypes, Check, Off
    <2>3. stalled' => age' > StallAfter
        BY <1>1, Zenon DEF Check
    <2> QED
        BY <1>1, <2>1, <2>2, <2>3 DEF DotInv, StatusIsHonest, Check
<1>2. CASE Escalate
    BY <1>2, PageAssumption, SourceAssumption
       DEF DotInv, PageTypes, StatusIsHonest, Escalate, feed, Off, Waiting
<1> QED
    BY <1>1, <1>2 DEF Clock

LEMMA DotServe ==
    ASSUME DotInv, NEW c \in Clients, Serve(c)
    PROVE  DotInv'
<1>1. CASE ReceivePrices(c)
    BY <1>1, PageAssumption, SourceAssumption
       DEF DotInv, PageTypes, StatusIsHonest, ReceivePrices, StalledAfterFrame, feed,
           connection
<1>2. CASE ReceiveShock(c)
    BY <1>2 DEF DotInv, PageTypes, StatusIsHonest, ReceiveShock, feed, connection
<1>3. CASE UNCHANGED page
    BY <1>3 DEF DotInv, PageTypes, StatusIsHonest, page
<1> QED
    BY <1>1, <1>2, <1>3 DEF Serve

LEMMA DotRemount ==
    ASSUME Remount
    PROVE  DotInv'
BY PageAssumption, SourceAssumption
   DEF DotInv, PageTypes, StatusIsHonest, Remount, Waiting, Off, Never

LEMMA DotStep == DotInv /\ [PageNext]_pageVars => DotInv'
<1> SUFFICES ASSUME DotInv, [PageNext]_pageVars
             PROVE  DotInv'
    OBVIOUS
<1>1. CASE UNCHANGED page
    BY <1>1 DEF DotInv, PageTypes, StatusIsHonest, page
<1>2. CASE \E c \in Clients : Serve(c)
    BY <1>2, DotServe
<1>3. CASE Attempt
    <2>1. CASE AttemptFails
        BY <2>1, DotFail DEF AttemptFails, Waiting
    <2>2. CASE \E c \in Clients : pc[c] = "closed"
                   /\ Open(CHOOSE d \in Clients : pc[d] = "closed")
        BY <2>2, DotOpen
    <2> QED
        BY <1>3, <2>1, <2>2 DEF Attempt
<1>4. CASE Drop
    BY <1>4, DotFail DEF Drop, Waiting
<1>5. CASE Clock
    BY <1>5, DotClock
<1>6. CASE Remount
    BY <1>6, DotRemount
<1> QED
    BY <1>1, <1>2, <1>3, <1>4, <1>5, <1>6 DEF PageNext, pageVars

\* The dot never contradicts the connection, whatever fails, retries or is reloaded
\* and in whatever order timers and events come.
THEOREM HonestStatus == PageSpec => []StatusIsHonest
<1>1. DotInv => StatusIsHonest
    BY DEF DotInv
<1> QED
    BY <1>1, DotInit, DotStep, PTL DEF PageSpec

-----------------------------------------------------------------------------
(* The heartbeat *)

\* What a generator's counter of silent rounds has to do with the rounds its connection
\* has really been silent.  The counter may run ahead (a shock clears quiet at once and
\* the counter at the end of the round) and never falls behind; while a frame of this
\* round is out there has been no silence; and a generator goes to sleep with room for
\* one more round.
Beats(c) ==
    /\ DOMAIN local[c] = DOMAIN Fresh
    /\ local[c].sent \in BOOLEAN /\ local[c].silent \in Nat /\ quiet[c] \in Nat
    /\ quiet[c] <= local[c].silent /\ local[c].silent <= Heartbeat
    /\ local[c].sent = TRUE => quiet[c] = 0
    /\ pc[c] = "asleep" => local[c].sent = FALSE /\ local[c].silent < Heartbeat

BeatInv ==
    /\ DOMAIN pc = Clients /\ DOMAIN local = Clients /\ DOMAIN quiet = Clients
    /\ \A c \in Clients : Beats(c)

LEMMA BeatInit == Init => BeatInv
<1> SUFFICES ASSUME Init, NEW c \in Clients
             PROVE  Beats(c)
    BY DEF Init, BeatInv
<1>1. local[c] = Fresh /\ quiet[c] = 0 /\ pc[c] = "closed"
    BY DEF Init
<1> QED
    BY <1>1, CapacityAssumption DEF Beats, Fresh

\* A step of one connection leaves the others as they were.
LEMMA Others ==
    ASSUME BeatInv, NEW c \in Clients,
           DOMAIN pc' = Clients, DOMAIN local' = Clients, DOMAIN quiet' = Clients,
           \A d \in Clients \ {c} :
               pc'[d] = pc[d] /\ local'[d] = local[d] /\ quiet'[d] = quiet[d],
           Beats(c)'
    PROVE  BeatInv'
BY DEF BeatInv, Beats

LEMMA BeatConnect ==
    ASSUME BeatInv, NEW c \in Clients, Connect(c)
    PROVE  BeatInv'
<1>1. Beats(c)'
    BY DEF BeatInv, Beats, Connect, Fresh
<1> QED
    BY <1>1, Others DEF BeatInv, Connect

LEMMA BeatBegin ==
    ASSUME BeatInv, NEW c \in Clients, Begin(c)
    PROVE  BeatInv'
<1>1. Beats(c)'
    BY DEF BeatInv, Beats, Begin, Fresh
<1> QED
    BY <1>1, Others DEF BeatInv, Begin

LEMMA BeatDisconnect ==
    ASSUME BeatInv, NEW c \in Clients, Disconnect(c)
    PROVE  BeatInv'
<1>1. Beats(c)'
    BY CapacityAssumption DEF BeatInv, Beats, Disconnect, Fresh
<1> QED
    BY <1>1, Others DEF BeatInv, Disconnect

LEMMA BeatSendPrices ==
    ASSUME BeatInv, NEW c \in Clients, SendPrices(c)
    PROVE  BeatInv'
<1>1. Framed(c) \in BOOLEAN
    BY DEF Framed
<1>2. Beats(c)'
    <2>1. CASE Framed(c)
        BY <2>1, <1>1 DEF BeatInv, Beats, SendPrices, Fresh
    <2>2. CASE ~Framed(c)
        BY <2>2, <1>1 DEF BeatInv, Beats, SendPrices, Fresh
    <2> QED
        BY <2>1, <2>2
<1>3. \A d \in Clients \ {c} : quiet'[d] = quiet[d]
    BY DEF BeatInv, SendPrices
<1> QED
    BY <1>2, <1>3, Others DEF BeatInv, SendPrices

LEMMA BeatReadShocks ==
    ASSUME BeatInv, NEW c \in Clients, ReadShocks(c)
    PROVE  BeatInv'
<1>1. Beats(c)'
    BY DEF BeatInv, Beats, ReadShocks, Fresh
<1> QED
    BY <1>1, Others DEF BeatInv, ReadShocks

LEMMA BeatSendShock ==
    ASSUME BeatInv, NEW c \in Clients, SendShock(c)
    PROVE  BeatInv'
<1>1. Beats(c)'
    BY DEF BeatInv, Beats, SendShock, Fresh
<1> QED
    BY <1>1, Others DEF BeatInv, SendShock

LEMMA BeatWake ==
    ASSUME BeatInv, NEW c \in Clients, Wake(c)
    PROVE  BeatInv'
<1>1. Beats(c)'
    BY CapacityAssumption DEF BeatInv, Beats, Wake, Fresh
<1> QED
    BY <1>1, Others DEF BeatInv, Wake

\* The end of a round is where the two clocks meet: whatever goes out clears both, and
\* a heartbeat goes out when the counter is full.
LEMMA BeatSendStatus ==
    ASSUME BeatInv, NEW c \in Clients, SendStatus(c)
    PROVE  BeatInv'
<1>1. PICK raised \in BOOLEAN :
          LET told   == ~raised /\ StatusMoved(c)
              silent == Silence(c, local[c].sent \/ told)
              beat   == silent >= Heartbeat
          IN  /\ local' = [local EXCEPT ![c].lastStatus = IF told THEN status ELSE @,
                                        ![c].sent = FALSE,
                                        ![c].silent = IF beat THEN 0 ELSE silent]
              /\ quiet' = IF told \/ beat THEN [quiet EXCEPT ![c] = 0] ELSE quiet
    BY DEF SendStatus
<1> DEFINE told   == ~raised /\ StatusMoved(c)
           silent == Silence(c, local[c].sent \/ told)
           beat   == silent >= Heartbeat
<1>2. /\ DOMAIN local' = Clients /\ \A d \in Clients \ {c} : local'[d] = local[d]
      /\ DOMAIN local'[c] = DOMAIN Fresh
      /\ local'[c].sent = FALSE
    BY <1>1 DEF BeatInv, Beats, Fresh
<1>3. local'[c].silent = IF beat THEN 0 ELSE silent
    BY <1>1 DEF BeatInv, Beats, Fresh
<1>4. /\ DOMAIN quiet' = Clients /\ \A d \in Clients \ {c} : quiet'[d] = quiet[d]
      /\ quiet'[c] = IF told \/ beat THEN 0 ELSE quiet[c]
    BY <1>1 DEF BeatInv
<1>5. pc' = [pc EXCEPT ![c] = "asleep"]
    BY DEF SendStatus
<1>6. /\ silent \in Nat /\ silent <= Heartbeat
      /\ told \/ quiet[c] <= silent
    BY CapacityAssumption DEF BeatInv, Beats, Silence
<1> HIDE DEF told, silent, beat
<1>7. quiet[c] \in Nat
    BY DEF BeatInv, Beats
<1>8. Beats(c)'
    <2>1. CASE beat
        <3>1. quiet'[c] = 0 /\ local'[c].silent = 0
            BY <2>1, <1>3, <1>4, Zenon
        <3>2. 0 \in Nat /\ 0 <= 0 /\ 0 <= Heartbeat /\ 0 < Heartbeat /\ FALSE \in BOOLEAN
            BY CapacityAssumption
        <3> QED
            BY <3>1, <3>2, <1>2, Zenon DEF Beats
    <2>2. CASE ~beat
        <3>1. silent < Heartbeat
            BY <2>2, <1>6, CapacityAssumption DEF beat
        <3>2. quiet'[c] \in Nat /\ quiet'[c] <= silent
            BY <2>2, <1>4, <1>6, <1>7
        <3> QED
            BY <2>2, <3>1, <3>2, <1>3, <1>2, <1>6, CapacityAssumption DEF Beats
    <2> QED
        BY <2>1, <2>2
<1> QED
    BY <1>2, <1>4, <1>5, <1>8, Others DEF BeatInv

LEMMA BeatStep == BeatInv /\ [PageNext]_pageVars => BeatInv'
<1> SUFFICES ASSUME BeatInv, [PageNext]_pageVars
             PROVE  BeatInv'
    OBVIOUS
<1>1. CASE UNCHANGED serving
    BY <1>1 DEF BeatInv, Beats, serving
<1>2. CASE Market
    <2>1. UNCHANGED <<pc, local, quiet>>
        BY <1>2 DEF Market, Update, Evict, AppendShock, ChangeStatus, serving
    <2> QED
        BY <2>1 DEF BeatInv, Beats
<1>3. ASSUME NEW c \in Clients, Serve(c)
      PROVE  BeatInv'
    <2>1. \/ Begin(c)
          \/ SendPrices(c) \/ ReadShocks(c) \/ SendShock(c) \/ SendStatus(c) \/ Wake(c)
          \/ Disconnect(c)
        BY <1>3 DEF Serve, ReceivePrices, ReceiveShock, Unseen
    <2> QED
        BY <2>1, BeatBegin, BeatSendPrices, BeatReadShocks, BeatSendShock, BeatSendStatus, BeatWake,
           BeatDisconnect
<1>4. CASE Attempt
    <2>1. CASE AttemptFails
        BY <2>1, <1>1 DEF AttemptFails
    <2>2. ASSUME NEW c \in Clients, Open(c)
          PROVE  BeatInv'
        BY <2>2, BeatConnect DEF Open
    <2>3. CASE \E c \in Clients : pc[c] = "closed"
                   /\ Open(CHOOSE d \in Clients : pc[d] = "closed")
        BY <2>2, <2>3
    <2> QED
        BY <1>4, <2>1, <2>3 DEF Attempt
<1>5. CASE Drop
    BY <1>5, <1>1, BeatDisconnect DEF Drop, server
<1>6. CASE Clock \/ Remount
    BY <1>6, <1>1 DEF Clock, Check, Escalate, Remount, server
<1> QED
    BY <1>1, <1>2, <1>3, <1>4, <1>5, <1>6 DEF PageNext, pageVars, server

\* No connection, heard or abandoned, is left without a byte for longer than the
\* heartbeat, however market, status and failing providers are timed.
THEOREM SteadyHeartbeat == PageSpec => []NeverSilent
<1>1. PageInit => BeatInv
    BY BeatInit DEF PageInit
<1>2. BeatInv => NeverSilent
    BY CapacityAssumption DEF BeatInv, Beats, NeverSilent
<1> QED
    BY <1>1, <1>2, BeatStep, PTL DEF PageSpec

-----------------------------------------------------------------------------
(* The ring *)

\* The ids from first to last, each once and in order.
Run(first, last) == [k \in 1..(last - first + 1) |-> first + k - 1]

LEMMA RunTyped ==
    ASSUME NEW first \in Int, NEW last \in Int, first <= last + 1
    PROVE  /\ Run(first, last) \in Seq(Int)
           /\ Len(Run(first, last)) = last - first + 1
           /\ DOMAIN Run(first, last) = 1..(last - first + 1)
           /\ \A k \in 1..(last - first + 1) : Run(first, last)[k] = first + k - 1
<1> DEFINE n == last - first + 1
<1>1. n \in Nat
    OBVIOUS
<1>2. Run(first, last) \in [1..n -> Int]
    BY DEF Run
<1>3. Run(first, last) \in Seq(Int) /\ Len(Run(first, last)) = n
    BY <1>1, <1>2, SeqDef
<1> QED
    BY <1>3 DEF Run

LEMMA RunEmpty ==
    ASSUME NEW first \in Int, NEW last \in Int, last < first
    PROVE  Run(first, last) = <<>>
<1>1. 1..(last - first + 1) = {}
    OBVIOUS
<1>2. Run(first, last) \in [{} -> Int]
    BY <1>1 DEF Run
<1>3. Run(first, last) \in Seq(Int) /\ Len(Run(first, last)) = 0
    BY <1>1, <1>2, SeqDef
<1> QED
    BY <1>3

LEMMA RunAppend ==
    ASSUME NEW first \in Int, NEW last \in Int, first <= last
    PROVE  Append(Run(first, last - 1), last) = Run(first, last)
<1>1. /\ Run(first, last - 1) \in Seq(Int) /\ Len(Run(first, last - 1)) = last - first
      /\ \A k \in 1..(last - first) : Run(first, last - 1)[k] = first + k - 1
    BY RunTyped, last - 1 \in Int
<1>2. /\ Run(first, last) \in Seq(Int) /\ Len(Run(first, last)) = last - first + 1
      /\ \A k \in 1..(last - first + 1) : Run(first, last)[k] = first + k - 1
    BY RunTyped
<1> DEFINE a == Run(first, last - 1)
           b == Run(first, last)
<1> HIDE DEF a, b
<1>3. Append(a, last) \in Seq(Int) /\ Len(Append(a, last)) = last - first + 1
    BY <1>1 DEF a
<1>4. \A k \in 1..(last - first + 1) : Append(a, last)[k] = first + k - 1
    BY <1>1 DEF a
<1>5. Append(a, last) = b
    <2>1. b \in Seq(Int) /\ Len(b) = last - first + 1
          /\ \A k \in 1..(last - first + 1) : b[k] = first + k - 1
        BY <1>2 DEF b
    <2> QED
        BY <1>3, <1>4, <2>1, SeqEqual
<1> QED
    BY <1>5 DEF a, b

\* A property of natural numbers that fails somewhere fails first somewhere.
LEMMA LeastFailure ==
    ASSUME NEW Bad \in SUBSET Nat, Bad # {}
    PROVE  \E m \in Bad : \A k \in 0..(m - 1) : k \notin Bad
<1>1. PICK m \in Bad : \A k \in Bad : ~ (<<k, m>> \in OpToRel(<, Nat))
    BY NatLessThanWellFounded, WFMin
<1>2. \A k \in 0..(m - 1) : k \in Nat /\ k < m
    OBVIOUS
<1>3. \A k \in Bad : ~ (k < m)
    BY <1>1 DEF OpToRel
<1> QED
    BY <1>2, <1>3

\* The ring as StreamTypeOK has it: the newest ids, up to the last one given.
RingOK ==
    /\ nextId \in Nat /\ Len(ring) \in Nat
    /\ Len(ring) <= Capacity /\ Len(ring) <= nextId
    /\ ring = Run(nextId - Len(ring), nextId - 1)

\* What EventLog.since keeps of such a ring: a run of its own, from the cursor on.
LEMMA SinceIsRun ==
    ASSUME RingOK, NEW cursor \in Nat
    PROVE  Since(cursor) = Run(IF cursor > nextId - Len(ring) THEN cursor
                               ELSE nextId - Len(ring), nextId - 1)
<1> DEFINE N == Len(ring)
           base == nextId - N
           first == IF cursor > base THEN cursor ELSE base
           fresh[i \in 0..N] ==
               IF i = 0 THEN <<>>
               ELSE IF ring[i] >= cursor THEN Append(fresh[i - 1], ring[i])
               ELSE fresh[i - 1]
           runs == [i \in 0..N |-> Run(first, base + i - 1)]
<1>0. N \in Nat /\ nextId \in Nat /\ base \in Nat /\ first \in Nat /\ base <= first
      /\ base + N = nextId
    BY DEF RingOK
<1>1. \A i \in 1..N : ring[i] = base + i - 1
    <2>1. nextId - 1 \in Int /\ (nextId - 1) - base + 1 = N /\ base <= (nextId - 1) + 1
        BY <1>0
    <2>2. \A k \in 1..((nextId - 1) - base + 1) : Run(base, nextId - 1)[k] = base + k - 1
        BY <1>0, <2>1, RunTyped, SMTT(30)
    <2>3. ring = Run(base, nextId - 1)
        BY DEF RingOK
    <2> QED
        BY <2>1, <2>2, <2>3
<1>2. Since(cursor) = fresh[N]
    BY DEF Since
<1> HIDE DEF N, base
<1>3. \A i \in 1..N : Run(first, base + i - 1) =
          IF ring[i] >= cursor THEN Append(Run(first, base + (i - 1) - 1), ring[i])
          ELSE Run(first, base + (i - 1) - 1)
    <2> SUFFICES ASSUME NEW i \in 1..N
                 PROVE  Run(first, base + i - 1) =
                          IF ring[i] >= cursor
                          THEN Append(Run(first, base + (i - 1) - 1), ring[i])
                          ELSE Run(first, base + (i - 1) - 1)
        OBVIOUS
    <2> DEFINE id == base + i - 1
    <2>1. id \in Int /\ ring[i] = id /\ base + (i - 1) - 1 = id - 1 /\ base <= id
        BY <1>0, <1>1
    <2> HIDE DEF id
    <2>2. CASE id >= cursor
        <3>1. first <= id
            BY <2>1, <2>2
        <3>2. Append(Run(first, id - 1), id) = Run(first, id)
            <4>1. first \in Int
                BY <1>0
            <4> HIDE DEF first
            <4> QED
                BY <2>1, <3>1, <4>1, RunAppend
        <3> QED
            BY <2>1, <2>2, <3>2 DEF id
    <2>3. CASE ~(id >= cursor)
        <3>1. id < first /\ id - 1 < first /\ id - 1 \in Int
            BY <1>0, <2>1, <2>3
        <3>2. Run(first, id) = <<>> /\ Run(first, id - 1) = <<>>
            BY <1>0, <2>1, <3>1, RunEmpty
        <3> QED
            BY <2>1, <2>3, <3>2 DEF id
    <2> QED
        BY <2>2, <2>3
<1>4. Run(first, base + 0 - 1) = <<>>
    <2>1. base + 0 - 1 \in Int /\ base + 0 - 1 < first
        BY <1>0
    <2> QED
        BY <1>0, <2>1, RunEmpty
<1>5. runs = [i \in 0..N |-> IF i = 0 THEN <<>>
                             ELSE IF ring[i] >= cursor THEN Append(runs[i - 1], ring[i])
                             ELSE runs[i - 1]]
    <2>1. \A i \in 1..N : i - 1 \in 0..N
        BY <1>0
    <2>2. \A i \in 0..N : i # 0 => i \in 1..N
        BY <1>0
    <2> HIDE DEF first
    <2> QED
        BY <1>3, <1>4, <2>1, <2>2
<1>6. fresh = [i \in 0..N |-> IF i = 0 THEN <<>>
                              ELSE IF ring[i] >= cursor THEN Append(fresh[i - 1], ring[i])
                              ELSE fresh[i - 1]]
    <2>1. \E x : x = [i \in 0..N |-> IF i = 0 THEN <<>>
                              ELSE IF ring[i] >= cursor THEN Append(x[i - 1], ring[i])
                              ELSE x[i - 1]]
        BY <1>5
    <2> QED
        BY <2>1
<1> HIDE DEF fresh, runs
<1>7. \A i \in 0..N : fresh[i] = runs[i]
    <2> DEFINE Bad == {i \in 0..N : fresh[i] # runs[i]}
    <2>1. SUFFICES ASSUME Bad # {}
                   PROVE  FALSE
        OBVIOUS
    <2>2. PICK m \in Bad : \A k \in 0..(m - 1) : k \notin Bad
        <3>1. Bad \in SUBSET Nat
            BY <1>0
        <3> QED
            BY <2>1, <3>1, LeastFailure
    <2>3. m \in 1..N /\ m - 1 \in 0..N
        <3>1. 0 \in 0..N
            BY <1>0
        <3>2. fresh[0] = <<>> /\ runs[0] = <<>>
            BY <1>5, <1>6, <3>1
        <3>3. m \in 0..N /\ m # 0
            BY <3>2
        <3> QED
            BY <1>0, <3>3
    <2>4. fresh[m - 1] = runs[m - 1]
        BY <2>2, <2>3
    <2>5. m \in 0..N /\ m # 0
        BY <2>3, <1>0
    <2>6. fresh[m] = IF ring[m] >= cursor THEN Append(fresh[m - 1], ring[m]) ELSE fresh[m - 1]
        BY <1>6, <2>5
    <2>7. runs[m] = IF ring[m] >= cursor THEN Append(runs[m - 1], ring[m]) ELSE runs[m - 1]
        BY <1>5, <2>5
    <2> QED
        BY <2>4, <2>6, <2>7
<1>8. runs[N] = Run(first, nextId - 1)
    <2>1. N \in 0..N /\ base + N - 1 = nextId - 1
        BY <1>0
    <2> QED
        BY <2>1 DEF runs
<1>9. N \in 0..N
    BY <1>0
<1> QED
    BY <1>2, <1>7, <1>8, <1>9 DEF base, N

LEMMA RunTail ==
    ASSUME NEW first \in Int, NEW last \in Int, first <= last
    PROVE  Tail(Run(first, last)) = Run(first + 1, last)
<1> DEFINE a == Run(first, last)
           b == Run(first + 1, last)
<1>1. /\ a \in Seq(Int) /\ Len(a) = last - first + 1
      /\ \A k \in 1..(last - first + 1) : a[k] = first + k - 1
    BY RunTyped
<1>2. /\ b \in Seq(Int) /\ Len(b) = last - first
      /\ \A k \in 1..(last - first) : b[k] = first + k
    <2>1. /\ first + 1 \in Int /\ first + 1 <= last + 1
          /\ last - (first + 1) + 1 = last - first
        OBVIOUS
    <2>2. \A k \in Int : (first + 1) + k - 1 = first + k
        OBVIOUS
    <2>3. /\ b \in Seq(Int) /\ Len(b) = last - (first + 1) + 1
          /\ \A k \in 1..(last - (first + 1) + 1) : b[k] = (first + 1) + k - 1
        BY <2>1, RunTyped
    <2> HIDE DEF b
    <2> QED
        BY <2>1, <2>2, <2>3
<1> HIDE DEF a, b
<1>3. a # <<>>
    BY <1>1
<1>4. Tail(a) \in Seq(Int) /\ Len(Tail(a)) = last - first
    BY <1>1, <1>3
<1>5. \A k \in 1..(last - first) : Tail(a)[k] = first + k
    BY <1>1, <1>3
<1>6. Tail(a) = b
    BY <1>2, <1>4, <1>5, SeqEqual
<1> QED
    BY <1>6 DEF a, b

LEMMA RunRange ==
    ASSUME NEW first \in Int, NEW last \in Int, first <= last + 1
    PROVE  Range(Run(first, last)) = first..last
<1> DEFINE a == Run(first, last)
<1>1. /\ DOMAIN a = 1..(last - first + 1)
      /\ \A k \in 1..(last - first + 1) : a[k] = first + k - 1
    BY RunTyped
<1> HIDE DEF a
<1>2. \A x \in first..last : x - first + 1 \in 1..(last - first + 1)
                             /\ first + (x - first + 1) - 1 = x
    OBVIOUS
<1>3. \A k \in 1..(last - first + 1) : first + k - 1 \in first..last
    OBVIOUS
<1>4. Range(a) \subseteq first..last
    <2>1. \A x \in Range(a) : \E k \in 1..(last - first + 1) : x = a[k]
        BY <1>1 DEF Range
    <2> QED
        BY <1>1, <1>3, <2>1
<1>5. first..last \subseteq Range(a)
    <2> SUFFICES ASSUME NEW x \in first..last
                 PROVE  \E k \in DOMAIN a : x = a[k]
        BY DEF Range
    <2>1. x - first + 1 \in DOMAIN a /\ a[x - first + 1] = x
        BY <1>1, <1>2
    <2> QED
        BY <2>1
<1> QED
    BY <1>4, <1>5 DEF a

\* deque.append: the new id at the end, and the oldest out when there is no room.
LEMMA RingAppend ==
    ASSUME RingOK, ring' = Kept(Append(ring, nextId)), nextId' = nextId + 1
    PROVE  /\ RingOK'
           /\ nextId' - Len(ring') \in {nextId - Len(ring), nextId - Len(ring) + 1}
           /\ nextId' - Len(ring') <= nextId
<1> DEFINE N == Len(ring)
           base == nextId - N
<1>0. N \in Nat /\ nextId \in Nat /\ base \in Nat /\ N <= Capacity /\ Capacity \in Nat \ {0}
      /\ base <= nextId /\ base + N = nextId /\ ring = Run(base, nextId - 1)
    BY CapacityAssumption DEF RingOK
<1> HIDE DEF N, base
<1>5. base \in Int /\ nextId \in Int /\ base <= nextId
    BY <1>0
<1>1. Append(ring, nextId) = Run(base, nextId)
    <2>1. Append(Run(base, nextId - 1), nextId) = Run(base, nextId)
        BY ONLY <1>5, RunAppend
    <2> QED
        BY <1>0, <2>1
<1>2. Len(Run(base, nextId)) = N + 1
    <2>1. nextId - base + 1 = N + 1 /\ base <= nextId + 1
        BY <1>0
    <2> QED
        BY ONLY <1>5, <2>1, RunTyped
<1>3. CASE N + 1 > Capacity
    <2>1. ring' = Run(base + 1, nextId)
        <3>1. ring' = Tail(Run(base, nextId))
            BY <1>1, <1>2, <1>3 DEF Kept
        <3> QED
            BY ONLY <1>5, <3>1, RunTail
    <2>2. Len(ring') = N
        <3>1. nextId - (base + 1) + 1 = N /\ base + 1 <= nextId + 1 /\ base + 1 \in Int
            BY <1>0
        <3> QED
            BY <1>0, <2>1, <3>1, RunTyped
    <2>3. nextId' - N = base + 1 /\ nextId' - 1 = nextId /\ base + 1 <= nextId
          /\ nextId' \in Nat /\ N <= nextId'
        BY <1>0, <1>3
    <2> QED
        BY <1>0, <2>1, <2>2, <2>3 DEF RingOK, base, N
<1>4. CASE ~(N + 1 > Capacity)
    <2>1. ring' = Run(base, nextId)
        BY <1>1, <1>2, <1>4 DEF Kept
    <2>2. Len(ring') = N + 1
        BY <1>2, <2>1
    <2>3. nextId' - (N + 1) = base /\ nextId' - 1 = nextId /\ nextId' \in Nat /\ N + 1 <= nextId'
          /\ N + 1 <= Capacity /\ N + 1 \in Nat
        BY <1>0, <1>4
    <2> QED
        BY <1>0, <2>1, <2>2, <2>3 DEF RingOK, base, N
<1> QED
    BY <1>3, <1>4

\* A step of the page and its streams is one of the streams, or none of their business.
LEMMA ServerCases ==
    ASSUME [PageNext]_pageVars
    PROVE  Next \/ UNCHANGED <<market, serving, client>>
<1>1. CASE Market
    BY <1>1 DEF Market, Next
<1>2. ASSUME NEW c \in Clients, Serve(c)
      PROVE  Next \/ UNCHANGED <<market, serving, client>>
    BY <1>2 DEF Serve, ReceivePrices, ReceiveShock, Unseen, Next, Round
<1>3. CASE Attempt
    <2>1. CASE AttemptFails
        BY <2>1 DEF AttemptFails
    <2>2. CASE \E c \in Clients : pc[c] = "closed"
                   /\ Open(CHOOSE d \in Clients : pc[d] = "closed")
        BY <2>2 DEF Open, Next
    <2> QED
        BY <1>3, <2>1, <2>2 DEF Attempt
<1>4. CASE Drop
    BY <1>4 DEF Drop, Next, server
<1>5. CASE Clock \/ Remount
    BY <1>5 DEF Clock, Check, Escalate, Remount, server
<1>6. CASE UNCHANGED pageVars
    BY <1>6 DEF pageVars, server
<1> QED
    BY <1>1, <1>2, <1>3, <1>4, <1>5, <1>6 DEF PageNext

StreamTypes ==
    /\ DOMAIN prices \subseteq Tickers
    /\ status \in Statuses \cup {NoStatus}
    /\ shown \in [Clients -> Statuses \cup {NoStatus}]
    /\ RingOK

LEMMA StreamTypesInit == Init => StreamTypes
<1> SUFFICES ASSUME Init
             PROVE  StreamTypes
    OBVIOUS
<1>1. ring = <<>> /\ nextId = 0
    BY DEF Init
<1>2. Run(0 - 0, 0 - 1) = <<>>
    BY RunEmpty, 0 - 0 \in Int, 0 - 1 \in Int, 0 - 1 < 0 - 0
<1>3. RingOK
    BY <1>1, <1>2, CapacityAssumption DEF RingOK
<1> QED
    BY <1>3 DEF Init, StreamTypes, NoPrices

LEMMA StreamTypesStep ==
    ASSUME StreamTypes, Next \/ UNCHANGED <<market, serving, client>>
    PROVE  StreamTypes'
<1> USE DEF StreamTypes
<1>1. ASSUME NEW t \in Tickers, Update(t) \/ Evict(t)
      PROVE  StreamTypes'
    BY <1>1 DEF Update, Evict, client, RingOK
<1>2. CASE AppendShock
    BY <1>2, RingAppend DEF AppendShock, client
<1>3. ASSUME NEW s \in Statuses \cup {NoStatus}, ChangeStatus(s)
      PROVE  StreamTypes'
    BY <1>3 DEF ChangeStatus, client, RingOK
<1>4. ASSUME NEW c \in Clients, Connect(c) \/ Disconnect(c) \/ Round(c)
      PROVE  StreamTypes'
    <2>1. UNCHANGED market
        BY <1>4 DEF Connect, Begin, Disconnect, Round, SendPrices, ReadShocks, SendShock, SendStatus,
                    Wake
    <2>2. shown' \in [Clients -> Statuses \cup {NoStatus}]
        BY <1>4 DEF Connect, Begin, Disconnect, Round, SendPrices, ReadShocks, SendShock, SendStatus,
                    Wake, client
    <2> QED
        BY <2>1, <2>2 DEF market, RingOK
<1>5. CASE UNCHANGED <<market, serving, client>>
    BY <1>5 DEF market, client, RingOK
<1> QED
    BY <1>1, <1>2, <1>3, <1>4, <1>5 DEF Next

LEMMA StreamTypesHold == PageSpec => []StreamTypes
<1>1. PageInit => StreamTypes
    BY StreamTypesInit DEF PageInit
<1>2. StreamTypes /\ [PageNext]_pageVars => StreamTypes'
    BY ServerCases, StreamTypesStep
<1> QED
    BY <1>1, <1>2, PTL DEF PageSpec

\* The ring never outgrows its capacity and always holds the newest ids, without a gap.
THEOREM RingIsNewest == PageSpec => []StreamTypeOK
<1>1. StreamTypes => StreamTypeOK
    <2> SUFFICES ASSUME StreamTypes
                 PROVE  StreamTypeOK
        OBVIOUS
    <2>1. nextId - 1 - (nextId - Len(ring)) + 1 = Len(ring)
        BY DEF StreamTypes, RingOK
    <2>2. ring = [i \in 1..Len(ring) |-> nextId - Len(ring) + i - 1]
        BY <2>1 DEF StreamTypes, RingOK, Run
    <2> QED
        BY <2>2 DEF StreamTypes, RingOK, StreamTypeOK
<1> QED
    BY <1>1, StreamTypesHold, PTL

-----------------------------------------------------------------------------
(* What a connection reads of the shocks *)

Rising(ids) == \A i, j \in DOMAIN ids : i < j => ids[i] < ids[j]

Read(c) == shocks[c] \o local[c].pending

\* ids is what there was to read of from..last, in order, when gone was lost.
ReadAll(ids, from, last, gone) == Range(ids) = (from..last) \ gone /\ Rising(ids)

\* Of the ids from..last those below first are lost, and only those.
LostBelow(first, from, last, gone) == \A id \in from..last : id \in gone <=> id < first

\* A run of ids from the cursor on goes well behind what was read up to the cursor.
LEMMA ReadMore ==
    ASSUME NEW read \in Seq(Int), NEW from \in Int, NEW cursor \in Int, NEW first \in Int,
           NEW last \in Int, NEW gone, from <= cursor, cursor <= first, first <= last + 1,
           ReadAll(read, from, cursor - 1, gone), LostBelow(first, cursor, last, gone)
    PROVE  ReadAll(read \o Run(first, last), from, last, gone)
<1> DEFINE more == Run(first, last)
           all == read \o more
           n == Len(read)
           m == last - first + 1
<1>0. /\ Range(read) = (from..(cursor - 1)) \ gone
      /\ Rising(read)
      /\ \A id \in cursor..last : id \in gone <=> id < first
    BY DEF ReadAll, LostBelow
<1>1. /\ more \in Seq(Int) /\ Len(more) = m /\ DOMAIN more = 1..m
      /\ \A k \in 1..m : more[k] = first + k - 1
    BY RunTyped
<1>2. n \in Nat /\ m \in Nat /\ DOMAIN read = 1..n
    OBVIOUS
<1>3. Range(more) = first..last
    BY RunRange
<1> HIDE DEF more
<1>4. all \in Seq(Int) /\ Len(all) = n + m
    <2>1. all \in Seq(Int) /\ Len(all) = Len(read) + Len(more)
        BY <1>1, ConcatProperties, Zenon
    <2> QED
        BY <1>1, <2>1
<1>5. \A i \in 1..(n + m) : all[i] = IF i <= n THEN read[i] ELSE more[i - n]
    BY <1>1, ConcatProperties, SMTT(30)
<1>6. DOMAIN all = 1..(n + m)
    BY <1>4
<1> HIDE DEF all, n, m
<1>7. \A i \in 1..n : i \in 1..(n + m) /\ all[i] = read[i]
    BY <1>2, <1>5
<1>8. \A k \in 1..m : n + k \in 1..(n + m) /\ all[n + k] = more[k]
    <2> SUFFICES ASSUME NEW k \in 1..m
                 PROVE  n + k \in 1..(n + m) /\ all[n + k] = more[k]
        OBVIOUS
    <2>1. n + k \in 1..(n + m) /\ ~(n + k <= n) /\ (n + k) - n = k
        BY <1>2
    <2> QED
        BY <1>5, <2>1
<1>9. \A i \in 1..(n + m) : i \in 1..n \/ (i - n \in 1..m /\ all[i] = more[i - n])
    BY <1>2, <1>5
<1>10. \A x \in Range(read) : from <= x /\ x < cursor /\ x \in Int
    BY <1>0
<1>11. Range(all) = Range(read) \cup Range(more)
    <2>1. Range(all) \subseteq Range(read) \cup Range(more)
        BY <1>1, <1>2, <1>6, <1>7, <1>9 DEF Range
    <2>2. Range(read) \subseteq Range(all)
        BY <1>2, <1>6, <1>7 DEF Range
    <2>3. Range(more) \subseteq Range(all)
        BY <1>1, <1>6, <1>8 DEF Range
    <2> QED
        BY <2>1, <2>2, <2>3
<1>12. Range(all) = (from..last) \ gone
    <2>1. \A x : x \in Range(all) <=> x \in (from..(cursor - 1)) \ gone \/ x \in first..last
        BY <1>0, <1>3, <1>11
    <2>2. \A x \in first..last : x \in (from..last) \ gone
        BY <1>0
    <2>3. \A x \in (from..(cursor - 1)) \ gone : x \in (from..last) \ gone
        OBVIOUS
    <2>4. \A x \in (from..last) \ gone : x \in (from..(cursor - 1)) \ gone \/ x \in first..last
        BY <1>0
    <2> QED
        BY <2>1, <2>2, <2>3, <2>4
<1>13. Rising(all)
    <2> SUFFICES ASSUME NEW i \in 1..(n + m), NEW j \in 1..(n + m), i < j
                 PROVE  all[i] < all[j]
        BY <1>6 DEF Rising
    <2>1. CASE j \in 1..n
        <3>1. i \in 1..n
            BY <1>2, <2>1
        <3> QED
            BY <1>0, <1>2, <1>7, <2>1, <3>1 DEF Rising
    <2>2. CASE i \in 1..n /\ j - n \in 1..m /\ all[j] = more[j - n]
        <3>1. all[i] < cursor /\ all[i] \in Int
            BY <1>2, <1>7, <1>10, <2>2 DEF Range
        <3>2. all[j] >= first /\ all[j] \in Int
            BY <1>1, <2>2
        <3> QED
            BY <3>1, <3>2
    <2>3. CASE i - n \in 1..m /\ all[i] = more[i - n] /\ j - n \in 1..m /\ all[j] = more[j - n]
        BY <1>1, <1>2, <2>3
    <2>4. i \in 1..n \/ (i - n \in 1..m /\ all[i] = more[i - n])
        BY <1>9
    <2>5. j \in 1..n \/ (j - n \in 1..m /\ all[j] = more[j - n])
        BY <1>9
    <2> QED
        BY <2>1, <2>2, <2>3, <2>4, <2>5
<1> QED
    BY <1>12, <1>13 DEF all, more, ReadAll

\* What a connection knows.  Up to its cursor it has read all since it joined but what was
\* lost; from the cursor on, what the ring has dropped is lost and the rest is still there.
Heard(c) ==
    /\ joined[c] \in Nat /\ local[c].cursor \in Nat
    /\ joined[c] <= local[c].cursor /\ local[c].cursor <= nextId
    /\ shocks[c] \in Seq(Int) /\ local[c].pending \in Seq(Int)
    /\ lost[c] \subseteq 0..(nextId - 1)
    /\ pc[c] # "sending" => local[c].pending = <<>>
    /\ ~Reading(c) => shocks[c] = <<>> /\ lost[c] = {} /\ local[c].cursor = joined[c]
    /\ Reading(c) =>
          LostBelow(nextId - Len(ring), local[c].cursor, nextId - 1, lost[c])
    /\ ReadAll(Read(c), joined[c], local[c].cursor - 1, lost[c])

HeardInv ==
    /\ DOMAIN shocks = Clients /\ DOMAIN joined = Clients /\ DOMAIN lost = Clients
    /\ \A c \in Clients : Heard(c)

LEMMA NothingHeard ==
    ASSUME NEW c, joined[c] \in Nat, local[c].cursor = joined[c], shocks[c] = <<>>,
           local[c].pending = <<>>
    PROVE  ReadAll(Read(c), joined[c], local[c].cursor - 1, lost[c])
<1>1. Read(c) = <<>>
    BY ConcatEmptySeq, EmptySeq DEF Read
<1>2. joined[c]..(local[c].cursor - 1) = {}
    OBVIOUS
<1> QED
    BY <1>1, <1>2 DEF Rising, Range, ReadAll

LEMMA HeardInit == Init => HeardInv
<1> SUFFICES ASSUME Init, NEW c \in Clients
             PROVE  Heard(c)
    BY DEF Init, HeardInv
<1>1. /\ local[c].cursor = 0 /\ local[c].pending = <<>> /\ joined[c] = 0 /\ shocks[c] = <<>>
      /\ lost[c] = {} /\ ~Reading(c) /\ pc[c] = "closed" /\ nextId = 0
    BY DEF Init, Fresh, Reading
<1>2. <<>> \in Seq(Int) /\ 0 \in Nat /\ 0 <= 0
    OBVIOUS
<1>3. ReadAll(Read(c), joined[c], local[c].cursor - 1, lost[c])
    BY <1>1, <1>2, NothingHeard
<1> QED
    BY <1>1, <1>2, <1>3 DEF Heard

\* A step of one connection leaves the others as they were, and the ring.
LEMMA HeardOthers ==
    ASSUME BeatInv, HeardInv, NEW c \in Clients, Connect(c) \/ Disconnect(c) \/ Round(c)
    PROVE  /\ UNCHANGED <<ring, nextId>>
           /\ DOMAIN shocks' = Clients /\ DOMAIN joined' = Clients /\ DOMAIN lost' = Clients
           /\ \A q \in Clients \ {c} : Heard(q)'
<1>1. UNCHANGED <<ring, nextId>>
    BY DEF Connect, Begin, Disconnect, Round, SendPrices, ReadShocks, SendShock, SendStatus, Wake,
           market
<1>2. /\ DOMAIN shocks' = Clients /\ DOMAIN joined' = Clients /\ DOMAIN lost' = Clients
    BY DEF Connect, Begin, Disconnect, Round, SendPrices, ReadShocks, SendShock, SendStatus, Wake,
           HeardInv, client
<1>3. ASSUME NEW q \in Clients \ {c}
      PROVE  /\ pc'[q] = pc[q] /\ local'[q] = local[q] /\ shocks'[q] = shocks[q]
             /\ joined'[q] = joined[q] /\ lost'[q] = lost[q]
    BY DEF BeatInv, HeardInv, Connect, Begin, Disconnect, Round, SendPrices, ReadShocks, SendShock,
           SendStatus, Wake, client
<1> QED
    BY <1>1, <1>2, <1>3 DEF HeardInv, Heard, Read, Reading

LEMMA HeardConnect ==
    ASSUME BeatInv, HeardInv, NEW c \in Clients, Connect(c)
    PROVE  Heard(c)'
<1>1. /\ UNCHANGED <<local, shocks, joined, lost, ring, nextId>>
      /\ pc[c] = "closed" /\ pc'[c] = "opening"
    BY DEF Connect, BeatInv, client, market
<1>2. Read(c)' = Read(c) /\ ~Reading(c) /\ ~Reading(c)'
    BY <1>1 DEF Read, Reading
<1>3. Heard(c)
    BY DEF HeardInv
<1> QED
    BY <1>1, <1>2, <1>3 DEF Heard

\* It starts at "now", with nothing behind it.
LEMMA HeardBegin ==
    ASSUME BeatInv, RingOK, HeardInv, NEW c \in Clients, Begin(c)
    PROVE  Heard(c)'
<1>1. /\ local'[c].cursor = nextId /\ local'[c].pending = local[c].pending
      /\ joined'[c] = nextId /\ shocks'[c] = shocks[c] /\ lost'[c] = lost[c]
      /\ pc'[c] = "prices" /\ pc[c] = "opening" /\ UNCHANGED <<ring, nextId>>
    BY DEF Begin, BeatInv, Beats, Fresh, HeardInv, client, market, CursorAtConnect
<1>2. /\ shocks[c] = <<>> /\ local[c].pending = <<>> /\ lost[c] = {} /\ nextId \in Nat
    BY <1>1 DEF HeardInv, Heard, Reading, RingOK
<1>3. ReadAll(Read(c), joined[c], local[c].cursor - 1, lost[c])'
    <2>1. Read(c)' = <<>>
        BY <1>1, <1>2, ConcatEmptySeq, EmptySeq DEF Read
    <2>2. joined'[c]..(local'[c].cursor - 1) = {}
        BY <1>1, <1>2
    <2> QED
        BY <2>1, <2>2 DEF Rising, Range, ReadAll
<1>4. local'[c].cursor..(nextId' - 1) = {}
    BY <1>1, <1>2
<1>5. <<>> \in Seq(Int)
    OBVIOUS
<1> QED
    BY <1>1, <1>2, <1>3, <1>4, <1>5 DEF Heard, LostBelow

LEMMA HeardDisconnect ==
    ASSUME BeatInv, RingOK, HeardInv, NEW c \in Clients, Disconnect(c)
    PROVE  Heard(c)'
<1>1. /\ local'[c].cursor = 0 /\ local'[c].pending = <<>> /\ joined'[c] = 0
      /\ shocks'[c] = <<>> /\ lost'[c] = {} /\ pc'[c] = "closed" /\ nextId' = nextId
    BY DEF Disconnect, BeatInv, HeardInv, Fresh, market
<1>2. ReadAll(Read(c), joined[c], local[c].cursor - 1, lost[c])'
    <2>1. Read(c)' = <<>>
        BY <1>1, ConcatEmptySeq, EmptySeq DEF Read
    <2>2. joined'[c]..(local'[c].cursor - 1) = {}
        BY <1>1
    <2> QED
        BY <2>1, <2>2 DEF Rising, Range, ReadAll
<1>3. <<>> \in Seq(Int) /\ nextId \in Nat
    BY DEF RingOK
<1> QED
    BY <1>1, <1>2, <1>3 DEF Heard, Reading

\* Going from one frame to the next changes nothing of what was heard.
LEMMA HeardMoves ==
    ASSUME BeatInv, HeardInv, NEW c \in Clients, SendPrices(c) \/ SendStatus(c) \/ Wake(c)
    PROVE  Heard(c)'
<1>1. /\ local'[c].cursor = local[c].cursor /\ local'[c].pending = local[c].pending
      /\ joined'[c] = joined[c] /\ shocks'[c] = shocks[c] /\ lost'[c] = lost[c]
      /\ UNCHANGED <<ring, nextId>>
    <2>1. CASE SendPrices(c)
        BY <2>1 DEF SendPrices, BeatInv, Beats, Fresh, HeardInv, client, market
    <2>2. CASE SendStatus(c)
        <3>1. PICK raised \in BOOLEAN :
                  LET told   == ~raised /\ StatusMoved(c)
                      silent == Silence(c, local[c].sent \/ told)
                  IN  local' = [local EXCEPT ![c].lastStatus = IF told THEN status ELSE @,
                                             ![c].sent = FALSE,
                                             ![c].silent = IF silent >= Heartbeat THEN 0
                                                           ELSE silent]
            BY <2>2 DEF SendStatus
        <3>2. local'[c].cursor = local[c].cursor /\ local'[c].pending = local[c].pending
            BY <3>1 DEF BeatInv, Beats, Fresh
        <3> QED
            BY <2>2, <3>2 DEF SendStatus, market
    <2>3. CASE Wake(c)
        BY <2>3 DEF Wake, BeatInv, Beats, Fresh, HeardInv, client, market
    <2> QED
        BY <2>1, <2>2, <2>3
<1>2. /\ Reading(c) /\ Reading(c)' /\ pc'[c] # "sending"
      /\ local[c].pending = <<>>
    BY DEF SendPrices, SendStatus, Wake, BeatInv, HeardInv, Heard, Reading
<1> QED
    BY <1>1, <1>2 DEF HeardInv, Heard, Read

LEMMA HeardReads ==
    ASSUME BeatInv, RingOK, HeardInv, NEW c \in Clients, ReadShocks(c)
    PROVE  Heard(c)'
<1> DEFINE base == nextId - Len(ring)
           cursor == local[c].cursor
           first == IF cursor > base THEN cursor ELSE base
<1>1. /\ local'[c].cursor = nextId /\ local'[c].pending = Since(cursor)
      /\ joined'[c] = joined[c] /\ shocks'[c] = shocks[c] /\ lost'[c] = lost[c]
      /\ pc[c] = "shocks" /\ pc'[c] = "sending" /\ UNCHANGED <<ring, nextId>>
    BY DEF ReadShocks, BeatInv, Beats, Fresh, HeardInv, client, market
<1>2. Heard(c) /\ local[c].pending = <<>> /\ Reading(c) /\ Reading(c)'
    BY <1>1 DEF HeardInv, Heard, Reading
<1>3. /\ cursor \in Nat /\ base \in Nat /\ nextId \in Nat /\ first \in Nat /\ joined[c] \in Nat
      /\ first <= (nextId - 1) + 1 /\ cursor <= first /\ joined[c] <= cursor
      /\ shocks[c] \in Seq(Int)
    BY <1>2 DEF Heard, RingOK
<1>4. Since(cursor) = Run(first, nextId - 1)
    BY <1>3, SinceIsRun
<1>5. Read(c) = shocks[c]
    BY <1>2, <1>3, ConcatEmptySeq DEF Read
<1>6. /\ ReadAll(shocks[c], joined[c], cursor - 1, lost[c])
      /\ LostBelow(base, cursor, nextId - 1, lost[c])
    BY <1>2, <1>5 DEF Heard
<1>7. LostBelow(first, cursor, nextId - 1, lost[c])
    BY <1>3, <1>6 DEF LostBelow
<1>8. Read(c)' = shocks[c] \o Run(first, nextId - 1)
    BY <1>1, <1>4 DEF Read
<1> HIDE DEF base, cursor, first
<1>9. Run(first, nextId - 1) \in Seq(Int)
    <2>1. first \in Int /\ nextId - 1 \in Int /\ first <= (nextId - 1) + 1
        BY <1>3
    <2> QED
        BY <2>1, RunTyped
<1>10. ReadAll(shocks[c] \o Run(first, nextId - 1), joined[c], nextId - 1, lost[c])
    <2> DEFINE last == nextId - 1
    <2>1. /\ last \in Int /\ cursor \in Int /\ first \in Int /\ joined[c] \in Int
          /\ first <= last + 1 /\ cursor <= first /\ joined[c] <= cursor
          /\ shocks[c] \in Seq(Int)
        BY <1>3
    <2>2. LostBelow(first, cursor, last, lost[c])
        BY <1>7
    <2> HIDE DEF last
    <2>3. ReadAll(shocks[c] \o Run(first, last), joined[c], last, lost[c])
        BY ONLY <1>6, <2>1, <2>2, ReadMore
    <2> QED
        BY <2>3 DEF last
<1>11. local'[c].cursor..(nextId' - 1) = {}
    BY <1>1, <1>3
<1> QED
    BY <1>1, <1>2, <1>3, <1>4, <1>8, <1>9, <1>10, <1>11 DEF Heard, cursor, LostBelow

\* Sending a frame moves its shock from what is pending to what was received.
LEMMA HeadMoves ==
    ASSUME NEW s \in Seq(Int), NEW p \in Seq(Int), p # <<>>
    PROVE  /\ Append(s, Head(p)) \in Seq(Int) /\ Tail(p) \in Seq(Int)
           /\ Append(s, Head(p)) \o Tail(p) = s \o p
<1> DEFINE x == Append(s, Head(p))
           t == Tail(p)
           n == Len(s)
           m == Len(p)
<1>1. /\ n \in Nat /\ m \in Nat \ {0} /\ t \in Seq(Int) /\ Len(t) = m - 1
      /\ \A i \in 1..(m - 1) : t[i] = p[i + 1]
      /\ x \in Seq(Int) /\ Len(x) = n + 1
      /\ \A i \in 1..(n + 1) : x[i] = IF i = n + 1 THEN p[1] ELSE s[i]
    OBVIOUS
<1> HIDE DEF x, t
<1>2. /\ x \o t \in Seq(Int) /\ Len(x \o t) = Len(x) + Len(t)
      /\ \A i \in 1..(Len(x) + Len(t)) :
            (x \o t)[i] = IF i <= Len(x) THEN x[i] ELSE t[i - Len(x)]
    BY <1>1, ConcatProperties
<1>3. /\ s \o p \in Seq(Int) /\ Len(s \o p) = n + m
      /\ \A i \in 1..(n + m) : (s \o p)[i] = IF i <= n THEN s[i] ELSE p[i - n]
    BY ConcatProperties
<1> HIDE DEF n, m
<1>4. (n + 1) + (m - 1) = n + m
    BY <1>1
<1>5. ASSUME NEW i \in 1..(n + m)
      PROVE  (x \o t)[i] = (s \o p)[i]
    <2>1. (x \o t)[i] = IF i <= n + 1 THEN x[i] ELSE t[i - (n + 1)]
        BY <1>1, <1>2, <1>4
    <2>2. (s \o p)[i] = IF i <= n THEN s[i] ELSE p[i - n]
        BY <1>3
    <2>3. CASE i <= n
        <3>1. i \in 1..(n + 1) /\ i # n + 1 /\ i <= n + 1
            BY <1>1, <2>3
        <3> QED
            BY <1>1, <2>1, <2>2, <2>3, <3>1
    <2>4. CASE i = n + 1
        <3>1. i \in 1..(n + 1) /\ i <= n + 1 /\ ~(i <= n) /\ i - n = 1
            BY <1>1, <2>4
        <3> QED
            BY <1>1, <2>1, <2>2, <2>4, <3>1
    <2>5. CASE i > n + 1
        <3>1. /\ ~(i <= n + 1) /\ ~(i <= n) /\ i - (n + 1) \in 1..(m - 1)
              /\ (i - (n + 1)) + 1 = i - n
            BY <1>1, <2>5
        <3> QED
            BY <1>1, <2>1, <2>2, <3>1
    <2>6. i <= n \/ i = n + 1 \/ i > n + 1
        <3>1. n \in Int /\ i \in Int
            BY <1>1
        <3> QED
            BY ONLY <3>1
    <2> QED
        BY ONLY <2>3, <2>4, <2>5, <2>6
<1>6. x \o t = s \o p
    <2>1. Len(x \o t) = n + m
        BY <1>1, <1>2, <1>4
    <2> QED
        BY <1>2, <1>3, <1>5, <2>1, SeqEqual
<1> QED
    BY <1>1, <1>6 DEF x, t

LEMMA HeardSends ==
    ASSUME BeatInv, HeardInv, NEW c \in Clients, SendShock(c)
    PROVE  Heard(c)'
<1>1. /\ local'[c].cursor = local[c].cursor /\ local'[c].pending = Tail(local[c].pending)
      /\ shocks'[c] = Append(shocks[c], Head(local[c].pending))
      /\ joined'[c] = joined[c] /\ lost'[c] = lost[c] /\ pc[c] = "sending" /\ pc'[c] = pc[c]
      /\ UNCHANGED <<ring, nextId>> /\ local[c].pending # <<>>
    BY DEF SendShock, BeatInv, Beats, Fresh, HeardInv, market
<1>2. Heard(c) /\ Reading(c) /\ Reading(c)'
    BY <1>1 DEF HeardInv, Reading
<1>3. shocks'[c] \in Seq(Int) /\ local'[c].pending \in Seq(Int) /\ Read(c)' = Read(c)
    BY <1>1, <1>2, HeadMoves DEF Heard, Read
<1> QED
    BY <1>1, <1>2, <1>3 DEF Heard

\* A new shock is ahead of every cursor; one that drops out of the ring is lost to those
\* that have not come to it.
LEMMA HeardAppend ==
    ASSUME BeatInv, RingOK, HeardInv, AppendShock
    PROVE  HeardInv'
<1> DEFINE base == nextId - Len(ring)
           next == nextId' - Len(ring')
<1>1. /\ ring' = Kept(Append(ring, nextId)) /\ nextId' = nextId + 1
      /\ UNCHANGED <<pc, local, shocks, joined>>
      /\ lost' = [c \in Clients |->
                     lost[c] \cup {id \in Range(ring) \ Range(ring') :
                                      Reading(c) /\ id >= local[c].cursor}]
    BY DEF AppendShock, client
<1>2. /\ next \in {base, base + 1} /\ next <= nextId /\ RingOK'
    BY <1>1, RingAppend
<1>3. base \in Nat /\ nextId \in Nat /\ base <= nextId
    BY DEF RingOK
<1>4. Range(ring) = base..(nextId - 1)
    <2>1. base \in Int /\ nextId - 1 \in Int /\ base <= (nextId - 1) + 1
        BY <1>3
    <2>2. ring = Run(base, nextId - 1)
        BY DEF RingOK
    <2> QED
        BY <2>1, <2>2, RunRange
<1>5. Range(ring') = next..nextId
    <2>1. next \in Int /\ nextId \in Int /\ next <= nextId + 1 /\ nextId' - 1 = nextId
        BY <1>1, <1>2, <1>3
    <2>2. ring' = Run(next, nextId' - 1)
        BY <1>2 DEF RingOK
    <2> HIDE DEF next
    <2> QED
        BY <2>1, <2>2, RunRange
<1> HIDE DEF base, next
<1>6. \A id \in Int : id \in Range(ring) \ Range(ring') <=> base <= id /\ id < next
    BY <1>2, <1>3, <1>4, <1>5
<1>7. ASSUME NEW c \in Clients
      PROVE  Heard(c)'
    <2>1. Heard(c)
        BY DEF HeardInv
    <2>2. pc'[c] = pc[c] /\ local'[c] = local[c] /\ shocks'[c] = shocks[c] /\ joined'[c] = joined[c]
          /\ Read(c)' = Read(c) /\ Reading(c)' = Reading(c) /\ nextId' = nextId + 1
        BY <1>1 DEF Read, Reading
    <2>3. lost'[c] = lost[c] \cup {id \in Range(ring) \ Range(ring') :
                                      Reading(c) /\ id >= local[c].cursor}
        BY <1>1
    <2>4. /\ local[c].cursor \in Nat /\ local[c].cursor <= nextId /\ joined[c] \in Nat
          /\ lost[c] \subseteq 0..(nextId - 1)
        BY <2>1 DEF Heard
    <2>5. lost'[c] \subseteq 0..nextId
        BY <1>3, <1>4, <2>3, <2>4
    <2>6. ~Reading(c) => lost'[c] = lost[c]
        BY <2>3
    <2>7. ASSUME Reading(c), NEW id \in local[c].cursor..nextId
          PROVE  id \in lost'[c] <=> id < next
        <3>1. id \in Int /\ id >= local[c].cursor
            BY <2>4
        <3>2. id \in lost'[c] <=> id \in lost[c] \/ (base <= id /\ id < next)
            BY <1>6, <2>3, <2>7, <3>1
        <3>3. CASE id = nextId
            <4>1. id \notin lost[c]
                BY <1>3, <2>4, <3>3
            <4> QED
                BY <1>2, <1>3, <3>2, <3>3, <4>1
        <3>4. CASE id # nextId
            <4>1. id \in local[c].cursor..(nextId - 1)
                BY <1>3, <2>4, <3>4
            <4>2. id \in lost[c] <=> id < base
                BY <2>1, <2>7, <4>1 DEF Heard, base, LostBelow
            <4> QED
                BY <1>2, <1>3, <3>1, <3>2, <4>2
        <3> QED
            BY <3>3, <3>4
    <2>8. (joined[c]..(local[c].cursor - 1)) \ lost'[c] = (joined[c]..(local[c].cursor - 1)) \ lost[c]
        BY <2>3, <2>4
    <2>9. nextId' - 1 = nextId
        BY <1>1, <1>3
    <2>10. Reading(c) => LostBelow(next, local[c].cursor, nextId, lost'[c])
        BY <2>7 DEF LostBelow
    <2>11. ReadAll(Read(c), joined[c], local[c].cursor - 1, lost'[c])
        BY <2>1, <2>8 DEF Heard, ReadAll
    <2> QED
        <3>1. /\ joined'[c] \in Nat /\ local'[c].cursor \in Nat
              /\ joined'[c] <= local'[c].cursor /\ local'[c].cursor <= nextId'
              /\ shocks'[c] \in Seq(Int) /\ local'[c].pending \in Seq(Int)
              /\ lost'[c] \subseteq 0..(nextId' - 1)
            BY <1>3, <2>1, <2>2, <2>4, <2>5, <2>9 DEF Heard
        <3>2. /\ pc'[c] # "sending" => local'[c].pending = <<>>
              /\ ~Reading(c)' => /\ shocks'[c] = <<>> /\ lost'[c] = {}
                                 /\ local'[c].cursor = joined'[c]
            BY <2>1, <2>2, <2>6 DEF Heard
        <3>3. Reading(c)' => LostBelow(nextId - Len(ring), local[c].cursor, nextId - 1, lost[c])'
            BY <2>2, <2>9, <2>10 DEF next
        <3>4. ReadAll(Read(c), joined[c], local[c].cursor - 1, lost[c])'
            BY <2>2, <2>11
        <3> QED
            BY <3>1, <3>2, <3>3, <3>4 DEF Heard
<1> QED
    BY <1>1, <1>7 DEF HeardInv

LEMMA HeardStep ==
    ASSUME BeatInv, RingOK, HeardInv, Next \/ UNCHANGED <<market, serving, client>>
    PROVE  HeardInv'
<1>1. ASSUME UNCHANGED <<ring, nextId, serving, client>>
      PROVE  HeardInv'
    BY <1>1 DEF HeardInv, Heard, Read, Reading, serving, client
<1>2. ASSUME NEW t \in Tickers, Update(t) \/ Evict(t)
      PROVE  HeardInv'
    BY <1>1, <1>2 DEF Update, Evict
<1>3. ASSUME NEW s \in Statuses \cup {NoStatus}, ChangeStatus(s)
      PROVE  HeardInv'
    BY <1>1, <1>3 DEF ChangeStatus
<1>4. ASSUME NEW c \in Clients, Connect(c) \/ Disconnect(c) \/ Round(c)
      PROVE  HeardInv'
    <2>1. Heard(c)'
        BY <1>4, HeardConnect, HeardBegin, HeardDisconnect, HeardMoves, HeardReads, HeardSends
           DEF Round
    <2> QED
        BY <1>4, <2>1, HeardOthers DEF HeardInv
<1>5. CASE UNCHANGED <<market, serving, client>>
    BY <1>1, <1>5 DEF market
<1> QED
    BY <1>2, <1>3, <1>4, <1>5, HeardAppend DEF Next

LEMMA HeardHolds == PageSpec => [](BeatInv /\ RingOK /\ HeardInv)
<1>1. PageInit => BeatInv /\ RingOK /\ HeardInv
    BY BeatInit, StreamTypesInit, HeardInit DEF PageInit, StreamTypes
<1>2. BeatInv /\ StreamTypes /\ HeardInv /\ [PageNext]_pageVars => BeatInv' /\ HeardInv'
    BY BeatStep, HeardStep, ServerCases DEF StreamTypes
<1>3. StreamTypes => RingOK
    BY DEF StreamTypes
<1> QED
    BY <1>1, <1>2, <1>3, StreamTypesHold, PTL DEF PageSpec

\* Every connection reads every shock since it joined, each once and in order, except
\* those the ring dropped before it came round, and none is lost to it because another
\* connection has read it.
THEOREM EveryShockOnce == PageSpec => []ShocksInOrder
<1>1. BeatInv /\ RingOK /\ HeardInv => ShocksInOrder
    <2> SUFFICES ASSUME HeardInv, NEW c \in Clients
                 PROVE  /\ Range(Read(c)) = (joined[c]..(local[c].cursor - 1)) \ lost[c]
                        /\ \A i \in 1..(Len(Read(c)) - 1) : Read(c)[i] < Read(c)[i + 1]
        BY DEF ShocksInOrder, Read
    <2>1. Heard(c)
        BY DEF HeardInv
    <2>2. Read(c) \in Seq(Int)
        BY <2>1, ConcatProperties DEF Heard, Read
    <2>3. Rising(Read(c))
        BY <2>1 DEF Heard, ReadAll
    <2>4. \A i \in 1..(Len(Read(c)) - 1) : i \in DOMAIN Read(c) /\ i + 1 \in DOMAIN Read(c) /\ i < i + 1
        BY <2>2
    <2> QED
        BY <2>1, <2>3, <2>4 DEF Heard, Rising, ReadAll
<1> QED
    BY <1>1, HeardHolds, PTL

-----------------------------------------------------------------------------
(* The shocks on the page *)

Falling(ids) == \A i, j \in DOMAIN ids : i < j => ids[i] > ids[j]

Below(ids, bound) == \A i \in DOMAIN ids : ids[i] < bound

\* The newest of what was received are on top of the list, as far as it is shown.
OnTop(ids, received) ==
    \A i \in 1..Len(received) :
        i <= MaxShown => i \in DOMAIN ids /\ ids[i] = received[Len(received) - i + 1]

\* What the page shows of the connection c it is on: all of it is older than whatever
\* the connection has still to bring.
Follows(ids, c) ==
    /\ Reading(c) => Below(ids, local[c].cursor)
    /\ \A k \in DOMAIN local[c].pending : Below(ids, local[c].pending[k])
    /\ OnTop(ids, shocks[c])

OnPage ==
    /\ recent \in Seq(Int) /\ Falling(recent) /\ Below(recent, nextId)
    /\ source \in Clients => Follows(recent, source)

LEMMA OnPageInit == PageInit => OnPage
<1> SUFFICES ASSUME PageInit
             PROVE  OnPage
    OBVIOUS
<1>1. recent = <<>> /\ source \notin Clients
    BY SourceAssumption DEF PageInit, Waiting
<1>2. <<>> \in Seq(Int) /\ DOMAIN <<>> = {}
    OBVIOUS
<1> QED
    BY <1>1, <1>2 DEF OnPage, Falling, Below

\* The list stays, and so does what it shows of the connection.
LEMMA OnPageKept ==
    ASSUME OnPage, nextId \in Int, nextId' \in Int, nextId <= nextId', recent' = recent,
           \/ source' \notin Clients
           \/ source' = source /\ Follows(recent, source)'
    PROVE  OnPage'
<1>1. Below(recent, nextId)'
    BY DEF OnPage, Below
<1> QED
    BY <1>1 DEF OnPage, Falling

\* Steps that leave what the page's connection has and will bring.
LEMMA FollowsKept ==
    ASSUME NEW c, Follows(recent, c), recent' = recent, Reading(c)' => Reading(c),
           local'[c].cursor = local[c].cursor, local'[c].pending = local[c].pending,
           shocks'[c] = shocks[c]
    PROVE  Follows(recent, c)'
BY DEF Follows, Below, OnTop

\* A new connection brings only what is newer than anything that has been.
LEMMA OnPageOpen ==
    ASSUME BeatInv, RingOK, HeardInv, OnPage, NEW c \in Clients, Open(c)
    PROVE  OnPage'
<1>1. /\ pc'[c] = "opening" /\ pc[c] = "closed" /\ local' = local /\ shocks' = shocks
      /\ nextId' = nextId /\ recent' = recent /\ source' = c
    BY DEF Open, Connect, BeatInv, client, market
<1>2. shocks[c] = <<>> /\ local[c].pending = <<>>
    BY <1>1 DEF HeardInv, Heard, Reading
<1>3. Follows(recent, c)'
    <2>1. DOMAIN local'[c].pending = {} /\ 1..Len(shocks'[c]) = {} /\ ~Reading(c)'
        BY <1>1, <1>2 DEF Reading
    <2> QED
        BY <1>1, <2>1 DEF Follows, OnTop
<1> QED
    BY <1>1, <1>3 DEF OnPage, Falling, Below

LEMMA OnPageBegins ==
    ASSUME BeatInv, RingOK, HeardInv, OnPage, source \in Clients, Begin(source),
           recent' = recent, source' = source
    PROVE  OnPage'
<1> DEFINE c == source
<1>1. /\ pc'[c] = "prices" /\ local'[c].cursor = nextId
      /\ local'[c].pending = local[c].pending /\ shocks'[c] = shocks[c]
      /\ pc[c] = "opening" /\ nextId' = nextId
    BY DEF Begin, BeatInv, Beats, Fresh, client, market, CursorAtConnect
<1>2. shocks[c] = <<>> /\ local[c].pending = <<>> /\ nextId \in Int
    BY <1>1 DEF HeardInv, Heard, Reading, RingOK
<1>3. Below(recent, nextId)
    BY DEF OnPage
<1>4. Follows(recent, c)'
    <2>1. DOMAIN local'[c].pending = {} /\ 1..Len(shocks'[c]) = {}
        BY <1>1, <1>2
    <2>2. Below(recent, local[c].cursor)'
        BY <1>1, <1>3 DEF Below
    <2> QED
        BY <1>1, <2>1, <2>2 DEF Follows, OnTop
<1> QED
    BY <1>2, <1>1, <1>4, OnPageKept

\* What is read now was given out after all that is shown.
LEMMA OnPageReads ==
    ASSUME BeatInv, RingOK, HeardInv, OnPage, source \in Clients, ReadShocks(source),
           recent' = recent, source' = source
    PROVE  OnPage'
<1> DEFINE c == source
           base == nextId - Len(ring)
           cursor == local[c].cursor
           first == IF cursor > base THEN cursor ELSE base
<1>1. /\ local'[c].cursor = nextId /\ local'[c].pending = Since(cursor)
      /\ shocks'[c] = shocks[c] /\ pc[c] = "shocks" /\ nextId' = nextId
    BY DEF ReadShocks, BeatInv, Beats, Fresh, HeardInv, client, market
<1>2. cursor \in Nat /\ cursor <= nextId /\ nextId \in Int /\ base \in Int /\ base <= nextId
    BY DEF HeardInv, Heard, RingOK
<1>3. Since(cursor) = Run(first, nextId - 1)
    BY <1>2, SinceIsRun
<1>4. first \in Int /\ cursor <= first /\ first <= (nextId - 1) + 1 /\ nextId - 1 \in Int
    BY <1>2
<1>5. Follows(recent, c) /\ Below(recent, nextId) /\ recent \in Seq(Int)
    BY DEF OnPage
<1> HIDE DEF first, base
<1>6. /\ DOMAIN Run(first, nextId - 1) = 1..((nextId - 1) - first + 1)
      /\ \A k \in 1..((nextId - 1) - first + 1) : Run(first, nextId - 1)[k] = first + k - 1
    BY <1>4, RunTyped
<1>7. Below(recent, cursor)
    BY <1>1, <1>5 DEF Follows, Reading
<1> HIDE DEF cursor
<1>8. ASSUME NEW k \in DOMAIN Run(first, nextId - 1)
      PROVE  Below(recent, Run(first, nextId - 1)[k])
    <2> DEFINE id == Run(first, nextId - 1)[k]
    <2>1. id \in Int /\ cursor <= id
        <3>1. k \in 1..((nextId - 1) - first + 1)
            BY <1>6
        <3>2. id = first + k - 1
            BY <1>6, <3>1
        <3>3. k \in Int /\ k >= 1
            BY <1>4, <3>1
        <3> HIDE DEF id
        <3> QED
            BY <1>2, <1>4, <3>2, <3>3
    <2> HIDE DEF id
    <2>2. \A i \in DOMAIN recent : recent[i] \in Int
        BY <1>5
    <2>3. cursor \in Int
        BY <1>2
    <2>4. Below(recent, id)
        BY <1>7, <2>1, <2>2, <2>3 DEF Below
    <2> QED
        BY <2>4 DEF id
<1>9. Follows(recent, c)'
    <2>1. \A k \in DOMAIN local'[c].pending : Below(recent, local'[c].pending[k])
        BY <1>1, <1>3, <1>8
    <2>2. Below(recent', local'[c].cursor) /\ OnTop(recent', shocks'[c])
        BY <1>1, <1>5 DEF Follows
    <2> QED
        BY <1>1, <2>1, <2>2 DEF Follows, Below, OnTop
<1> QED
    BY <1>1, <1>2, <1>9, OnPageKept

\* The first n entries of a sequence.
LEMMA PrefixOf ==
    ASSUME NEW s, NEW n \in Nat, \A i \in 1..n : s[i] \in Int
    PROVE  /\ SubSeq(s, 1, n) \in Seq(Int) /\ Len(SubSeq(s, 1, n)) = n
           /\ \A i \in 1..n : SubSeq(s, 1, n)[i] = s[i]
<1>1. /\ SubSeq(s, 1, n) \in Seq(Int)
      /\ Len(SubSeq(s, 1, n)) = (IF 1 <= n THEN n - 1 + 1 ELSE 0)
      /\ \A i \in 1..(n - 1 + 1) : SubSeq(s, 1, n)[i] = s[1 + i - 1]
    BY SubSeqProperties
<1>2. n - 1 + 1 = n /\ (~(1 <= n) => n = 0) /\ \A i \in 1..n : 1 + i - 1 = i
    OBVIOUS
<1> QED
    BY <1>1, <1>2

\* onshock: the shock goes on top and, past the limit, the last one goes.
LEMMA OnPageReceives ==
    ASSUME BeatInv, RingOK, HeardInv, OnPage, source \in Clients, ReceiveShock(source)
    PROVE  OnPage'
<1> DEFINE c == source
           p == local[c].pending
           all == <<Head(p)>> \o recent
           N == Len(recent)
           n == IF N + 1 > MaxShown THEN MaxShown ELSE N + 1
           s == shocks[c]
<1>0. /\ recent \in Seq(Int) /\ N \in Nat /\ Falling(recent) /\ Below(recent, nextId)
      /\ Follows(recent, c) /\ MaxShown \in Nat
    BY PageAssumption DEF OnPage
<1>1. /\ local'[c].cursor = local[c].cursor /\ local'[c].pending = Tail(p)
      /\ shocks'[c] = Append(s, Head(p)) /\ p # <<>>
      /\ nextId' = nextId /\ source' = c
    BY DEF ReceiveShock, SendShock, BeatInv, Beats, Fresh, HeardInv, market, connection
<1>2. /\ p \in Seq(Int) /\ s \in Seq(Int) /\ nextId \in Int /\ local[c].cursor \in Int
      /\ local[c].cursor <= nextId /\ joined[c] \in Int
      /\ ReadAll(s \o p, joined[c], local[c].cursor - 1, lost[c])
    <2>1. Heard(c)
        BY DEF HeardInv
    <2> QED
        BY <2>1 DEF Heard, Read, RingOK
<1>3. /\ Len(p) \in Nat \ {0} /\ Head(p) = p[1] /\ p[1] \in Int /\ Tail(p) \in Seq(Int)
      /\ Len(Tail(p)) = Len(p) - 1 /\ \A k \in 1..(Len(p) - 1) : Tail(p)[k] = p[k + 1]
    BY <1>1, <1>2
<1> DEFINE h == Head(p)
<1>4. /\ h \in Int /\ h < local[c].cursor
      /\ \A k \in 1..(Len(p) - 1) : h < p[k + 1]
    <2> DEFINE q == s \o p
               m == Len(s)
    <2>1. /\ q \in Seq(Int) /\ Len(q) = m + Len(p)
          /\ \A i \in 1..(m + Len(p)) : q[i] = IF i <= m THEN s[i] ELSE p[i - m]
        BY <1>2, ConcatProperties
    <2>2. m \in Nat
        BY <1>2
    <2> HIDE DEF q, m
    <2>3. \A k \in 1..Len(p) : m + k \in DOMAIN q /\ q[m + k] = p[k]
        <3> SUFFICES ASSUME NEW k \in 1..Len(p)
                     PROVE  m + k \in DOMAIN q /\ q[m + k] = p[k]
            OBVIOUS
        <3>1. m + k \in 1..(m + Len(p)) /\ ~(m + k <= m) /\ (m + k) - m = k
            BY <1>3, <2>2
        <3> QED
            BY <2>1, <3>1
    <2>4. Rising(q) /\ Range(q) = (joined[c]..(local[c].cursor - 1)) \ lost[c]
        BY <1>2 DEF ReadAll, q
    <2>5. 1 \in 1..Len(p)
        BY <1>3
    <2>6. h \in Range(q)
        BY <1>3, <2>3, <2>5 DEF Range
    <2>7. h < local[c].cursor
        BY <1>2, <2>4, <2>6
    <2>8. ASSUME NEW k \in 1..(Len(p) - 1)
          PROVE  h < p[k + 1]
        <3>1. k + 1 \in 1..Len(p) /\ m + 1 < m + (k + 1)
            BY <1>3, <2>2
        <3>2. q[m + 1] < q[m + (k + 1)]
            BY <2>3, <2>4, <2>5, <3>1 DEF Rising
        <3> QED
            BY <1>3, <2>3, <2>5, <3>1, <3>2
    <2> QED
        BY <1>3, <2>7, <2>8
<1>5. Below(recent, h)
    BY <1>0, <1>3 DEF Follows
<1>6. recent' = SubSeq(all, 1, n)
    <2>1. Len(all) = N + 1
        <3>1. <<h>> \in Seq(Int) /\ Len(<<h>>) = 1
            BY <1>4
        <3> QED
            BY <1>0, <3>1, ConcatProperties
    <2> QED
        BY <2>1 DEF ReceiveShock
<1>7. \A i \in 1..(N + 1) : all[i] = IF i = 1 THEN h ELSE recent[i - 1]
    <2>1. <<h>> \in Seq(Int) /\ Len(<<h>>) = 1 /\ <<h>>[1] = h
        BY <1>4
    <2>2. \A i \in 1..(1 + N) : all[i] = IF i <= 1 THEN <<h>>[i] ELSE recent[i - 1]
        BY <1>0, <2>1, ConcatProperties
    <2> HIDE DEF all, h
    <2> QED
        BY <1>0, <2>1, <2>2
<1>8. n \in 0..(N + 1) /\ n <= MaxShown /\ (N + 1 <= MaxShown => n = N + 1)
      /\ (N + 1 > MaxShown => n = MaxShown)
    BY <1>0
<1>9. \A i \in DOMAIN recent : recent[i] \in Int /\ recent[i] < h
    BY <1>0, <1>5 DEF Below
<1> HIDE DEF all, n, h
<1>10. /\ recent' \in Seq(Int) /\ Len(recent') = n
       /\ \A i \in 1..n : recent'[i] = all[i]
    <2>1. \A i \in 1..n : all[i] \in Int
        <3> SUFFICES ASSUME NEW i \in 1..n
                     PROVE  all[i] \in Int
            OBVIOUS
        <3>1. i \in 1..(N + 1) /\ (i # 1 => i - 1 \in 1..N)
            BY <1>0, <1>8
        <3>2. \A k \in 1..N : recent[k] \in Int
            BY <1>0
        <3> HIDE DEF N
        <3> QED
            BY <1>4, <1>7, <3>1, <3>2
    <2>2. n \in Nat
        BY <1>0, <1>8
    <2> QED
        BY <1>6, <2>1, <2>2, PrefixOf
<1>11. \A i \in 1..n : recent'[i] = IF i = 1 THEN h ELSE recent[i - 1]
    <2>1. \A i \in 1..n : i \in 1..(N + 1)
        BY <1>0, <1>8
    <2> QED
        BY <1>7, <1>10, <2>1
<1>12. DOMAIN recent' = 1..n /\ DOMAIN recent = 1..N
    BY <1>0, <1>10
<1>13. \A i \in 1..n : i # 1 => i - 1 \in 1..N
    BY <1>0, <1>8
<1>14. ASSUME NEW x \in Int, h < x
       PROVE  Below(recent', x)
    BY <1>4, <1>9, <1>11, <1>12, <1>13, <1>14 DEF Below
<1>15. Falling(recent')
    <2> SUFFICES ASSUME NEW i \in 1..n, NEW j \in 1..n, i < j
                 PROVE  recent'[i] > recent'[j]
        BY <1>12 DEF Falling
    <2>1. j # 1 /\ j - 1 \in 1..N /\ recent'[j] = recent[j - 1]
        BY <1>8, <1>11, <1>13
    <2>2. CASE i = 1
        BY <1>4, <1>9, <1>11, <1>12, <2>1, <2>2
    <2>3. CASE i # 1
        <3>1. i - 1 \in 1..N /\ recent'[i] = recent[i - 1] /\ i - 1 < j - 1
            BY <1>8, <1>11, <1>13, <2>3
        <3> QED
            BY <1>0, <1>12, <2>1, <3>1 DEF Falling
    <2> QED
        BY <2>2, <2>3
<1>16. Below(recent', nextId) /\ Below(recent', local[c].cursor)
    BY <1>2, <1>4, <1>14
<1>17. \A k \in 1..(Len(p) - 1) : Below(recent', Tail(p)[k])
    <2> SUFFICES ASSUME NEW k \in 1..(Len(p) - 1)
                 PROVE  Below(recent', Tail(p)[k])
        OBVIOUS
    <2>1. Tail(p)[k] \in Int /\ h < Tail(p)[k]
        BY <1>3, <1>4
    <2> QED
        BY <1>14, <2>1
<1>18. OnTop(recent', Append(s, h))
    <2> DEFINE l == Len(s)
               t == Append(s, h)
    <2>1. l \in Nat /\ Len(t) = l + 1
          /\ \A i \in 1..(l + 1) : t[i] = IF i = l + 1 THEN h ELSE s[i]
        <3>1. s \in Seq(Int) /\ h \in Int
            BY <1>2, <1>4
        <3> HIDE DEF s
        <3> QED
            BY ONLY <3>1 DEF t, l
    <2> HIDE DEF t, l
    <2> SUFFICES ASSUME NEW i \in 1..(l + 1), i <= MaxShown
                 PROVE  i \in 1..n /\ recent'[i] = t[(l + 1) - i + 1]
        BY <1>12, <2>1 DEF OnTop, t
    <2>2. CASE i = 1
        <3>1. 1 \in 1..n /\ (l + 1) - 1 + 1 = l + 1 /\ l + 1 \in 1..(l + 1)
            BY <1>0, <1>8, <2>1, <2>2
        <3> QED
            BY <1>11, <2>1, <2>2, <3>1
    <2>3. CASE i # 1
        <3>1. i - 1 \in 1..l /\ i - 1 <= MaxShown
            BY <1>0, <2>1, <2>3
        <3>2. i - 1 \in DOMAIN recent /\ recent[i - 1] = s[l - (i - 1) + 1]
            BY <1>0, <3>1 DEF Follows, OnTop, l
        <3>3. i \in 1..n
            BY <1>0, <1>8, <1>12, <2>1, <3>2
        <3>4. (l + 1) - i + 1 = l - (i - 1) + 1 /\ (l + 1) - i + 1 \in 1..(l + 1)
              /\ (l + 1) - i + 1 # l + 1
            BY <2>1, <2>3
        <3> QED
            BY <1>11, <2>1, <2>3, <3>2, <3>3, <3>4
    <2> QED
        BY <2>2, <2>3
<1>19. Follows(recent, c)'
    <2>1. DOMAIN Tail(p) = 1..(Len(p) - 1)
        BY <1>3
    <2> QED
        BY <1>1, <1>16, <1>17, <1>18, <2>1 DEF Follows, h, Below, OnTop
<1> QED
    BY <1>1, <1>10, <1>15, <1>16, <1>19 DEF OnPage, Falling, Below

LEMMA OnPageServe ==
    ASSUME BeatInv, RingOK, HeardInv, OnPage, NEW c \in Clients, Serve(c)
    PROVE  OnPage'
<1>0. nextId \in Int
    BY DEF RingOK
<1>1. CASE c = source
    <2>1. CASE ReceiveShock(c)
        BY <1>1, <2>1, OnPageReceives
    <2>2. CASE ReadShocks(c) /\ UNCHANGED page
        BY <1>1, <2>2, OnPageReads DEF page
    <2>3. CASE Begin(c) /\ UNCHANGED page
        BY <1>1, <2>3, OnPageBegins DEF page
    <2>4. CASE (SendPrices(c) \/ SendStatus(c) \/ Wake(c)) /\ UNCHANGED <<source, recent>>
        <3>1. /\ local'[c].cursor = local[c].cursor /\ local'[c].pending = local[c].pending
              /\ shocks'[c] = shocks[c] /\ Reading(c) /\ nextId' = nextId
            <4>1. CASE SendPrices(c)
                BY <4>1 DEF SendPrices, BeatInv, Beats, Fresh, client, market, Reading
            <4>2. CASE SendStatus(c)
                <5>1. PICK raised \in BOOLEAN :
                          LET told   == ~raised /\ StatusMoved(c)
                              silent == Silence(c, local[c].sent \/ told)
                          IN  local' = [local EXCEPT ![c].lastStatus = IF told THEN status ELSE @,
                                                     ![c].sent = FALSE,
                                                     ![c].silent = IF silent >= Heartbeat THEN 0
                                                                   ELSE silent]
                    BY <4>2 DEF SendStatus
                <5>2. local'[c].cursor = local[c].cursor /\ local'[c].pending = local[c].pending
                    BY <5>1 DEF BeatInv, Beats, Fresh
                <5> QED
                    BY <4>2, <5>2 DEF SendStatus, market, BeatInv, Reading
            <4>3. CASE Wake(c)
                BY <4>3 DEF Wake, BeatInv, Beats, Fresh, client, market, Reading
            <4> QED
                BY <2>4, <4>1, <4>2, <4>3
        <3>2. Follows(recent, c)'
            BY <1>1, <2>4, <3>1, FollowsKept DEF OnPage
        <3> QED
            BY <1>0, <1>1, <2>4, <3>1, <3>2, OnPageKept
    <2> QED
        BY <1>1, <2>1, <2>2, <2>3, <2>4 DEF Serve, Unseen, ReceivePrices, page, connection
<1>2. CASE c # source
    <2>1. /\ recent' = recent /\ source' = source
          /\ Disconnect(c) \/ Round(c)
        BY <1>2 DEF Serve, Unseen, ReceivePrices, ReceiveShock, Round, page, connection
    <2>2. nextId' = nextId
        BY <2>1, HeardOthers
    <2>3. source \in Clients =>
              /\ pc'[source] = pc[source] /\ local'[source] = local[source]
              /\ shocks'[source] = shocks[source]
        BY <1>2, <2>1 DEF BeatInv, HeardInv, Disconnect, Round, Begin, SendPrices, ReadShocks,
                          SendShock, SendStatus, Wake, client
    <2>4. source \in Clients => Follows(recent, source)'
        BY <2>1, <2>3, FollowsKept DEF OnPage, Reading
    <2> QED
        BY <1>0, <2>1, <2>2, <2>4, OnPageKept
<1> QED
    BY <1>1, <1>2

LEMMA OnPageStep ==
    ASSUME BeatInv, RingOK, HeardInv, OnPage, [PageNext]_pageVars
    PROVE  OnPage'
<1>0. nextId \in Int /\ nextId + 1 \in Int /\ nextId <= nextId + 1
    BY DEF RingOK
<1>1. ASSUME UNCHANGED <<source, recent, pc, local, shocks>>, nextId' \in {nextId, nextId + 1}
      PROVE  OnPage'
    <2>1. source \in Clients => Follows(recent, source)'
        BY <1>1, FollowsKept DEF OnPage, Reading
    <2> QED
        BY <1>0, <1>1, <2>1, OnPageKept
<1>2. CASE Market /\ UNCHANGED page
    <2>1. UNCHANGED <<pc, local, shocks>> /\ nextId' \in {nextId, nextId + 1}
        BY <1>2 DEF Market, Update, Evict, AppendShock, ChangeStatus, serving, client
    <2> QED
        BY <1>1, <1>2, <2>1 DEF page
<1>3. ASSUME "CONNECTING" = source' \/ "CLOSED" = source', recent' = recent, nextId' = nextId
      PROVE  OnPage'
    <2>1. source' \notin Clients
        BY <1>3, SourceAssumption DEF Waiting
    <2> QED
        BY <1>0, <1>3, <2>1, OnPageKept
<1>4. CASE AttemptFails
    BY <1>3, <1>4 DEF AttemptFails, Fail, market
<1>5. CASE \E c \in Clients : pc[c] = "closed" /\ Open(CHOOSE d \in Clients : pc[d] = "closed")
    BY <1>5, OnPageOpen
<1>6. CASE Drop
    <2>1. nextId' = nextId
        BY <1>6 DEF Drop, Disconnect, server, market
    <2> QED
        BY <1>3, <1>6, <2>1 DEF Drop, Fail
<1>7. CASE Clock
    <2>1. UNCHANGED <<recent, server>> /\ UNCHANGED source
        BY <1>7 DEF Clock, Check, Escalate
    <2> QED
        BY <1>1, <2>1 DEF server, market, serving, client
<1>8. CASE Remount
    <2>1. recent' = <<>> /\ source' \notin Clients
        BY <1>8, SourceAssumption DEF Remount, Waiting
    <2>2. <<>> \in Seq(Int) /\ DOMAIN <<>> = {}
        OBVIOUS
    <2> QED
        BY <2>1, <2>2 DEF OnPage, Falling, Below
<1>9. CASE UNCHANGED pageVars
    BY <1>1, <1>9 DEF pageVars, page, server, serving, client, market
<1> QED
    BY <1>2, <1>4, <1>5, <1>6, <1>7, <1>8, <1>9, OnPageServe DEF PageNext, Attempt

\* Across any number of drops, retries and reloads the page lists the shocks newest first,
\* none twice, with what its present connection has brought on top.
THEOREM PageListsShocks == PageSpec => []ShocksOnPage
<1>1. OnPage => ShocksOnPage
    BY DEF OnPage, ShocksOnPage, Falling, Follows, OnTop
<1>2. PageInit => OnPage
    BY OnPageInit
<1>3. BeatInv /\ RingOK /\ HeardInv /\ OnPage /\ [PageNext]_pageVars => OnPage'
    BY OnPageStep
<1> QED
    BY <1>1, <1>2, <1>3, HeardHolds, PTL DEF PageSpec
==============================================================================
