------------------------------ MODULE PriceStream ------------------------------
(***************************************************************************)
(* The page's end of the price stream (hooks/usePriceStream.ts, and what   *)
(* ConnectionDot.tsx makes of it), composed with the server's generators   *)
(* (Stream): one EventSource for the life of the mount, which the browser  *)
(* reconnects by itself.                                                   *)
(*                                                                         *)
(* A frame is handled when it is sent or is lost with its connection: the  *)
(* connection keeps the order, so a delay would only postpone the step.    *)
(* After a loss the server's generator runs on, unheard, until it notices, *)
(* possibly beside the one of the next connection.                         *)
(*                                                                         *)
(* Time passes on the page in seconds, the period of the stall check: the  *)
(* escalation timer and the age of the last frame are counted in them.     *)
(***************************************************************************)
EXTENDS Stream

CONSTANTS
    Grace,          \* RECONNECT_GRACE_MS, in seconds
    StallAfter,     \* STALL_AFTER_MS, in seconds
    MaxSeries,      \* MAX_SERIES_POINTS
    MaxShown        \* MAX_SHOCKS

ASSUME PageAssumption ==
    Grace \in Nat \ {0} /\ StallAfter \in Nat /\ MaxSeries \in Nat \ {0} /\ MaxShown \in Nat

VARIABLES
    source,       \* the connection it is open on, or its readyState when it is not
    dot,          \* the connection status
    escalation,   \* the timer: Off, or one more than the seconds it has left
    age,          \* seconds since the last price frame
    stalled,
    series,       \* ticker -> its sparkline; the last point is the price shown
    recent        \* the shocks shown, newest first

connection == <<source, dot, escalation>>
feed == <<age, stalled, series>>
page == <<source, dot, escalation, age, stalled, series, recent>>
server == <<market, serving, client, oddities>>
pageVars == <<server, page>>

Off == 0
Never == -1          \* lastFrame is null
Waiting == {"CONNECTING", "CLOSED"}

ASSUME SourceAssumption == Clients \cap Waiting = {}

PageInit ==
    /\ Init
    /\ source = "CONNECTING" /\ dot = "connecting" /\ escalation = Off
    /\ age = Never /\ stalled = FALSE
    /\ series = [t \in {} |-> <<>>]
    /\ recent = <<>>

-----------------------------------------------------------------------------
(* The connection *)

\* Mutant of EscalationAfterOpen: the timer is left running.
EscalationAfterOpenKept == escalation
EscalationAfterOpen == Off

\* onopen: the browser's attempt reaches the server.
Open(c) ==
    /\ source = "CONNECTING"
    /\ Connect(c)
    /\ source' = c
    /\ dot' = "connected"
    /\ escalation' = EscalationAfterOpen
    /\ UNCHANGED <<feed, recent>>

\* Mutant of EscalationAfterError: every failure starts the grace period again.
EscalationAfterErrorRestarted == Grace + 1
EscalationAfterError == IF escalation = Off THEN Grace + 1 ELSE escalation

\* Mutant of AlreadyRed: each retry turns the dot amber again.
AlreadyRedIgnored == FALSE
AlreadyRed == dot = "disconnected"

\* onerror: the browser has given up, or is going to retry.
Fail(readyState) ==
    /\ source' = readyState
    /\ \/ /\ readyState = "CLOSED"
          /\ dot' = "disconnected" /\ escalation' = Off
       \/ /\ readyState = "CONNECTING" /\ AlreadyRed
          /\ UNCHANGED <<dot, escalation>>
       \/ /\ readyState = "CONNECTING" /\ ~AlreadyRed
          /\ dot' = "reconnecting" /\ escalation' = EscalationAfterError
    /\ UNCHANGED <<feed, recent>>

\* The connection is gone: ended by the server, or without its knowledge.
Drop ==
    /\ source \in Clients
    /\ \/ Disconnect(source)
       \/ UNCHANGED server
    /\ Fail("CONNECTING")

\* An attempt fails, or meets an answer the browser does not retry.
AttemptFails ==
    /\ source = "CONNECTING"
    /\ \/ Fail("CONNECTING") /\ UNCHANGED oddities
       \/ Odd /\ oddities' = oddities + 1 /\ Fail("CLOSED")
    /\ UNCHANGED <<market, serving, client>>

\* A new connection has a generator of its own, any that is free.
Attempt ==
    \/ AttemptFails
    \/ \E c \in Clients : pc[c] = "closed" /\ Open(CHOOSE d \in Clients : pc[d] = "closed")

Escalate ==
    /\ escalation = Off + 1
    /\ escalation' = Off
    /\ dot' = "disconnected"
    /\ UNCHANGED <<server, source, feed, recent>>

-----------------------------------------------------------------------------
(* What arrives: from the connection the page has, or to nobody *)

Newest(seq, n) == IF Len(seq) > n THEN SubSeq(seq, Len(seq) - n + 1, Len(seq)) ELSE seq

\* Mutant of StalledAfterFrame: only the check takes the flag back.
StalledAfterFrameKept == stalled
StalledAfterFrame == FALSE

\* onmessage.  Tickers a frame does not have keep what they show.
ReceivePrices(c) ==
    /\ SendPrices(c)
    /\ IF c = source /\ Framed(c)
       THEN /\ age' = 0
            /\ stalled' = StalledAfterFrame
            /\ series' = [t \in DOMAIN series \cup DOMAIN prices |->
                  IF t \notin DOMAIN prices THEN series[t]
                  ELSE IF t \notin DOMAIN series THEN <<prices[t]>>
                  ELSE Newest(Append(series[t], prices[t]), MaxSeries)]
       ELSE UNCHANGED feed
    /\ UNCHANGED <<connection, recent>>

\* onshock
ReceiveShock(c) ==
    /\ SendShock(c)
    /\ recent' = IF c # source THEN recent
                 ELSE LET all == <<Head(local[c].pending)>> \o recent
                      IN  SubSeq(all, 1, IF Len(all) > MaxShown THEN MaxShown ELSE Len(all))
    /\ UNCHANGED <<connection, feed>>

\* A second passes: the stall check runs and the timer comes closer.  A timer that is
\* due fires before the next second does.
Check ==
    /\ escalation # Off + 1
    /\ age' = IF age \in {Never, StallAfter + 1} THEN age ELSE age + 1
    /\ stalled' = (age' > StallAfter)
    /\ escalation' = IF escalation = Off THEN Off ELSE escalation - 1
    /\ UNCHANGED <<server, source, dot, series, recent>>

Clock == Check \/ Escalate

\* A reload: a page that knows nothing.  (Another path would run the effect again and
\* keep what is shown; the page opens the stream on one path only.)
Remount ==
    /\ Odd
    /\ oddities' = oddities + 1
    /\ source' = "CONNECTING" /\ dot' = "connecting" /\ escalation' = Off
    /\ age' = Never /\ stalled' = FALSE
    /\ series' = [t \in {} |-> <<>>] /\ recent' = <<>>
    /\ UNCHANGED <<market, serving, client>>

-----------------------------------------------------------------------------
Unseen(c) ==
    \/ Begin(c) \/ ReadShocks(c) \/ SendStatus(c) \/ Wake(c)
    \/ c # source /\ Disconnect(c)

Market ==
    \/ \E t \in Tickers : Update(t) \/ Evict(t)
    \/ AppendShock
    \/ \E s \in Statuses \cup {NoStatus} : ChangeStatus(s)

Serve(c) == ReceivePrices(c) \/ ReceiveShock(c) \/ (Unseen(c) /\ UNCHANGED page)

PageNext ==
    \/ Market /\ UNCHANGED page
    \/ \E c \in Clients : Serve(c)
    \/ Attempt \/ Drop \/ Clock \/ Remount

\* The server's loop runs, the page's timers fire, and a connection attempt ends.
PageFairness ==
    /\ \A c \in Clients : WF_pageVars(pc[c] # "closed" /\ Serve(c))
    /\ WF_pageVars(Clock) /\ WF_pageVars(Attempt)

PageSpec == PageInit /\ [][PageNext]_pageVars /\ PageFairness

-----------------------------------------------------------------------------
(* Properties *)

\* What ConnectionDot shows.
Label == IF stalled /\ dot = "connected" THEN "stalled" ELSE dot

\* The dot never contradicts the connection: it is green exactly while the stream is
\* open, so no timer of an earlier failure turns it red after the recovery; it is red
\* when the browser has given up; and it is amber only as long as a timer is running
\* that will end it.  The page calls the feed stalled only when no price has come for
\* as long as that takes.
StatusIsHonest ==
    /\ dot = "connected" <=> source \in Clients
    /\ source = "CLOSED" => dot = "disconnected"
    /\ dot = "reconnecting" <=> escalation # Off
    /\ stalled => age > StallAfter

\* Across reconnects the shocks on the page are newest first and none is there twice,
\* with what its present connection has delivered on top.
ShocksOnPage ==
    /\ \A i, j \in DOMAIN recent : i < j => recent[i] > recent[j]
    /\ source \in Clients =>
          \A i \in 1..Len(shocks[source]) :
              i <= MaxShown => recent[i] = shocks[source][Len(shocks[source]) - i + 1]

\* A page that keeps its connection ends up showing the cache's price of every ticker,
\* writes that landed between reading the version and sending the frame included.
PageCatchesUp ==
    <>[](source \in Clients =>
            \A t \in DOMAIN prices : t \in DOMAIN series /\ Last(series[t]) = prices[t])

\* What is wrong for good is on the screen for good.  A server that stays away ends in
\* red, however often the browser tries, and does not flicker back to amber; a market
\* that goes quiet over an open connection that has priced the page ends in "stalled".
TroubleIsShown ==
    /\ <>[](source = "CONNECTING") => <>[](Label = "disconnected")
    /\ <>[](source \in Clients /\ age # Never) => <>[](Label = "stalled")
=============================================================================
