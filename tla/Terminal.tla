------------------------------- MODULE Terminal -------------------------------
(***************************************************************************)
(* The account half of the page: the REST resources it shows               *)
(* (useApiResource.ts), the provider that reloads them after a mutation    *)
(* (TerminalProvider.tsx) and the three panels that mutate the account     *)
(* (TradeBar, WatchlistPanel, ChatPanel), over a network that delays and   *)
(* loses answers.  The server's side is only what the page can tell of it: *)
(* what changes and when; TradeTxn, Tracking and ChatTurn take it apart.   *)
(*                                                                         *)
(* What a resource holds is the set of changes it reflects: the number of  *)
(* each request that had an effect on it and of each background P&L point. *)
(***************************************************************************)
EXTENDS Integers, FiniteSets, Sequences

CONSTANTS
    Account,       \* the account's resources to follow: each has a hook of its own
    Panels,        \* the panels to follow
    MaxRequests,   \* bound: mutations the user submits
    MaxPoints,     \* bound: points the snapshot loop records
    MaxFaults,     \* bound: failed fetches and lost answers together
    MaxReloads     \* bound: times the user reloads the page

ASSUME BoundsAssumption ==
    MaxRequests \in Nat /\ MaxPoints \in Nat /\ MaxFaults \in Nat /\ MaxReloads \in Nat

ASSUME FollowedAssumption ==
    /\ Account \subseteq {"portfolio", "watchlist", "history"}
    /\ Panels \subseteq {"trade", "watchlist", "chat"}

Resources == Account \cup {"chat"}
Refreshing == Account \cap {"history"}     \* what has a refreshMs

Changes == 1..(MaxRequests + MaxPoints)
Idle == [at |-> "idle", value |-> {}]        \* no fetch
Unread == [at |-> "unread", value |-> {}]    \* sent, the server has not read yet
Read(value) == [at |-> "read", value |-> value]     \* on its way back
Fetches == {Idle, Unread} \cup {Read(v) : v \in SUBSET Changes}

VARIABLES
    server,      \* resource -> the changes it reflects, committed
    requests,    \* the mutations sent so far: [panel, at]
    points,      \* points the snapshot loop has recorded
    pending,     \* panel -> the request it waits for: 0 when none
    data,        \* resource -> result.data
    failed,      \* resources whose result.error is set
    settled,     \* resources whose result.key is the key of their effect
    due,         \* resources whose attempt was raised since the last render
    fetch,       \* resource -> the fetch of its effect
    superseded,  \* resource -> a fetch whose effect was cleaned up
    turns,       \* the turns this session appended to the conversation
    confirmed,   \* history: requests the page told the user had succeeded
    seen,        \* history: what the page has shown since it was loaded
    faults, reloads

backend == <<server, requests, points>>
hook == <<data, failed, settled, due, fetch, superseded, seen>>
vars == <<server, requests, points, pending, data, failed, settled, due, fetch, superseded,
          turns, confirmed, seen, faults, reloads>>

\* A mounted page fetches everything once.
Init ==
    /\ server = [r \in Resources |-> {}]
    /\ requests = <<>> /\ points = 0
    /\ pending = [p \in Panels |-> 0]
    /\ data = [r \in Resources |-> {}] /\ seen = data
    /\ failed = {} /\ settled = {} /\ due = {}
    /\ fetch = [r \in Resources |-> Unread]
    /\ superseded = [r \in Resources |-> Idle]
    /\ turns = {} /\ confirmed = {}
    /\ faults = 0 /\ reloads = 0

\* ApiResource.loading: the result on hand belongs to an older request.
Loading(r) == r \in due \/ r \notin settled

-----------------------------------------------------------------------------
(* useApiResource *)

\* The render after a reload: the effect is cleaned up, which aborts its fetch and
\* marks it cancelled; an answer that has arrived may still be in the queue.
Render ==
    /\ due # {}
    /\ fetch' = [r \in Resources |-> IF r \in due THEN Unread ELSE fetch[r]]
    /\ \E queued \in SUBSET {r \in due : fetch[r] \notin {Idle, Unread}} :
          superseded' = [r \in Resources |-> IF r \in queued THEN fetch[r]
                                             ELSE superseded[r]]
    /\ settled' = settled \ due
    /\ due' = {}
    /\ UNCHANGED <<backend, pending, data, failed, turns, confirmed, seen, faults, reloads>>

ServerRead(r) ==
    /\ fetch[r] = Unread
    /\ fetch' = [fetch EXCEPT ![r] = Read(server[r])]
    /\ UNCHANGED <<backend, pending, data, failed, settled, due, superseded, turns, confirmed,
                   seen, faults, reloads>>

Show(r, value) ==
    /\ data' = [data EXCEPT ![r] = value]
    /\ seen' = [seen EXCEPT ![r] = @ \cup value]
    /\ failed' = failed \ {r}

Land(r) ==
    /\ fetch[r] \notin {Idle, Unread}
    /\ Show(r, fetch[r].value)
    /\ settled' = settled \cup {r}
    /\ fetch' = [fetch EXCEPT ![r] = Idle]
    /\ UNCHANGED <<backend, pending, due, superseded, turns, confirmed, faults, reloads>>

\* Mutant of Ignored: no `cancelled` flag.
IgnoredNever(r) == FALSE
Ignored(r) == superseded[r] # Idle

\* The answer to a cancelled fetch; its key is not the effect's any more.
LandSuperseded(r) ==
    /\ superseded[r] # Idle
    /\ superseded' = [superseded EXCEPT ![r] = Idle]
    /\ IF Ignored(r)
       THEN UNCHANGED <<data, seen, failed, settled>>
       ELSE Show(r, superseded[r].value) /\ settled' = settled \ {r}
    /\ UNCHANGED <<backend, pending, due, fetch, turns, confirmed, faults, reloads>>

\* Mutant of SettledByFailure: the error is stored without its key.
SettledByFailureNot(r) == settled
SettledByFailure(r) == settled \cup {r}

\* An error status or no answer: the last good data stays.
FetchFails(r) ==
    /\ fetch[r] # Idle
    /\ faults < MaxFaults
    /\ faults' = faults + 1
    /\ failed' = failed \cup {r}
    /\ settled' = SettledByFailure(r)
    /\ fetch' = [fetch EXCEPT ![r] = Idle]
    /\ UNCHANGED <<backend, pending, data, due, superseded, turns, confirmed, seen, reloads>>

\* Mutant of Polled: polling stops at an error.
PolledUntilError == Refreshing \ failed
Polled == Refreshing

\* The interval fires, whatever is in flight.
Poll ==
    /\ due' = due \cup Polled
    /\ UNCHANGED <<backend, pending, data, failed, settled, fetch, superseded, turns,
                   confirmed, seen, faults, reloads>>

-----------------------------------------------------------------------------
(* The server, as far as the page can tell *)

Set(id, at) == requests' = [requests EXCEPT ![id].at = at]

Reflect(resources, change) ==
    server' = [r \in Resources |-> IF r \in resources THEN server[r] \cup {change} ELSE server[r]]

\* A trade writes a P&L point too, unless a holding has no price.
Effects(panel) ==
    CASE panel = "trade" -> {Account \cap {"portfolio"}, Account \cap {"portfolio", "history"}}
      [] panel = "watchlist" -> {Account \cap {"watchlist"}}
      [] panel = "chat" -> SUBSET Account

Commit(id) ==
    /\ requests[id].at = "sent" /\ requests[id].panel # "chat"
    /\ \E resources \in Effects(requests[id].panel) : Reflect(resources, id)
    /\ Set(id, "done")
    /\ UNCHANGED <<points, pending, hook, turns, confirmed, faults, reloads>>

\* A turn acts and commits, ...
Act(id) ==
    /\ requests[id].at = "sent" /\ requests[id].panel = "chat"
    /\ \E resources \in Effects("chat") : Reflect(resources, id)
    /\ Set(id, "acted")
    /\ UNCHANGED <<points, pending, hook, turns, confirmed, faults, reloads>>

\* ... then stores the exchange; a failure to is swallowed.
Store(id) ==
    /\ requests[id].at = "acted"
    /\ Reflect({"chat"}, id) \/ UNCHANGED server
    /\ Set(id, "done")
    /\ UNCHANGED <<points, pending, hook, turns, confirmed, faults, reloads>>

\* A 4xx or 5xx: before anything was done, or a turn that had acted already.
Refuse(id) ==
    /\ requests[id].at \in {"sent", "acted"}
    /\ Set(id, "refused")
    /\ UNCHANGED <<server, points, pending, hook, turns, confirmed, faults, reloads>>

\* main._snapshot_loop.
SnapshotLoop ==
    /\ points < MaxPoints
    /\ points' = points + 1
    /\ Reflect(Refreshing, MaxRequests + points + 1)
    /\ UNCHANGED <<requests, pending, hook, turns, confirmed, faults, reloads>>

-----------------------------------------------------------------------------
(* TerminalProvider and the panels *)

\* Mutant of MaySend: the composer does not wait for the stored conversation.
MaySendEarly(p) == pending[p] = 0
MaySend(p) == pending[p] = 0 /\ (p = "chat" => ~Loading("chat"))

Submit(p) ==
    /\ MaySend(p)
    /\ Len(requests) < MaxRequests
    /\ requests' = Append(requests, [panel |-> p, at |-> "sent"])
    /\ pending' = [pending EXCEPT ![p] = Len(requests) + 1]
    /\ UNCHANGED <<server, points, hook, turns, confirmed, faults, reloads>>

\* Mutant of refresh: a panel is forgotten.
refreshForgetsHistory == Account \ {"history"}
\* Never the chat, whose turns are appended instead.
refresh == Account

\* The answer arrives.  Success reloads the account, and a reply joins the
\* conversation; a refusal is shown and reloads nothing.
Receive(p) ==
    /\ pending[p] # 0 /\ requests[pending[p]].at \in {"done", "refused"}
    /\ IF requests[pending[p]].at = "done"
       THEN /\ due' = due \cup refresh
            /\ turns' = IF p = "chat" THEN turns \cup {pending[p]} ELSE turns
            /\ confirmed' = confirmed \cup {pending[p]}
       ELSE UNCHANGED <<due, turns, confirmed>>
    /\ pending' = [pending EXCEPT ![p] = 0]
    /\ UNCHANGED <<backend, data, failed, settled, fetch, superseded, seen, faults, reloads>>

\* The connection fails while the server may still be at it.  Only the chat panel
\* asks for a refresh then.
LoseAnswer(p) ==
    /\ pending[p] # 0
    /\ faults < MaxFaults
    /\ faults' = faults + 1
    /\ due' = IF p = "chat" THEN due \cup refresh ELSE due
    /\ pending' = [pending EXCEPT ![p] = 0]
    /\ UNCHANGED <<backend, data, failed, settled, fetch, superseded, turns, confirmed, seen,
                   reloads>>

\* The page is loaded anew: the server goes on, the session's state is gone.
ReloadPage ==
    /\ reloads < MaxReloads
    /\ reloads' = reloads + 1
    /\ pending' = [p \in Panels |-> 0]
    /\ data' = [r \in Resources |-> {}] /\ seen' = data'
    /\ failed' = {} /\ settled' = {} /\ due' = {}
    /\ fetch' = [r \in Resources |-> Unread]
    /\ superseded' = [r \in Resources |-> Idle]
    /\ turns' = {}
    /\ UNCHANGED <<backend, confirmed, faults>>

-----------------------------------------------------------------------------
Next ==
    \/ Render \/ Poll \/ SnapshotLoop \/ ReloadPage
    \/ \E r \in Resources : ServerRead(r) \/ Land(r) \/ LandSuperseded(r) \/ FetchFails(r)
    \/ \E id \in DOMAIN requests : Commit(id) \/ Act(id) \/ Store(id) \/ Refuse(id)
    \/ \E p \in Panels : Submit(p) \/ Receive(p) \/ LoseAnswer(p)

\* The interval fires and React renders.  Strong fairness of fetches: the server
\* answers, now and then, before the next poll supersedes the fetch half a minute
\* later.  Nothing is assumed of the user or of the server's other work.
Fairness ==
    /\ WF_vars(Poll) /\ WF_vars(Render)
    /\ \A r \in Refreshing : SF_vars(ServerRead(r)) /\ SF_vars(Land(r))

Spec == Init /\ [][Next]_vars /\ Fairness

-----------------------------------------------------------------------------
(* Properties *)

\* Types, and that a spinner never stays alone: a resource that is loading has a
\* fetch under way or a render coming that will send one.
TerminalTypeOK ==
    /\ pending \in [Panels -> 0..Len(requests)]
    /\ fetch \in [Resources -> Fetches] /\ superseded \in [Resources -> Fetches \ {Unread}]
    /\ \A r \in Resources : Loading(r) => r \in due \/ fetch[r] # Idle

\* A panel never takes back what it has shown, whichever order the answers of
\* superseded and current fetches come in; and once it is neither loading nor in
\* error it shows every mutation the page has told the user succeeded.
PanelsKeepUp ==
    \A r \in Resources :
        /\ seen[r] \subseteq data[r]
        /\ ~Loading(r) /\ r \notin failed /\ r # "chat" =>
              confirmed \cap server[r] \subseteq data[r]

\* No turn is on screen twice, once as stored and once as this session's: the rule
\* above `turns` in TerminalProvider, across reloads and lost replies.
NoTurnTwice == data["chat"] \cap turns = {}

\* The P&L chart catches up with every point, through failed fetches, trades whose
\* answers were lost and reloads of the page.
HistoryCatchesUp == []<>(data["history"] = server["history"])
=============================================================================
