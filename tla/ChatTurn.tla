------------------------------- MODULE ChatTurn -------------------------------
(***************************************************************************)
(* A conversational turn, from the chat panel (ChatPanel.tsx) through      *)
(* POST /api/chat to the trades and watchlist changes it executes          *)
(* (backend/app/chat.py, llm/schema.py) and back.  The model may answer    *)
(* anything; a statement may fail, the connection may drop, the process    *)
(* may die.  After a dropped connection the server finishes its turn while *)
(* the panel may already be sending the next.                              *)
(*                                                                         *)
(* Each trade and each watchlist change is one step here: TradeTxn and     *)
(* Tracking take them apart.  A share costs one unit of cash, and a        *)
(* streamed ticker has a price, as under the simulator.                    *)
(***************************************************************************)
EXTENDS Integers, FiniteSets, SequencesExt

CONSTANTS
    Tickers,       \* canonical symbols
    Symbols,       \* what the model writes
    Canonical,     \* symbol -> ticker
    Replies,       \* what the model may answer: [trades |-> items, changes |-> items]
    MaxActions,    \* MAX_TRADES_PER_REPLY and MAX_WATCHLIST_CHANGES_PER_REPLY
    MaxHistory,    \* MAX_HISTORY_MESSAGES
    Earlier,       \* the stored conversation of earlier sessions, as turn 0
    StartingCash,
    Texts,         \* bound: the user types the messages 1..Texts, once each
    Sends,         \* bound: requests the panel makes, retries included
    MaxFaults      \* bound: failing statements, drops and crashes together

Junk == [what |-> "junk"]     \* an item that fails its schema
Trade(what, symbol) == [what |-> what, symbol |-> symbol]
Asked(kinds) == [what : kinds, symbol : Symbols]

\* What a turn reports: of each item its outcome, and the items it rejected.
Actions == [what : {"buy", "sell", "add", "remove", "rejected"}, ticker : Tickers \cup {""},
            why : {"ok", "refused", "unpriced", "schema"}]
IsFill(action) == action.what \in {"buy", "sell"} /\ action.why = "ok"

ASSUME CanonicalAssumption == Canonical \in [Symbols -> Tickers]
ASSUME LimitsAssumption == MaxActions \in Nat /\ Texts \in Nat
ASSUME RepliesAssumption ==
    \A reply \in Replies :
        /\ reply.trades \in Seq(Asked({"buy", "sell"}) \cup {Junk})
        /\ reply.changes \in Seq(Asked({"add", "remove"}) \cup {Junk})
\* A prompt's limit counts both messages of an exchange.
ASSUME HistoryAssumption == MaxHistory \in Nat /\ MaxHistory % 2 = 0 /\ Len(Earlier) % 2 = 0
\* Whole exchanges, with whatever they did.
ASSUME EarlierAssumption ==
    /\ Earlier \in Seq([turn : {0}, role : {"user", "assistant"}, actions : Seq(Actions)])
    /\ \A k \in DOMAIN Earlier : Earlier[k].role = IF k % 2 = 1 THEN "user" ELSE "assistant"

VARIABLES
    cash, shares, watch,
    streamed,     \* what the market source prices
    fills,        \* the trades table since then: which turn bought or sold what
    transcript,   \* chat_messages, in the order of created_at and rowid
    turns,        \* the requests sent so far, as the server sees them; owed is history,
                  \* the items of the reply that passed their schema and cap, and so is
                  \* stored, the length of the transcript when its prompt was made
    draft,        \* the composer's text: 0 when empty
    pending,      \* the turn the panel waits for: 0 when none
    typed, faults,
    handedBack,   \* history: turns whose text the panel offered to resend
    overlapped    \* history: turns another turn ran beside

account == <<cash, shares, watch, streamed, fills>>
panel == <<draft, pending, typed>>
vars == <<cash, shares, watch, streamed, fills, transcript, turns, draft, pending, typed,
          faults, handedBack, overlapped>>

Init ==
    /\ cash = StartingCash
    /\ shares = [t \in Tickers |-> 0]
    /\ watch \in SUBSET Tickers /\ streamed = watch
    /\ fills = <<>> /\ transcript = Earlier /\ turns = <<>>
    /\ draft = 0 /\ pending = 0 /\ typed = 0 /\ faults = 0
    /\ handedBack = {} /\ overlapped = {}

\* load_tracked_tickers: what a reconcile or a restart makes the source stream.  A
\* trade does neither.
Tracked(w) == w \cup {t \in Tickers : shares[t] > 0}

\* The entries of s with an index in D, in order.
Picked(s, D) ==
    LET upTo[n \in 0..Len(s)] ==
            IF n = 0 THEN <<>>
            ELSE IF n \in D THEN Append(upTo[n - 1], s[n])
            ELSE upTo[n - 1]
    IN  upTo[Len(s)]

OfKind(items, kind) == Picked(items, {k \in DOMAIN items : items[k].what = kind})

-----------------------------------------------------------------------------
(* llm.schema.parse_reply *)

IsValid(item) == item # Junk

\* The first MaxActions items that pass their schema.
Accepted(items) ==
    LET valid == Picked(items, {k \in DOMAIN items : IsValid(items[k])})
    IN  SubSeq(valid, 1, IF Len(valid) > MaxActions THEN MaxActions ELSE Len(valid))

\* Items met once the cap is full: not even looked at.
OverCap(items) ==
    {i \in DOMAIN items :
        Cardinality({j \in 1..(i - 1) : IsValid(items[j])}) >= MaxActions}

\* A line for each bad item before that, and one for all that came after.
RejectionCount(items) ==
    Cardinality({i \in DOMAIN items \ OverCap(items) : ~IsValid(items[i])})
        + (IF OverCap(items) = {} THEN 0 ELSE 1)

\* Mutant of Plan: the removals run before the trades.
PlanRemovesFirst(reply) ==
    LET changes == Accepted(reply.changes)
    IN  OfKind(changes, "add") \o OfKind(changes, "remove") \o Accepted(reply.trades)

\* Adds, then trades, then removes.
Plan(reply) ==
    LET changes == Accepted(reply.changes)
    IN  OfKind(changes, "add") \o Accepted(reply.trades) \o OfKind(changes, "remove")

\* Mutant of Normalize: the model's spelling is echoed.
NormalizeNot(symbol) == symbol
Normalize(symbol) == Canonical[symbol]

-----------------------------------------------------------------------------
(* The panel *)

Type ==
    /\ draft = 0 /\ typed < Texts
    /\ typed' = typed + 1
    /\ draft' = typed + 1
    /\ UNCHANGED <<account, transcript, turns, pending, faults, handedBack, overlapped>>

Active(i) ==
    turns[i].at \in {"loading", "asking", "acting", "valuing", "persisting"}

Send ==
    /\ pending = 0 /\ draft # 0 /\ Len(turns) < Sends
    /\ turns' = Append(turns, [text |-> draft, at |-> "loading", todo |-> <<>>,
                               actions |-> <<>>, rejected |-> 0, owed |-> 0,
                               tracked |-> Tracked(watch), history |-> <<>>, stored |-> 0])
    /\ pending' = Len(turns) + 1
    /\ draft' = 0
    /\ LET beside == {i \in DOMAIN turns : Active(i)}
       IN  overlapped' = IF beside = {} THEN overlapped
                         ELSE overlapped \cup beside \cup {Len(turns) + 1}
    /\ UNCHANGED <<account, transcript, typed, faults, handedBack>>

\* Mutant of DraftAfterDrop: the text comes back whatever went wrong.
DraftAfterDropGivenBack(text) == IF draft = 0 THEN text ELSE draft
DraftAfterDrop(text) == draft

\* Mutant of PendingAfterDrop: only an answer ends the wait.
PendingAfterDropKept == pending
PendingAfterDrop == 0

\* The reply, or an ApiError: then the text goes back into an empty composer.
ReceiveAnswer ==
    /\ pending # 0 /\ turns[pending].at \in {"replied", "unavailable", "error"}
    /\ IF turns[pending].at = "replied"
       THEN UNCHANGED <<draft, handedBack>>
       ELSE /\ draft' = IF draft = 0 THEN turns[pending].text ELSE draft
            /\ handedBack' = handedBack \cup {pending}
    /\ pending' = 0
    /\ UNCHANGED <<account, transcript, turns, typed, faults, overlapped>>

\* No answer: the outcome is unknown, and the text does not come back.
LoseConnection ==
    /\ pending # 0
    /\ turns[pending].at # "dead" => faults < MaxFaults
    /\ faults' = IF turns[pending].at = "dead" THEN faults ELSE faults + 1
    /\ draft' = DraftAfterDrop(turns[pending].text)
    /\ handedBack' = IF draft' = turns[pending].text THEN handedBack \cup {pending}
                     ELSE handedBack
    /\ pending' = PendingAfterDrop
    /\ UNCHANGED <<account, transcript, turns, typed, overlapped>>

-----------------------------------------------------------------------------
(* chat.handle_message, turn i *)

Goto(i, at) == turns' = [turns EXCEPT ![i].at = at]

\* Mutant of Newest: the LIMIT is applied to an ascending scan.
NewestAscending(rows) == SubSeq(rows, 1, IF Len(rows) > MaxHistory THEN MaxHistory ELSE Len(rows))

\* list_chat_messages: the last MaxHistory rows, oldest first.
Newest(rows) ==
    SubSeq(rows, IF Len(rows) > MaxHistory THEN Len(rows) - MaxHistory + 1 ELSE 1, Len(rows))

\* Mutant of Replayed: what the model said, without what came of it.
ReplayedBare(row) == [turn |-> row.turn, role |-> row.role, outcomes |-> <<>>]

\* An assistant's message is followed by the outcome of each of its actions.
Replayed(row) ==
    [turn |-> row.turn, role |-> row.role,
     outcomes |-> [k \in DOMAIN row.actions |->
                      [what |-> row.actions[k].what, done |-> row.actions[k].why = "ok"]]]

\* _load_context and build_messages.
LoadContext(i) ==
    /\ turns[i].at = "loading"
    /\ LET rows == Newest(transcript)
       IN  turns' = [turns EXCEPT ![i].at = "asking", ![i].stored = Len(transcript),
                                  ![i].history = [k \in DOMAIN rows |-> Replayed(rows[k])]]
    /\ UNCHANGED <<account, transcript, panel, faults, handedBack, overlapped>>

\* The prompt has been used.
Leave(i, at) == turns' = [turns EXCEPT ![i].at = at, ![i].history = <<>>, ![i].stored = 0]

\* LLMUnavailableError: 503, nothing was written.
Unavailable(i) ==
    /\ turns[i].at = "asking"
    /\ faults < MaxFaults
    /\ faults' = faults + 1
    /\ Leave(i, "unavailable")
    /\ UNCHANGED <<account, transcript, panel, handedBack, overlapped>>

Answer(i, reply) ==
    /\ turns[i].at = "asking"
    /\ turns' = [turns EXCEPT
          ![i].at = "acting", ![i].history = <<>>, ![i].stored = 0,
          ![i].todo = Plan(reply),
          ![i].rejected = RejectionCount(reply.trades) + RejectionCount(reply.changes),
          ![i].owed = Len(Accepted(reply.trades)) + Len(Accepted(reply.changes))]
    /\ UNCHANGED <<account, transcript, panel, faults, handedBack, overlapped>>

\* MalformedReplyError: a canned message, recorded like any other.
AnswerMalformed(i) ==
    /\ turns[i].at = "asking"
    /\ Leave(i, "valuing")
    /\ UNCHANGED <<account, transcript, panel, faults, handedBack, overlapped>>

\* Mutant of AfterRefusal: one refusal ends the turn's actions.
AfterRefusalStops(todo) == <<>>
AfterRefusal(todo) == Tail(todo)

Report(i, why) ==
    LET item == Head(turns[i].todo)
    IN  turns' = [turns EXCEPT
            ![i].todo = IF why = "ok" THEN Tail(@) ELSE AfterRefusal(@),
            ![i].actions = Append(@, [what |-> item.what, ticker |-> Normalize(item.symbol),
                                      why |-> why])]

Acting(i, kinds) ==
    turns[i].at = "acting" /\ turns[i].todo # <<>> /\ Head(turns[i].todo).what \in kinds

\* A trade that the account can support is one committed fill, anything else is
\* reported and the turn goes on.
ActTrade(i) ==
    /\ Acting(i, {"buy", "sell"})
    /\ LET item == Head(turns[i].todo)
           t    == Canonical[item.symbol]
           Fill(change) ==
               /\ cash' = cash - change
               /\ shares' = [shares EXCEPT ![t] = @ + change]
               /\ fills' = Append(fills, [turn |-> i, what |-> item.what])
               /\ Report(i, "ok")
       IN  \/ /\ item.what = "buy" /\ t \in streamed /\ cash >= 1
              /\ Fill(1)
           \/ /\ item.what = "sell" /\ t \in streamed /\ shares[t] >= 1
              /\ Fill(-1)
           \/ /\ t \notin streamed
              /\ Report(i, "unpriced") /\ UNCHANGED <<cash, shares, fills>>
           \/ /\ t \in streamed
              /\ IF item.what = "buy" THEN cash < 1 ELSE shares[t] < 1
              /\ Report(i, "refused") /\ UNCHANGED <<cash, shares, fills>>
    /\ UNCHANGED <<watch, streamed, transcript, panel, faults, handedBack, overlapped>>

\* watchlist.add and remove, which refuse duplicates and absentees and may find the
\* source unavailable.
ActWatchlist(i) ==
    /\ Acting(i, {"add", "remove"})
    /\ LET item == Head(turns[i].todo)
           t    == Canonical[item.symbol]
           applies == (item.what = "add") = (t \notin watch)
       IN  \/ /\ applies
              /\ watch' = IF item.what = "add" THEN watch \cup {t} ELSE watch \ {t}
              /\ streamed' = Tracked(watch')
              /\ Report(i, "ok")
              /\ UNCHANGED faults
           \/ /\ applies /\ faults < MaxFaults
              /\ faults' = faults + 1
              /\ Report(i, "refused") /\ UNCHANGED <<watch, streamed>>
           \/ /\ ~applies
              /\ Report(i, "refused") /\ UNCHANGED <<watch, streamed, faults>>
    /\ UNCHANGED <<cash, shares, fills, transcript, panel, handedBack, overlapped>>

\* Nothing left to do: the rejections are reported too.
ActEnd(i) ==
    /\ turns[i].at = "acting" /\ turns[i].todo = <<>>
    /\ turns' = [turns EXCEPT
          ![i].at = "valuing",
          ![i].actions = @ \o [n \in 1..turns[i].rejected |->
                                 [what |-> "rejected", ticker |-> "", why |-> "schema"]]]
    /\ UNCHANGED <<account, transcript, panel, faults, handedBack, overlapped>>

\* _finish: the portfolio is read first, outside the try ...
Value(i) ==
    /\ turns[i].at = "valuing"
    /\ Goto(i, "persisting")
    /\ UNCHANGED <<account, transcript, panel, faults, handedBack, overlapped>>

\* ... then both messages are written in one transaction, or none.
Row(i, role, actions) == [turn |-> i, role |-> role, actions |-> actions]

\* Mutant of Exchange: the assistant's row first, committed by itself.
ExchangeHalf(i) == <<Row(i, "assistant", turns[i].actions)>>
Exchange(i) == <<Row(i, "user", <<>>), Row(i, "assistant", turns[i].actions)>>

Persist(i) ==
    /\ turns[i].at = "persisting"
    /\ \/ transcript' = transcript \o Exchange(i) /\ UNCHANGED faults
       \/ faults < MaxFaults /\ faults' = faults + 1 /\ UNCHANGED transcript
    /\ Goto(i, "replied")
    /\ UNCHANGED <<account, panel, handedBack, overlapped>>

\* A statement raises where nothing catches it: in the context, in a trade (anything
\* but a TradeError), in a watchlist row, in the final valuation.
Raise(i) ==
    /\ turns[i].at \in {"loading", "acting", "valuing"}
    /\ turns[i].at = "acting" => turns[i].todo # <<>>
    /\ faults < MaxFaults
    /\ faults' = faults + 1
    /\ Goto(i, "error")
    /\ UNCHANGED <<account, transcript, panel, handedBack, overlapped>>

Crash ==
    /\ faults < MaxFaults
    /\ faults' = faults + 1
    /\ turns' = [i \in DOMAIN turns |->
                    IF Active(i)
                    THEN [turns[i] EXCEPT !.at = "dead", !.history = <<>>, !.stored = 0]
                    ELSE turns[i]]
    /\ streamed' = Tracked(watch)
    /\ UNCHANGED <<cash, shares, watch, fills, transcript, panel, handedBack, overlapped>>

-----------------------------------------------------------------------------
ServerStep(i) ==
    \/ LoadContext(i) \/ Unavailable(i) \/ AnswerMalformed(i)
    \/ \E reply \in Replies : Answer(i, reply)
    \/ ActTrade(i) \/ ActWatchlist(i) \/ ActEnd(i)
    \/ Value(i) \/ Persist(i) \/ Raise(i)

Next ==
    \/ Type \/ Send \/ ReceiveAnswer \/ LoseConnection
    \/ \E i \in DOMAIN turns : ServerStep(i)
    \/ Crash

\* The request runs, the provider's call ends within its time-out, and the panel
\* hears of an answer or of a server that died.
Fairness ==
    /\ \A i \in 1..Sends : WF_vars(i \in DOMAIN turns /\ ServerStep(i))
    /\ WF_vars(ReceiveAnswer)
    /\ WF_vars(LoseConnection /\ turns[pending].at = "dead")

Spec == Init /\ [][Next]_vars /\ Fairness

-----------------------------------------------------------------------------
(* Properties *)

FillsOf(i) == Picked(fills, {k \in DOMAIN fills : fills[k].turn = i})
OkTrades(actions) == Picked(actions, {k \in DOMAIN actions : IsFill(actions[k])})

\* At any moment the actions a turn has collected say exactly what it has traded,
\* and once it answers nothing the model asked for is missing: what was executed,
\* refused or rejected is reported, in a reply lost on the way no less.  However long
\* the model's list, a turn trades no more than the cap, and what it reports names
\* the canonical symbol however the model wrote it.
ReportsWhatItDid ==
    \A i \in DOMAIN turns :
        /\ Len(FillsOf(i)) = Len(OkTrades(turns[i].actions))
        /\ \A k \in DOMAIN FillsOf(i) : FillsOf(i)[k].what = OkTrades(turns[i].actions)[k].what
        /\ Len(FillsOf(i)) <= MaxActions
        /\ \A k \in DOMAIN turns[i].actions : turns[i].actions[k].ticker \in Tickers \cup {""}
        /\ turns[i].at = "replied" =>
              Len(turns[i].actions) = turns[i].owed + turns[i].rejected

\* The stored conversation has questions with their answers, and the confirmations of
\* a turn are the fills the ledger has: across crashes, failures and overlapping turns.
TranscriptMatchesLedger ==
    /\ \A k \in DOMAIN transcript :
          IF k % 2 = 1 THEN transcript[k].role = "user"
          ELSE transcript[k].role = "assistant" /\ transcript[k].turn = transcript[k - 1].turn
    /\ \A k \in DOMAIN transcript :
          transcript[k].role = "assistant" /\ transcript[k].turn # 0 =>
              Len(OkTrades(transcript[k].actions)) = Len(FillsOf(transcript[k].turn))

\* The trades an answer may claim: the fills of its turn, or what an earlier session stored.
Confirmed(row) ==
    IF row.turn = 0 THEN Len(OkTrades(row.actions)) ELSE Len(FillsOf(row.turn))

\* A prompt replays the newest whole exchanges of what was stored when it was made,
\* and each claim the model made in them with what came of it: the trades marked
\* done are the fills of that turn, neither fewer nor more (of an earlier session, the
\* trades recorded as done).
PromptTellsTheTruth ==
    \A i \in DOMAIN turns : turns[i].at = "asking" =>
        LET replayed == turns[i].history
            first    == turns[i].stored - Len(replayed)
        IN  /\ Len(replayed) \in {turns[i].stored, MaxHistory}
            /\ \A k \in DOMAIN replayed :
                  /\ replayed[k].turn = transcript[first + k].turn
                  /\ replayed[k].role = IF k % 2 = 1 THEN "user" ELSE "assistant"
                  /\ replayed[k].role = "assistant" =>
                        Cardinality({n \in DOMAIN replayed[k].outcomes :
                                        /\ replayed[k].outcomes[n].done
                                        /\ replayed[k].outcomes[n].what \in {"buy", "sell"}})
                            = Confirmed(transcript[first + k])

\* A turn does not deprive its own trades of a price: not for a ticker on the watchlist
\* or held when it began, nor for one it has added itself.  (One that is only streamed
\* still, because what was held of it has been sold, it may lose to its own adds.)
TradesKeepTheirPrice ==
    \A i \in DOMAIN turns \ overlapped : \A k \in DOMAIN turns[i].actions :
        LET a == turns[i].actions[k]
        IN  a.why = "unpriced" =>
                /\ a.ticker \notin turns[i].tracked
                /\ \A j \in DOMAIN turns[i].actions :
                      turns[i].actions[j] # [what |-> "add", ticker |-> a.ticker, why |-> "ok"]

\* A message trades twice only if the user sent it again after the server itself
\* had answered with an error: a lost connection never leads there.
NoSilentDoubleFill ==
    \A i, j \in DOMAIN turns :
        i < j /\ turns[i].text = turns[j].text /\ FillsOf(i) # <<>> /\ FillsOf(j) # <<>>
            => turns[i].at = "error"

\* The panel never waits for ever.
EveryTurnEnds == (pending # 0) ~> (pending = 0)

\* What ChatPanel says of an ApiError, "it refused the request before executing
\* anything, so the text is still the user's and resending it is safe".
SafeToResend == \A i \in handedBack : FillsOf(i) = <<>>
=============================================================================
