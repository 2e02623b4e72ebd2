---------------------------- MODULE TrackingProofs ----------------------------
(***************************************************************************)
(* Theorems about the tracked-set rule, for any set of tickers and         *)
(* spellings, any cap, any number of overlapping requests and trades, and  *)
(* any number of failures and restarts.                                    *)
(***************************************************************************)
EXTENDS Tracking, FiniteSetTheorems, TLAPS

-----------------------------------------------------------------------------
(* Types *)

Working == {"row", "read1", "evict", "read2", "subscribe", "undo"}

Types ==
    /\ watch \subseteq Tickers
    /\ DOMAIN tracked = Sources
    /\ live \in Sources \cup {NoSource}
    /\ DOMAIN pc = Tasks
    /\ DOMAIN arg = Tasks
    /\ source \in [Requests -> Sources]
    /\ DOMAIN wanted = Requests
    /\ DOMAIN evicted = Requests
    /\ DOMAIN keptHeld = Requests
    /\ \A r \in Requests : pc[r] \in Working => arg[r] \in Tickers

LEMMA TypesInit == Init => Types
BY SeededAssumption DEF Init, Types, Working, Sources, Tasks

LEMMA TypesStep == Types /\ [Next]_vars => Types'
<1> SUFFICES ASSUME Types, [Next]_vars
             PROVE  Types'
    OBVIOUS
<1> USE DEF Types, Tasks, Goto, At, Working
<1>0. CASE UNCHANGED vars
    BY <1>0 DEF vars
<1>1. ASSUME NEW r \in Requests, NEW kind, NEW s \in Spellings, Arrive(r, kind, s)
      PROVE  Types'
    BY <1>1, CanonicalAssumption DEF Arrive, Normalize, db, feed
<1>2. ASSUME NEW r \in Requests, AddRow(r)
      PROVE  Types'
    BY <1>2 DEF AddRow, Finish, Sources, db, feed, task, history
<1>3. ASSUME NEW r \in Requests, RemoveRow(r)
      PROVE  Types'
    BY <1>3 DEF RemoveRow, Finish, Sources, db, feed, task, history
<1>4. ASSUME NEW r \in Requests, ReadFirst(r)
      PROVE  Types'
    BY <1>4 DEF ReadFirst, db, feed, task, history
<1>5. ASSUME NEW r \in Requests, Evict(r)
      PROVE  Types'
    BY <1>5 DEF Evict, Unsubscribe, db, feed, task, history
<1>6. ASSUME NEW r \in Requests, ReadSecond(r)
      PROVE  Types'
    BY <1>6 DEF ReadSecond, db, feed, task, history
<1>7. ASSUME NEW r \in Requests, Subscribe(r)
      PROVE  Types'
    BY <1>7 DEF Subscribe, Extend, Finish, Sources, db, feed, task, history
<1>8. ASSUME NEW r \in Requests, ReadFails(r)
      PROVE  Types'
    BY <1>8 DEF ReadFails, db, feed, task, history
<1>9. ASSUME NEW r \in Requests, AddUndo(r)
      PROVE  Types'
    BY <1>9 DEF AddUndo, Finish, Sources, db, feed, task, history
<1>10. ASSUME NEW r \in Requests, RemoveUndo(r)
      PROVE  Types'
    BY <1>10 DEF RemoveUndo, Finish, Sources, db, feed, task, history
<1>11. ASSUME NEW r \in Requests, UndoFails(r)
      PROVE  Types'
    BY <1>11 DEF UndoFails, Finish, Sources, db, feed, task, history
<1>12. ASSUME NEW r \in Requests, SourceRefuses(r)
      PROVE  Types'
    BY <1>12 DEF SourceRefuses, Unsubscribe, Extend, db, feed, task, history
<1>13. ASSUME NEW x \in Tasks, Unavailable(x)
      PROVE  Types'
    BY <1>13 DEF Unavailable, db, feed, task, history
<1>14. ASSUME NEW x \in Trades, NEW t \in Tickers, TradePriced(x, t)
      PROVE  Types'
    BY <1>14 DEF TradePriced, db, feed, history
<1>15. ASSUME NEW x \in Trades, BuyCommit(x)
      PROVE  Types'
    BY <1>15 DEF BuyCommit, db, feed
<1>16. ASSUME NEW x \in Trades, SellCommit(x)
      PROVE  Types'
    BY <1>16 DEF SellCommit, db, feed
<1>17. ASSUME Failover
      PROVE  Types'
    BY <1>17 DEF Failover, db, task, Sources
<1>18. ASSUME FailoverFails
      PROVE  Types'
    BY <1>18 DEF FailoverFails, db, task, history
<1>19. ASSUME Restart
      PROVE  Types'
    BY <1>19 DEF Restart, db, Sources
<1> QED
    BY <1>0, <1>1, <1>2, <1>3, <1>4, <1>5, <1>6, <1>7, <1>8, <1>9, <1>10, <1>11, <1>12,
       <1>13, <1>14, <1>15, <1>16, <1>17, <1>18, <1>19 DEF Next, RequestStep, TradeStep

LEMMA TypesHold == Spec => []Types
BY TypesInit, TypesStep, PTL DEF Spec

-----------------------------------------------------------------------------
(* The cap *)

\* A request that put a row back has ended: it does not do so twice.
CapInv ==
    /\ CapRespected
    /\ IsFiniteSet(watch) /\ IsFiniteSet(restored) /\ restored \subseteq Requests
    /\ \A r \in restored : pc[r] = "failed"

LEMMA CapInit == Init => CapInv
<1> SUFFICES ASSUME Init
             PROVE  CapInv
    OBVIOUS
<1>1. IsFiniteSet({}) /\ Cardinality({}) = 0
    BY FS_EmptySet
<1>2. IsFiniteSet(watch) /\ Cardinality(watch) <= Cardinality(Seeded)
    BY FS_Subset, SeededAssumption DEF Init
<1>3. Cardinality(Seeded) \in Nat /\ Cardinality(watch) \in Nat
    BY <1>2, FS_CardinalityType, SeededAssumption
<1> QED
    BY <1>1, <1>2, <1>3, SeededAssumption, CapAssumption DEF Init, CapInv, CapRespected

\* Requests and trades that leave the rows alone.
LEMMA CapSame ==
    ASSUME CapInv, UNCHANGED <<watch, restored>>,
           \A r \in Requests : pc[r] = "failed" => pc'[r] = "failed"
    PROVE  CapInv'
BY DEF CapInv, CapRespected

LEMMA CapFewer ==
    ASSUME CapInv, NEW t, watch' = watch \ {t}, UNCHANGED restored,
           \A r \in Requests : pc[r] = "failed" => pc'[r] = "failed"
    PROVE  CapInv'
<1>1. IsFiniteSet(watch') /\ Cardinality(watch') <= Cardinality(watch)
    BY FS_RemoveElement, FS_CardinalityType, FS_Subset DEF CapInv
<1>2. Cardinality(watch) \in Nat /\ Cardinality(watch') \in Nat /\ Cardinality(restored) \in Nat
    BY <1>1, FS_CardinalityType DEF CapInv
<1> QED
    BY <1>1, <1>2, CapAssumption DEF CapInv, CapRespected

LEMMA CapAddRow ==
    ASSUME Types, CapInv, NEW r \in Requests, AddRow(r)
    PROVE  CapInv'
<1>1. pc[r] = "row" /\ \A q \in Requests \ {r} : pc'[q] = pc[q]
    BY DEF AddRow, At, Goto, Finish, Types, Tasks
<1>2. \A q \in Requests : pc[q] = "failed" => pc'[q] = "failed"
    BY <1>1
<1>3. CASE UNCHANGED watch
    BY <1>2, <1>3, CapSame DEF AddRow
<1>4. CASE watch' = watch \cup {arg[r]} /\ WithinCap(watch, arg[r])
    <2>1. arg[r] \in Tickers
        BY <1>1 DEF Types, Working
    <2>2. IsFiniteSet(watch') /\ Cardinality(watch') <= Cap
        BY <1>4, FS_AddElement DEF CapInv, WithinCap
    <2>3. Cardinality(watch') \in Nat /\ Cardinality(restored) \in Nat /\ restored' = restored
        BY <2>2, FS_CardinalityType DEF CapInv, AddRow
    <2> QED
        BY <1>2, <1>4, <2>1, <2>2, <2>3, CapAssumption DEF CapInv, CapRespected
<1> QED
    BY <1>3, <1>4 DEF AddRow

\* The one step that may pass the cap, once for each request.
LEMMA CapRemoveUndo ==
    ASSUME Types, CapInv, NEW r \in Requests, RemoveUndo(r)
    PROVE  CapInv'
<1>1. /\ pc[r] = "undo" /\ pc'[r] = "failed" /\ \A q \in Requests \ {r} : pc'[q] = pc[q]
      /\ watch' = watch \cup {arg[r]} /\ restored' = restored \cup {r}
    BY DEF RemoveUndo, At, Goto, Finish, Types, Tasks
<1>2. arg[r] \in Tickers /\ r \notin restored
    BY <1>1 DEF Types, Working, CapInv
<1>3. /\ IsFiniteSet(watch') /\ Cardinality(watch') <= Cardinality(watch) + 1
      /\ IsFiniteSet(restored') /\ Cardinality(restored') = Cardinality(restored) + 1
    <2>1. IsFiniteSet(watch) /\ IsFiniteSet(restored) /\ Cardinality(watch) \in Nat
        BY FS_CardinalityType DEF CapInv
    <2>2. /\ IsFiniteSet(watch \cup {arg[r]})
          /\ Cardinality(watch \cup {arg[r]}) <= Cardinality(watch) + 1
        <3>1. /\ IsFiniteSet(watch \cup {arg[r]})
              /\ Cardinality(watch \cup {arg[r]}) =
                     IF arg[r] \in watch THEN Cardinality(watch) ELSE Cardinality(watch) + 1
            BY <2>1, FS_AddElement
        <3> QED
            BY <2>1, <3>1
    <2>3. /\ IsFiniteSet(restored \cup {r})
          /\ Cardinality(restored \cup {r}) = Cardinality(restored) + 1
        BY <2>1, <1>2, FS_AddElement
    <2> QED
        BY <1>1, <2>2, <2>3
<1>4. /\ Cardinality(watch) \in Nat /\ Cardinality(watch') \in Nat
      /\ Cardinality(restored) \in Nat /\ Cardinality(restored') \in Nat
    BY <1>3, FS_CardinalityType DEF CapInv
<1>5. CapRespected'
    BY <1>1, <1>2, <1>3, <1>4, CapAssumption DEF CapInv, CapRespected
<1> QED
    BY <1>1, <1>3, <1>5 DEF CapInv

LEMMA CapStep == Types /\ CapInv /\ [Next]_vars => CapInv'
<1> SUFFICES ASSUME Types, CapInv, [Next]_vars
             PROVE  CapInv'
    OBVIOUS
<1>1. CASE UNCHANGED vars
    BY <1>1, CapSame DEF vars
<1>2. ASSUME NEW r \in Requests, RequestStep(r)
      PROVE  CapInv'
    <2>1. ASSUME NEW kind, NEW s \in Spellings, Arrive(r, kind, s)
          PROVE  CapInv'
        BY <2>1, CapSame DEF Arrive, At, Goto, db, Types, Tasks
    <2>2. ASSUME RemoveRow(r) \/ AddUndo(r)
          PROVE  CapInv'
        <3>1. pc[r] # "failed" /\ \A q \in Requests \ {r} : pc'[q] = pc[q]
            BY <2>2 DEF RemoveRow, AddUndo, At, Goto, Finish, Types, Tasks
        <3>2. UNCHANGED restored /\ (watch' = watch \/ watch' = watch \ {arg[r]})
            BY <2>2 DEF RemoveRow, AddUndo
        <3> QED
            BY <3>1, <3>2, CapSame, CapFewer
    <2>3. ASSUME \/ ReadFirst(r) \/ Evict(r) \/ ReadSecond(r) \/ Subscribe(r)
                 \/ ReadFails(r) \/ SourceRefuses(r) \/ UndoFails(r)
          PROVE  CapInv'
        <3>1. pc[r] # "failed" /\ \A q \in Requests \ {r} : pc'[q] = pc[q]
            BY <2>3 DEF ReadFirst, Evict, ReadSecond, Subscribe, ReadFails, SourceRefuses,
                        UndoFails, At, Goto, Finish, Types, Tasks
        <3>2. UNCHANGED <<watch, restored>>
            BY <2>3 DEF ReadFirst, Evict, ReadSecond, Subscribe, ReadFails, SourceRefuses,
                        UndoFails, db, history
        <3> QED
            BY <3>1, <3>2, CapSame
    <2> QED
        BY <1>2, <2>1, <2>2, <2>3, CapAddRow, CapRemoveUndo DEF RequestStep
<1>3. ASSUME NEW x \in Trades, TradeStep(x)
      PROVE  CapInv'
    <2>1. pc[x] # "failed" /\ \A q \in Tasks \ {x} : pc'[q] = pc[q]
        BY <1>3 DEF TradeStep, TradePriced, BuyCommit, SellCommit, At, Goto, Types, Tasks
    <2>2. UNCHANGED <<watch, restored>>
        BY <1>3 DEF TradeStep, TradePriced, BuyCommit, SellCommit, db, history
    <2> QED
        BY <2>1, <2>2, CapSame DEF Tasks
<1>4. ASSUME Failover \/ FailoverFails
      PROVE  CapInv'
    BY <1>4, CapSame DEF Failover, FailoverFails, db, history
<1>5. ASSUME NEW x \in Tasks, Unavailable(x)
      PROVE  CapInv'
    BY <1>5, CapSame DEF Unavailable, At, Goto, db, history, Types, Tasks
<1>6. CASE Restart
    BY <1>6, CapSame DEF Restart, db, Types, Tasks
<1> QED
    BY <1>1, <1>2, <1>3, <1>4, <1>5, <1>6 DEF Next

\* However many adds and removes overlap and fail, only a removal that was taken back
\* can push the list over its cap, by one row each, and every row is canonical.
THEOREM CapHolds == Spec => []CapRespected
<1>1. CapInv => CapRespected
    BY DEF CapInv
<1> QED
    BY <1>1, TypesHold, CapInit, CapStep, PTL DEF Spec

-----------------------------------------------------------------------------
(* Coverage *)

\* Request r has still to stream t, or to say that it leaves it unsettled: its own ticker
\* or one it has unsubscribed, for which it will read the rows again or has done so.
Owes(r, t) ==
    \/ t = arg[r] /\ pc[r] \in {"read1", "evict"}
    \/ t \in Concerns(r) /\ pc[r] \in {"read2", "undo"}
    \/ t \in Concerns(r) /\ pc[r] = "subscribe" /\ t \in wanted[r]

\* Every watched ticker is streamed, known to be unsettled, or owed by someone.
Covered ==
    live # NoSource =>
        \A t \in watch \ unsettled : t \in tracked[live] \/ \E r \in Requests : Owes(r, t)

LEMMA CoveredInit == Init => Covered
BY DEF Init, Covered, LoadTrackedTickers, Sources

\* The requests that owe go on owing, and nothing else moves.
LEMMA CoveredSame ==
    ASSUME Covered, watch' \subseteq watch, unsettled \subseteq unsettled',
           live' = NoSource \/ (live # NoSource /\ tracked[live] \subseteq tracked'[live']),
           \A r \in Requests, t \in watch' : Owes(r, t) => Owes(r, t)'
    PROVE  Covered'
BY DEF Covered

\* A step of request r: what is not streamed, unsettled or owed by r after it was owed by
\* somebody else before it, and still is.
LEMMA CoveredOthers ==
    ASSUME Covered, NEW r \in Requests, live' = live,
           \A q \in Requests \ {r} :
               /\ pc'[q] = pc[q] /\ arg'[q] = arg[q]
               /\ wanted'[q] = wanted[q] /\ evicted'[q] = evicted[q],
           live # NoSource =>
               \A t \in watch' \ unsettled' :
                   \/ t \in tracked'[live] \/ Owes(r, t)'
                   \/ t \in watch \ unsettled /\ t \notin tracked[live] /\ ~Owes(r, t)
    PROVE  Covered'
<1> SUFFICES ASSUME live # NoSource, NEW t \in watch' \ unsettled', t \notin tracked'[live],
                    ~Owes(r, t)'
             PROVE  \E q \in Requests : Owes(q, t)'
    BY DEF Covered
<1>1. t \in watch \ unsettled /\ t \notin tracked[live] /\ ~Owes(r, t)
    OBVIOUS
<1>2. PICK q \in Requests \ {r} : Owes(q, t)
    BY <1>1 DEF Covered
<1> QED
    BY <1>2 DEF Owes, Concerns

\* The request's evictions: what they take from the live source, the request owes.
LEMMA CoveredUnsubscribe ==
    ASSUME Types, Covered, NEW r \in Requests, NEW gone, At(r, "evict"), Unsubscribe(r, gone),
           Goto(r, "read2") \/ Goto(r, "undo"), UNCHANGED <<watch, unsettled, live, arg, wanted>>
    PROVE  Covered'
<1> USE DEF At, Goto, Tasks
<1>1. /\ pc[r] = "evict" /\ pc'[r] \in {"read2", "undo"} /\ source[r] \in Sources
      /\ tracked'[source[r]] = tracked[source[r]] \ gone
      /\ \A s \in Sources \ {source[r]} : tracked'[s] = tracked[s]
      /\ evicted'[r] = IF source[r] = live THEN gone ELSE {}
    BY DEF Unsubscribe, Types
<1>2. \A q \in Requests \ {r} : pc'[q] = pc[q] /\ evicted'[q] = evicted[q]
    BY DEF Unsubscribe, Types
<1>3. ASSUME live # NoSource, NEW t \in watch \ unsettled
      PROVE  \/ t \in tracked'[live] \/ Owes(r, t)'
             \/ t \notin tracked[live] /\ ~Owes(r, t)
    <2>1. live \in Sources
        BY <1>3 DEF Types
    <2>2. CASE t \in tracked[live]
        BY <1>1, <2>1, <2>2 DEF Owes, Concerns
    <2>3. CASE t = arg[r]
        BY <1>1, <2>3 DEF Owes, Concerns
    <2>4. CASE t # arg[r]
        BY <1>1, <2>2, <2>4 DEF Owes
    <2> QED
        BY <2>3, <2>4
<1> QED
    BY <1>2, <1>3, CoveredOthers

LEMMA CoveredRequest ==
    ASSUME Types, Covered, NEW r \in Requests, RequestStep(r)
    PROVE  Covered'
<1> USE DEF At, Goto, Tasks
<1>1. ASSUME NEW kind, NEW s \in Spellings, Arrive(r, kind, s)
      PROVE  Covered'
    BY <1>1, CoveredOthers DEF Arrive, db, feed, Types, Owes
<1>2. ASSUME AddRow(r)
      PROVE  Covered'
    <2>1. /\ pc[r] = "row" /\ UNCHANGED <<tracked, live, unsettled>>
          /\ \A q \in Requests \ {r} :
                 /\ pc'[q] = pc[q] /\ arg'[q] = arg[q]
                 /\ wanted'[q] = wanted[q] /\ evicted'[q] = evicted[q]
        BY <1>2 DEF AddRow, Finish, feed, task, Types
    <2>2. watch' = watch \/ (watch' = watch \cup {arg[r]} /\ pc'[r] = "read1" /\ arg'[r] = arg[r])
        BY <1>2 DEF AddRow, task, Types
    <2> QED
        BY <2>1, <2>2, CoveredOthers DEF Owes
<1>3. ASSUME RemoveRow(r)
      PROVE  Covered'
    BY <1>3, CoveredOthers DEF RemoveRow, Finish, feed, task, Types, Owes
<1>4. ASSUME ReadFirst(r) \/ ReadSecond(r) \/ ReadFails(r)
      PROVE  Covered'
    <2>1. /\ UNCHANGED <<watch, tracked, live, unsettled, arg, evicted>>
          /\ \A q \in Requests \ {r} : pc'[q] = pc[q] /\ wanted'[q] = wanted[q]
        BY <1>4 DEF ReadFirst, ReadSecond, ReadFails, db, feed, task, history, Types
    <2>2. \/ pc[r] = "read1" /\ pc'[r] \in {"evict", "undo"}
          \/ pc[r] = "read2" /\ pc'[r] = "undo"
          \/ pc[r] = "read2" /\ pc'[r] = "subscribe" /\ watch \subseteq wanted'[r]
        BY <1>4 DEF ReadFirst, ReadSecond, ReadFails, SecondRead, LoadTrackedTickers, Types
    <2>3. \A t \in watch : Owes(r, t) => Owes(r, t)'
        BY <2>1, <2>2 DEF Owes, Concerns
    <2> QED
        BY <2>1, <2>3, CoveredOthers
<1>5. ASSUME Evict(r)
      PROVE  Covered'
    BY <1>5, CoveredUnsubscribe DEF Evict, db, task
<1>6. ASSUME Subscribe(r)
      PROVE  Covered'
    <2>1. /\ UNCHANGED <<watch, live>> /\ pc[r] = "subscribe"
          /\ tracked'[source[r]] = tracked[source[r]] \cup wanted[r]
          /\ \A s \in Sources \ {source[r]} : tracked'[s] = tracked[s]
          /\ \A q \in Requests \ {r} :
                 /\ pc'[q] = pc[q] /\ arg'[q] = arg[q]
                 /\ wanted'[q] = wanted[q] /\ evicted'[q] = evicted[q]
        BY <1>6 DEF Subscribe, Extend, Additions, Finish, db, Types
    <2>2. unsettled' = IF source[r] = live THEN unsettled \ wanted[r]
                       ELSE unsettled \cup ((Concerns(r) \cap wanted[r]) \ Streamed)
        BY <1>6 DEF Subscribe
    <2>3. source[r] \in Sources
        BY DEF Types
    <2>4. ASSUME live # NoSource, NEW t \in watch \ unsettled', t \notin tracked'[live]
          PROVE  t \in watch \ unsettled /\ t \notin tracked[live] /\ ~Owes(r, t)
        <3>1. live \in Sources
            BY <2>4 DEF Types
        <3>2. t \notin tracked[live]
            BY <2>1, <2>3, <2>4, <3>1
        <3>3. CASE source[r] = live
            BY <2>1, <2>2, <2>4, <3>2, <3>3 DEF Owes
        <3>4. CASE source[r] # live
            <4>1. t \notin unsettled /\ t \notin (Concerns(r) \cap wanted[r]) \ tracked[live]
                BY <2>2, <2>4, <3>4 DEF Streamed
            <4> QED
                BY <2>1, <2>4, <3>2, <4>1 DEF Owes
        <3> QED
            BY <3>3, <3>4
    <2> QED
        BY <2>1, <2>4, CoveredOthers
<1>7. ASSUME AddUndo(r) \/ RemoveUndo(r) \/ UndoFails(r)
      PROVE  Covered'
    <2>1. /\ UNCHANGED <<tracked, live>> /\ pc[r] = "undo"
          /\ watch' \subseteq watch \cup {arg[r]}
          /\ unsettled' = unsettled \cup ((Concerns(r) \cap watch') \ Streamed)
          /\ \A q \in Requests \ {r} :
                 /\ pc'[q] = pc[q] /\ arg'[q] = arg[q]
                 /\ wanted'[q] = wanted[q] /\ evicted'[q] = evicted[q]
        BY <1>7 DEF AddUndo, RemoveUndo, UndoFails, LeaveUnsettled, Finish, feed, Types
    <2>2. ASSUME live # NoSource, NEW t \in watch' \ unsettled', t \notin tracked'[live]
          PROVE  t \in watch \ unsettled /\ t \notin tracked[live] /\ ~Owes(r, t)
        <3>1. t \notin Concerns(r) /\ t \notin unsettled /\ t \notin tracked[live]
            BY <2>1, <2>2 DEF Streamed
        <3> QED
            BY <2>1, <2>2, <3>1 DEF Owes, Concerns
    <2> QED
        BY <2>1, <2>2, CoveredOthers
<1>8. ASSUME SourceRefuses(r)
      PROVE  Covered'
    <2>1. CASE /\ At(r, "evict")
               /\ \E gone \in SUBSET Evictions(r) : Unsubscribe(r, gone)
        BY <1>8, <2>1, CoveredUnsubscribe DEF SourceRefuses, db, task
    <2>2. CASE /\ At(r, "subscribe") /\ UNCHANGED evicted
               /\ \E new \in SUBSET Additions(r) : Extend(r, new)
        <3>1. /\ UNCHANGED <<watch, live, unsettled, arg, wanted>>
              /\ pc[r] = "subscribe" /\ pc'[r] = "undo"
              /\ \A q \in Requests \ {r} : pc'[q] = pc[q]
              /\ \A s \in Sources : tracked[s] \subseteq tracked'[s]
            BY <1>8, <2>2 DEF SourceRefuses, Extend, db, task, Types
        <3>2. \A t : Owes(r, t) => Owes(r, t)'
            BY <2>2, <3>1 DEF Owes, Concerns
        <3>3. live # NoSource => tracked[live] \subseteq tracked'[live]
            BY <3>1 DEF Types
        <3> QED
            BY <2>2, <3>1, <3>2, <3>3, CoveredOthers
    <2> QED
        BY <1>8, <2>1, <2>2 DEF SourceRefuses
<1> QED
    BY <1>1, <1>2, <1>3, <1>4, <1>5, <1>6, <1>7, <1>8 DEF RequestStep

LEMMA CoveredStep == Types /\ Covered /\ [Next]_vars => Covered'
<1> SUFFICES ASSUME Types, Covered, [Next]_vars
             PROVE  Covered'
    OBVIOUS
<1>1. CASE UNCHANGED vars
    BY <1>1 DEF vars, Covered, Owes, Concerns
<1>2. ASSUME NEW x \in Trades, TradeStep(x)
      PROVE  Covered'
    BY <1>2, CoveredSame
       DEF TradeStep, TradePriced, BuyCommit, SellCommit, At, Goto, db, feed, history, Types,
           Tasks, Owes, Concerns
<1>3. CASE Failover
    <2>1. tracked'[live'] = tracked[live] /\ live # NoSource
        BY <1>3 DEF Failover, Types, Sources, NoSource
    <2>2. UNCHANGED <<watch, unsettled, pc, arg, wanted, evicted>>
        BY <1>3 DEF Failover, db, task
    <2> QED
        BY <2>1, <2>2, CoveredSame DEF Owes, Concerns
<1>4. CASE FailoverFails
    BY <1>4 DEF FailoverFails, Covered
<1>5. ASSUME NEW x \in Tasks, Unavailable(x)
      PROVE  Covered'
    BY <1>5 DEF Unavailable, Covered, feed
<1>6. CASE Restart
    BY <1>6 DEF Restart, LoadTrackedTickers, db, Covered, Sources
<1> QED
    BY <1>1, <1>2, <1>3, <1>4, <1>5, <1>6, CoveredRequest DEF Next

\* Once nobody reconciles, what is watched is streamed, whatever overlapped on the way.
THEOREM Coverage == Spec => []WatchedIsStreamed
<1>1. Covered => WatchedIsStreamed
    BY DEF Covered, WatchedIsStreamed, Streamed, Quiet, Ended, Owes
<1> QED
    BY <1>1, TypesHold, CoveredInit, CoveredStep, PTL DEF Spec

-----------------------------------------------------------------------------
(* The reconcile *)

\* While nobody has disturbed its reconcile, what a request has read is how things are,
\* and once it has evicted its source streams no more than that.
Undisturbed(r) ==
    /\ pc[r] \in {"evict", "subscribe"} => wanted[r] = watch \cup held
    /\ pc[r] \in {"read2", "subscribe"} => tracked[source[r]] \subseteq watch \cup held

Settling == \A r \in Requests \ disturbed : Undisturbed(r)

LEMMA SettlingInit == Init => Settling
BY DEF Init, Settling, Undisturbed, Tasks

\* Nothing a reconcile depends on has moved.
LEMMA SettlingOthers ==
    ASSUME Types, Settling, NEW x, UNCHANGED <<watch, held>>,
           \A s \in Sources : tracked'[s] = tracked[s],
           \A r \in Requests \ {x} :
               /\ pc'[r] = pc[r] /\ wanted'[r] = wanted[r] /\ source'[r] = source[r]
               /\ r \in disturbed => r \in disturbed',
           x \in Requests => x \in disturbed' \/ Undisturbed(x)'
    PROVE  Settling'
BY DEF Types, Settling, Undisturbed

\* Everybody who depends on what has moved is told.
LEMMA SettlingDisturbed ==
    ASSUME Settling, NEW x,
           \A r \in Requests \ {x} : pc'[r] = pc[r],
           disturbed' = disturbed \cup (Reconciling \ {x}),
           x \in Requests => x \in disturbed' \/ Undisturbed(x)'
    PROVE  Settling'
BY DEF Settling, Undisturbed, Reconciling

LEMMA SettlingRequest ==
    ASSUME Types, Settling, NEW r \in Requests, RequestStep(r)
    PROVE  Settling'
<1> USE DEF At, Goto, Tasks
<1>1. ASSUME \/ \E kind \in {"add", "remove"}, s \in Spellings : Arrive(r, kind, s)
             \/ UndoFails(r) \/ ReadFails(r)
      PROVE  Settling'
    <2>1. pc'[r] \in {"row", "failed", "undo"}
        BY <1>1 DEF Arrive, UndoFails, ReadFails, Finish, Types
    <2> QED
        BY <1>1, <2>1, SettlingOthers
           DEF Arrive, UndoFails, ReadFails, Finish, db, feed, task, history, Types, Undisturbed
<1>2. ASSUME AddRow(r) \/ RemoveRow(r)
      PROVE  Settling'
    <2>1. CASE UNCHANGED <<watch, disturbed>>
        <3>1. pc'[r] \in {"refused", "read1"}
            BY <1>2 DEF AddRow, RemoveRow, Finish, Types
        <3> QED
            BY <1>2, <2>1, <3>1, SettlingOthers
               DEF AddRow, RemoveRow, Finish, feed, task, Types, Undisturbed
    <2>2. CASE pc' = [pc EXCEPT ![r] = "read1"] /\ Disturb(r)
        BY <2>2, SettlingDisturbed DEF Disturb, Types, Undisturbed
    <2> QED
        BY <1>2, <2>1, <2>2 DEF AddRow, RemoveRow
<1>3. ASSUME AddUndo(r) \/ RemoveUndo(r)
      PROVE  Settling'
    <2>1. pc' = [pc EXCEPT ![r] = "failed"] /\ Disturb(r)
        BY <1>3 DEF AddUndo, RemoveUndo, Finish
    <2> QED
        BY <2>1, SettlingDisturbed DEF Disturb, Types, Undisturbed
<1>4. ASSUME ReadFirst(r)
      PROVE  Settling'
    <2>1. Undisturbed(r)'
        BY <1>4 DEF ReadFirst, LoadTrackedTickers, db, Types, Undisturbed
    <2> QED
        BY <1>4, <2>1, SettlingOthers DEF ReadFirst, db, feed, task, Types
<1>5. ASSUME Evict(r)
      PROVE  Settling'
    <2>1. /\ pc[r] = "evict" /\ pc'[r] = "read2" /\ \A q \in Requests \ {r} : pc'[q] = pc[q]
          /\ tracked'[source[r]] = tracked[source[r]] \ Evictions(r)
          /\ UNCHANGED <<watch, held, source, wanted>>
        BY <1>5 DEF Evict, Unsubscribe, db, task, Types
    <2>2. disturbed \subseteq disturbed'
        BY <1>5 DEF Evict, Unsubscribe, Disturb
    <2>3. r \in disturbed' \/ Undisturbed(r)'
        BY <2>1, <2>2 DEF Settling, Undisturbed, Evictions
    <2>4. CASE Evictions(r) = {}
        <3>1. \A s \in Sources : tracked'[s] = tracked[s]
            BY <1>5, <2>4 DEF Evict, Unsubscribe, Types
        <3> QED
            BY <1>5, <2>1, <2>2, <2>3, <3>1, SettlingOthers
    <2>5. CASE Evictions(r) # {}
        BY <1>5, <2>1, <2>3, <2>5, SettlingDisturbed DEF Evict, Unsubscribe, Disturb
    <2> QED
        BY <2>4, <2>5
<1>6. ASSUME ReadSecond(r)
      PROVE  Settling'
    <2>1. r \in disturbed \/ Undisturbed(r)'
        BY <1>6
           DEF ReadSecond, SecondRead, LoadTrackedTickers, db, feed, task, Types, Settling,
               Undisturbed
    <2> QED
        BY <1>6, <2>1, SettlingOthers DEF ReadSecond, db, feed, task, history, Types
<1>7. ASSUME Subscribe(r)
      PROVE  Settling'
    <2>1. /\ pc'[r] = "done"
          /\ \A q \in Requests \ {r} :
                 pc'[q] = pc[q] /\ wanted'[q] = wanted[q] /\ source'[q] = source[q]
          /\ UNCHANGED <<watch, held>>
        BY <1>7 DEF Subscribe, Finish, db, Types
    <2>2. disturbed \subseteq disturbed' /\ Undisturbed(r)'
        BY <1>7, <2>1 DEF Subscribe, Extend, Disturb, Undisturbed
    <2>3. CASE Additions(r) = {}
        <3>1. \A s \in Sources : tracked'[s] = tracked[s]
            BY <1>7, <2>3 DEF Subscribe, Extend, Types
        <3> QED
            BY <2>1, <2>2, <3>1, SettlingOthers
    <2>4. CASE Additions(r) # {}
        BY <1>7, <2>1, <2>2, <2>4, SettlingDisturbed DEF Subscribe, Extend, Disturb
    <2> QED
        BY <2>3, <2>4
<1>8. ASSUME SourceRefuses(r)
      PROVE  Settling'
    <2>1. /\ pc'[r] = "undo" /\ \A q \in Requests \ {r} : pc'[q] = pc[q]
          /\ UNCHANGED <<watch, held, source, wanted>>
        BY <1>8 DEF SourceRefuses, db, task, Types
    <2>2. Undisturbed(r)'
        BY <2>1 DEF Undisturbed
    <2>3. \/ Disturb(r)
          \/ (\A s \in Sources : tracked'[s] = tracked[s]) /\ UNCHANGED disturbed
        <3>1. ASSUME NEW gone, Unsubscribe(r, gone)
              PROVE  \/ Disturb(r)
                     \/ (\A s \in Sources : tracked'[s] = tracked[s]) /\ UNCHANGED disturbed
            <4>1. CASE gone = {}
                BY <3>1, <4>1 DEF Unsubscribe, Types
            <4>2. CASE gone # {}
                BY <3>1, <4>2 DEF Unsubscribe
            <4> QED
                BY <4>1, <4>2
        <3>2. ASSUME NEW new, Extend(r, new)
              PROVE  \/ Disturb(r)
                     \/ (\A s \in Sources : tracked'[s] = tracked[s]) /\ UNCHANGED disturbed
            <4>1. CASE new = {}
                BY <3>2, <4>1 DEF Extend, Types
            <4>2. CASE new # {}
                BY <3>2, <4>2 DEF Extend
            <4> QED
                BY <4>1, <4>2
        <3> QED
            BY <1>8, <3>1, <3>2, Zenon DEF SourceRefuses
    <2>4. CASE Disturb(r)
        BY <2>1, <2>2, <2>4, SettlingDisturbed DEF Disturb
    <2>5. CASE (\A s \in Sources : tracked'[s] = tracked[s]) /\ UNCHANGED disturbed
        BY <2>1, <2>2, <2>5, SettlingOthers
    <2> QED
        BY <2>3, <2>4, <2>5
<1> QED
    BY <1>1, <1>2, <1>3, <1>4, <1>5, <1>6, <1>7, <1>8 DEF RequestStep

LEMMA SettlingStep == Types /\ Settling /\ [Next]_vars => Settling'
<1> SUFFICES ASSUME Types, Settling, [Next]_vars
             PROVE  Settling'
    OBVIOUS
<1>1. CASE UNCHANGED vars
    BY <1>1 DEF vars, Settling, Undisturbed
<1>2. ASSUME NEW x \in Trades, TradeStep(x)
      PROVE  Settling'
    <2>1. pc'[x] \in {"priced", "done"} /\ \A r \in Requests \ {x} : pc'[r] = pc[r]
        BY <1>2 DEF TradeStep, TradePriced, BuyCommit, SellCommit, At, Goto, Types, Tasks
    <2>2. CASE \E t \in Tickers : TradePriced(x, t)
        BY <2>1, <2>2, SettlingOthers DEF TradePriced, db, feed, history, Undisturbed
    <2>3. CASE BuyCommit(x) \/ SellCommit(x)
        BY <2>1, <2>3, SettlingDisturbed DEF BuyCommit, SellCommit, Disturb, Undisturbed
    <2> QED
        BY <1>2, <2>2, <2>3 DEF TradeStep
<1>3. CASE Failover
    BY <1>3 DEF Failover, Settling, Undisturbed, Reconciling
<1>4. CASE FailoverFails
    BY <1>4 DEF FailoverFails, Settling, Undisturbed, db, task, history
<1>5. ASSUME NEW x \in Tasks, Unavailable(x)
      PROVE  Settling'
    <2>1. pc'[x] = "refused" /\ \A r \in Requests \ {x} : pc'[r] = pc[r]
        BY <1>5 DEF Unavailable, Goto, Types, Tasks
    <2> QED
        BY <1>5, <2>1, SettlingOthers DEF Unavailable, db, feed, task, history, Undisturbed
<1>6. CASE Restart
    BY <1>6 DEF Restart, Settling, Undisturbed, Tasks
<1> QED
    BY <1>1, <1>2, <1>3, <1>4, <1>5, <1>6, SettlingRequest DEF Next

\* A reconcile that nobody disturbs leaves exactly the watchlist and the positions
\* subscribed, whatever was subscribed before.
THEOREM Heals == Spec => ReconcileHeals
<1> DEFINE Exact ==
        \A r \in Requests :
            At(r, "subscribe") /\ pc'[r] = "done" /\ r \notin disturbed /\ source[r] = live
                => tracked'[live] = watch' \cup held'
<1>1. Types /\ Settling /\ [Next]_vars => Exact
    <2> SUFFICES ASSUME Types, Settling, [Next]_vars, NEW r \in Requests, pc[r] = "subscribe",
                        pc'[r] = "done", r \notin disturbed, source[r] = live
                 PROVE  tracked'[live] = watch' \cup held'
        BY DEF At
    <2>1. Subscribe(r)
        <3>1. ~UNCHANGED pc /\ ~Failover /\ ~FailoverFails /\ ~Restart
            BY DEF Failover, FailoverFails, Restart, Types, Tasks
        <3>2. ASSUME NEW x \in Tasks
              PROVE  ~Unavailable(x)
            BY DEF Unavailable, At, Goto, Types, Tasks
        <3>3. ASSUME NEW q \in Requests \ {r}
              PROVE  ~RequestStep(q)
            BY DEF RequestStep, Arrive, AddRow, RemoveRow, ReadFirst, Evict, ReadSecond,
                   Subscribe, ReadFails, SourceRefuses, AddUndo, RemoveUndo, UndoFails, Finish,
                   Goto, Types, Tasks
        <3>4. ASSUME NEW x \in Trades
              PROVE  ~TradeStep(x)
            BY DEF TradeStep, TradePriced, BuyCommit, SellCommit, At, Goto, Types, Tasks
        <3>5. RequestStep(r)
            BY <3>1, <3>2, <3>3, <3>4 DEF Next, vars
        <3> QED
            BY <3>5
               DEF RequestStep, Arrive, AddRow, RemoveRow, ReadFirst, Evict, ReadSecond,
                   ReadFails, SourceRefuses, Goto, Types, Tasks, AddUndo, RemoveUndo, UndoFails, At
    <2> QED
        BY <2>1 DEF Subscribe, Extend, Additions, db, Types, Settling, Undisturbed
<1> QED
    BY <1>1, TypesHold, SettlingInit, SettlingStep, PTL DEF Spec, ReconcileHeals

-----------------------------------------------------------------------------
(* The prices of holdings *)

\* What has been held ever since a request arrived is held now, and what the request
\* read before its evictions has it.
Kept ==
    \A r \in Requests :
        /\ keptHeld[r] \subseteq held
        /\ pc[r] = "evict" => keptHeld[r] \subseteq wanted[r]

LEMMA KeptInit == Init => Kept
BY DEF Init, Kept, Tasks

\* A request that steps leaves the others' facts alone.
LEMMA KeptOthers ==
    ASSUME Types, Kept, NEW r \in Requests, held' = held,
           \A q \in Requests \ {r} :
               pc'[q] = pc[q] /\ wanted'[q] = wanted[q] /\ keptHeld'[q] = keptHeld[q],
           keptHeld'[r] \subseteq held,
           pc'[r] = "evict" => keptHeld'[r] \subseteq wanted'[r]
    PROVE  Kept'
BY DEF Kept

LEMMA KeptRequest ==
    ASSUME Types, Kept, NEW r \in Requests, RequestStep(r)
    PROVE  Kept'
<1> USE DEF At, Goto, Tasks
<1>1. ASSUME \E kind \in {"add", "remove"}, s \in Spellings : Arrive(r, kind, s)
      PROVE  Kept'
    BY <1>1, KeptOthers DEF Arrive, db, Types
<1>2. ASSUME AddRow(r) \/ RemoveRow(r)
      PROVE  Kept'
    <2>1. /\ held' = held
          /\ \A q \in Requests \ {r} :
                 pc'[q] = pc[q] /\ wanted'[q] = wanted[q] /\ keptHeld'[q] = keptHeld[q]
          /\ keptHeld'[r] \in {keptHeld[r], {}} /\ pc'[r] # "evict"
        BY <1>2 DEF AddRow, RemoveRow, Finish, Types
    <2> QED
        BY <2>1, KeptOthers DEF Kept
<1>3. ASSUME AddUndo(r) \/ RemoveUndo(r) \/ UndoFails(r) \/ Subscribe(r)
      PROVE  Kept'
    <2>1. /\ held' = held
          /\ \A q \in Requests \ {r} :
                 pc'[q] = pc[q] /\ wanted'[q] = wanted[q] /\ keptHeld'[q] = keptHeld[q]
          /\ keptHeld'[r] = {} /\ pc'[r] # "evict"
        BY <1>3 DEF AddUndo, RemoveUndo, UndoFails, Subscribe, Finish, db, Types
    <2> QED
        BY <2>1, KeptOthers
<1>4. ASSUME ReadFirst(r)
      PROVE  Kept'
    <2>1. keptHeld'[r] \subseteq wanted'[r] /\ keptHeld'[r] \subseteq held
        BY <1>4 DEF ReadFirst, LoadTrackedTickers, Types, Kept
    <2> QED
        BY <1>4, <2>1, KeptOthers DEF ReadFirst, db, Types
<1>5. ASSUME Evict(r) \/ ReadSecond(r) \/ ReadFails(r) \/ SourceRefuses(r)
      PROVE  Kept'
    <2>1. /\ held' = held /\ keptHeld' = keptHeld
          /\ \A q \in Requests \ {r} : pc'[q] = pc[q] /\ wanted'[q] = wanted[q]
          /\ pc'[r] # "evict"
        BY <1>5 DEF Evict, ReadSecond, ReadFails, SourceRefuses, db, history, Types
    <2> QED
        BY <2>1, KeptOthers DEF Kept
<1> QED
    BY <1>1, <1>2, <1>3, <1>4, <1>5 DEF RequestStep

LEMMA KeptTrade ==
    ASSUME Types, Kept, NEW x \in Trades, TradeStep(x)
    PROVE  Kept'
<1> USE DEF At, Goto, Tasks
<1>1. /\ wanted' = wanted
      /\ \A r \in Requests : pc'[r] = "evict" => pc[r] = "evict"
    BY DEF TradeStep, TradePriced, BuyCommit, SellCommit, Types
<1>2. \/ held \subseteq held' /\ keptHeld' = keptHeld
      \/ /\ held' = held \ {arg[x]}
         /\ \A r \in Requests : keptHeld'[r] = keptHeld[r] \ {arg[x]}
    BY DEF TradeStep, TradePriced, BuyCommit, SellCommit, db, history
<1> QED
    BY <1>1, <1>2 DEF Kept

LEMMA KeptStep == Types /\ Kept /\ [Next]_vars => Kept'
<1> SUFFICES ASSUME Types, Kept, [Next]_vars
             PROVE  Kept'
    OBVIOUS
<1>1. CASE UNCHANGED vars
    BY <1>1 DEF vars, Kept
<1>2. ASSUME Failover \/ FailoverFails
      PROVE  Kept'
    BY <1>2 DEF Failover, FailoverFails, db, history, Kept
<1>3. ASSUME NEW x \in Tasks, Unavailable(x)
      PROVE  Kept'
    BY <1>3 DEF Unavailable, Goto, db, history, Kept, Types, Tasks
<1>4. CASE Restart
    BY <1>4 DEF Restart, Kept, Tasks
<1> QED
    BY <1>1, <1>2, <1>3, <1>4, KeptRequest, KeptTrade DEF Next

\* Only a request's own eviction, in full or in part, or a restart ends its wait to evict.
LEMMA EvictsItself ==
    ASSUME Types, [Next]_vars, NEW r \in Requests, pc[r] = "evict", pc'[r] # pc[r],
           pc'[r] # "lost"
    PROVE  Evict(r) \/ (SourceRefuses(r) /\ \E gone \in SUBSET Evictions(r) : Unsubscribe(r, gone))
<1> USE DEF At, Goto, Tasks
<1>1. ASSUME NEW q \in Requests \ {r}
      PROVE  ~RequestStep(q)
    BY DEF RequestStep, Arrive, AddRow, RemoveRow, ReadFirst, Evict, ReadSecond,
           Subscribe, ReadFails, SourceRefuses, AddUndo, RemoveUndo, UndoFails, Finish, Types
<1>2. ASSUME NEW x \in Trades
      PROVE  ~TradeStep(x)
    BY DEF TradeStep, TradePriced, BuyCommit, SellCommit, Types
<1>3. ~UNCHANGED pc /\ ~Failover /\ ~FailoverFails /\ ~Restart
    BY DEF Failover, FailoverFails, Restart, Types
<1>4. ASSUME NEW x \in Tasks
      PROVE  ~Unavailable(x)
    BY DEF Unavailable, Types
<1>5. RequestStep(r)
    BY <1>1, <1>2, <1>3, <1>4 DEF Next, vars
<1> QED
    BY <1>5
       DEF RequestStep, Arrive, AddRow, RemoveRow, ReadFirst, ReadSecond, Subscribe,
           ReadFails, SourceRefuses, AddUndo, RemoveUndo, UndoFails

\* A removal from the watchlist never takes the price of a holding away: whatever has
\* been held since a request arrived is in what it wanted when it evicts.
THEOREM HoldingsKept == Spec => HoldingsKeepTheirPrice
<1> DEFINE Kind ==
        \A r \in Requests :
            At(r, "evict") /\ pc'[r] # pc[r] /\ pc'[r] # "lost"
                => (tracked[source[r]] \ tracked'[source[r]]) \cap keptHeld[r] = {}
<1>1. Types /\ Kept /\ [Next]_vars => Kind
    <2> SUFFICES ASSUME Types, Kept, [Next]_vars, NEW r \in Requests, pc[r] = "evict",
                        pc'[r] # pc[r], pc'[r] # "lost"
                 PROVE  (tracked[source[r]] \ tracked'[source[r]]) \cap keptHeld[r] = {}
        BY DEF At
    <2>1. tracked[source[r]] \ tracked'[source[r]] \subseteq tracked[source[r]] \ wanted[r]
        BY EvictsItself DEF Evict, Unsubscribe, Evictions, Types
    <2>2. keptHeld[r] \subseteq wanted[r]
        BY DEF Kept
    <2> QED
        BY <2>1, <2>2
<1> QED
    BY <1>1, TypesHold, KeptInit, KeptStep, PTL DEF Spec, HoldingsKeepTheirPrice
=============================================================================
