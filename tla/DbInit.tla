-------------------------------- MODULE DbInit --------------------------------
(***************************************************************************)
(* Lazy creation and seeding of the database (backend/app/db/database.py): *)
(* every request opens a connection of its own and finds out for itself    *)
(* whether the file is usable; the first to find it is not creates schema  *)
(* and seed in one transaction, under a lock of the process.  The file may *)
(* be absent, half built or from an older version, a statement may fail,   *)
(* the process may die, and the file may be deleted underneath.            *)
(*                                                                         *)
(* External: SQLite (a connection keeps the file it opened, a statement    *)
(* outside a transaction sees what is committed, one writer at a time).    *)
(***************************************************************************)
EXTENDS Integers, Sequences

CONSTANTS
    DefaultTickers,   \* DEFAULT_TICKERS
    Threads,          \* threads that each serve one request
    NoThread,         \* a free lock
    MaxDeletions,     \* bound: deletions of the file
    MaxFaults         \* bound: failing statements and crashes

ASSUME NoThreadAssumption == NoThread \notin Threads

VARIABLES
    files,      \* every file there has been: what is committed in it
    current,    \* the one at DB_PATH, 0 when there is none
    writer,     \* file -> holder of its write lock
    initLock,   \* _init_lock
    pc,
    opened,     \* thread -> the file its connection is on
    work,       \* thread -> the file as its transaction sees it
    deletions, faults

vars == <<files, current, writer, initLock, pc, opened, work, deletions, faults>>

\* The six tables, the profile row and the watchlist rows.  An opening balance and
\* one that was traded on are told apart.
Empty == [tables |-> "none", profile |-> "none", rows |-> {}]

Found ==
    {Empty} \cup [tables : {"some", "all"}, profile : {"none", "opening", "traded"},
                  rows : SUBSET DefaultTickers]

Init ==
    /\ files \in {<<>>} \cup {<<f>> : f \in Found}
    /\ current = Len(files)
    /\ writer = [f \in DOMAIN files |-> NoThread]
    /\ initLock = NoThread
    /\ pc = [t \in Threads |-> "idle"]
    /\ opened = [t \in Threads |-> 0]
    /\ work = [t \in Threads |-> Empty]
    /\ deletions = 0 /\ faults = 0

File(t) == files[opened[t]]
Goto(t, at) == pc' = [pc EXCEPT ![t] = at]

-----------------------------------------------------------------------------
(* connect and ensure_initialized *)

Connect(t) ==
    /\ pc[t] = "idle"
    /\ IF current = 0
       THEN /\ files' = Append(files, Empty)
            /\ writer' = Append(writer, NoThread)
            /\ current' = Len(files')
       ELSE UNCHANGED <<files, writer, current>>
    /\ opened' = [opened EXCEPT ![t] = current']
    /\ Goto(t, "tables")
    /\ UNCHANGED <<initLock, work, deletions, faults>>

\* _is_initialized said yes: inside the lock this leaves it.
Ready(t) ==
    /\ Goto(t, "using")
    /\ initLock' = IF initLock = t THEN NoThread ELSE initLock

NotReady(t) ==
    /\ Goto(t, IF initLock = t THEN "begin" ELSE "lock")
    /\ UNCHANGED initLock

CheckTables(t) ==
    /\ pc[t] = "tables"
    /\ IF File(t).tables = "all" THEN Goto(t, "profile") /\ UNCHANGED initLock
       ELSE NotReady(t)
    /\ UNCHANGED <<files, current, writer, opened, work, deletions, faults>>

\* Mutant of Seeded: structured is good enough.
SeededAssumed(f) == TRUE
Seeded(f) == f.profile # "none"

CheckProfile(t) ==
    /\ pc[t] = "profile"
    /\ IF Seeded(File(t)) THEN Ready(t) ELSE NotReady(t)
    /\ UNCHANGED <<files, current, writer, opened, work, deletions, faults>>

\* Mutant of UnderTheLock: the check is not repeated.
UnderTheLockAtOnce == "begin"
UnderTheLock == "tables"

TakeInitLock(t) ==
    /\ pc[t] = "lock" /\ initLock = NoThread
    /\ initLock' = t
    /\ Goto(t, UnderTheLock)
    /\ UNCHANGED <<files, current, writer, opened, work, deletions, faults>>

Begin(t) ==
    /\ pc[t] = "begin" /\ writer[opened[t]] = NoThread
    /\ writer' = [writer EXCEPT ![opened[t]] = t]
    /\ work' = [work EXCEPT ![t] = File(t)]
    /\ Goto(t, "schema")
    /\ UNCHANGED <<files, current, initLock, opened, deletions, faults>>

\* CREATE ... IF NOT EXISTS, one statement after the other.
CreateTable(t) ==
    /\ pc[t] = "schema"
    /\ \/ work' = [work EXCEPT ![t].tables = "some"] /\ work[t].tables = "none" /\ UNCHANGED pc
       \/ work' = [work EXCEPT ![t].tables = "all"] /\ Goto(t, "profile row")
    /\ UNCHANGED <<files, current, writer, initLock, opened, deletions, faults>>

\* Both inserts are OR IGNORE.
SeedProfile(t) ==
    /\ pc[t] = "profile row"
    /\ work' = [work EXCEPT ![t].profile = IF @ = "none" THEN "opening" ELSE @]
    /\ Goto(t, "watchlist rows")
    /\ UNCHANGED <<files, current, writer, initLock, opened, deletions, faults>>

SeedWatchlist(t) ==
    /\ pc[t] = "watchlist rows"
    /\ work' = [work EXCEPT ![t].rows = @ \cup DefaultTickers]
    /\ Goto(t, "commit")
    /\ UNCHANGED <<files, current, writer, initLock, opened, deletions, faults>>

Commit(t) ==
    /\ pc[t] = "commit"
    /\ files' = [files EXCEPT ![opened[t]] = work[t]]
    /\ writer' = [writer EXCEPT ![opened[t]] = NoThread]
    /\ initLock' = NoThread
    /\ Goto(t, "using")
    /\ UNCHANGED <<current, opened, work, deletions, faults>>

Initialising == {"schema", "profile row", "watchlist rows", "commit"}

\* Mutant of Rollback: the transaction stays open.
RollbackForgotten(t) == writer
Rollback(t) == [writer EXCEPT ![opened[t]] = NoThread]

\* Mutant of Unlock: the failing thread keeps the lock.
UnlockForgotten(t) == initLock
Unlock(t) == IF initLock = t THEN NoThread ELSE initLock

\* A statement raises, BEGIN after its time-out included.
Fail(t) ==
    /\ pc[t] \in {"tables", "profile", "begin"} \cup Initialising
    /\ faults < MaxFaults
    /\ faults' = faults + 1
    /\ writer' = IF pc[t] \in Initialising THEN Rollback(t) ELSE writer
    /\ initLock' = Unlock(t)
    /\ Goto(t, "failed")
    /\ UNCHANGED <<files, current, opened, work, deletions>>

-----------------------------------------------------------------------------
(* What requests do with their connection *)

Read(t) ==
    /\ pc[t] = "using"
    /\ Goto(t, "done")
    /\ UNCHANGED <<files, current, writer, initLock, opened, work, deletions, faults>>

\* A trade, or the removal of a ticker, in a transaction of its own.
Write(t) ==
    /\ pc[t] = "using" /\ writer[opened[t]] = NoThread
    /\ \/ files' = [files EXCEPT ![opened[t]].profile = "traded"]
       \/ \E ticker \in File(t).rows : files' = [files EXCEPT ![opened[t]].rows = @ \ {ticker}]
    /\ Goto(t, "done")
    /\ UNCHANGED <<current, writer, initLock, opened, work, deletions, faults>>

-----------------------------------------------------------------------------
(* The world *)

Ended == {"idle", "done", "failed", "lost"}

Crash ==
    /\ faults < MaxFaults
    /\ faults' = faults + 1
    /\ pc' = [t \in Threads |-> IF pc[t] \in Ended THEN pc[t] ELSE "lost"]
    /\ writer' = [f \in DOMAIN writer |-> NoThread]
    /\ initLock' = NoThread
    /\ UNCHANGED <<files, current, opened, work, deletions>>

\* Connections keep the file they are on; the next one starts a new file.
DeleteFile ==
    /\ current # 0 /\ deletions < MaxDeletions
    /\ deletions' = deletions + 1
    /\ current' = 0
    /\ UNCHANGED <<files, writer, initLock, pc, opened, work, faults>>

Step(t) ==
    \/ CheckTables(t) \/ CheckProfile(t) \/ TakeInitLock(t) \/ Begin(t)
    \/ CreateTable(t) \/ SeedProfile(t) \/ SeedWatchlist(t) \/ Commit(t) \/ Fail(t)
    \/ Read(t) \/ Write(t)

Next ==
    \/ \E t \in Threads : Connect(t) \/ Step(t)
    \/ Crash
    \/ DeleteFile

\* A thread that has begun goes on.
Fairness == \A t \in Threads : WF_vars(Step(t))

Spec == Init /\ [][Next]_vars /\ Fairness

-----------------------------------------------------------------------------
(* Properties *)

Complete(f) == f.tables = "all" /\ f.profile # "none"

\* No request runs on a database without its tables or without a balance: not while
\* another thread is still creating it, not after an initialisation that failed or
\* died, and not when the file the process had created was deleted.
ServedComplete == \A t \in Threads : pc[t] = "using" => Complete(File(t))

\* A database in use is never seeded again: removed tickers stay removed and a
\* balance never returns to its opening value, however many threads found the file
\* unusable before it was complete.
NeverReseeded ==
    [][\A f \in DOMAIN files :
          Complete(files[f]) =>
              /\ files'[f].rows \subseteq files[f].rows
              /\ files[f].profile = "traded" => files'[f].profile = "traded"]_vars

\* Every request gets past initialisation or fails; nobody waits for the lock of a
\* thread that has failed.
EveryRequestEnds == \A t \in Threads : (pc[t] = "tables") ~> (pc[t] \in Ended)
=============================================================================
