----------------------------- MODULE DbInitProofs -----------------------------
(***************************************************************************)
(* Theorems about the creation of the database, for any number of threads, *)
(* files, deletions and faults and any default watchlist.                  *)
(***************************************************************************)
EXTENDS DbInit, TLAPS

-----------------------------------------------------------------------------
(* The inductive invariant *)

Databases ==
    [tables : {"none", "some", "all"}, profile : {"none", "opening", "traded"},
     rows : SUBSET DefaultTickers]

Types ==
    /\ files \in Seq(Databases)
    /\ current \in 0..Len(files)
    /\ DOMAIN writer = DOMAIN files
    /\ initLock \in Threads \cup {NoThread}
    /\ DOMAIN pc = Threads
    /\ opened \in [Threads -> 0..Len(files)]
    /\ work \in [Threads -> Databases]

Creating == {"begin"} \cup Initialising

\* What the place of a thread says: it is on a file; it has found all the tables; it
\* creates a database only under the lock and only where none is complete; the work it
\* is about to commit is; and a request is served from a complete one.
Stage(t) ==
    /\ pc[t] # "idle" => opened[t] \in 1..Len(files)
    /\ pc[t] = "profile" => File(t).tables = "all"
    /\ pc[t] \in Creating => initLock = t /\ ~Complete(File(t))
    /\ pc[t] \in {"profile row", "watchlist rows", "commit"} => work[t].tables = "all"
    /\ pc[t] \in {"watchlist rows", "commit"} => work[t].profile # "none"
    /\ pc[t] = "using" => Complete(File(t))

Inv == Types /\ \A t \in Threads : Stage(t)

LEMMA InvInit == Init => Inv
<1> SUFFICES ASSUME Init
             PROVE  Inv
    OBVIOUS
<1>1. Found \subseteq Databases
    BY DEF Found, Empty, Databases
<1>2. files \in Seq(Databases)
    <2>1. CASE files = <<>>
        BY <2>1
    <2>2. CASE files \in {<<f>> : f \in Found}
        <3>1. PICK f \in Found : files = <<f>>
            BY <2>2
        <3> QED
            BY <3>1, <1>1
    <2> QED
        BY <2>1, <2>2 DEF Init
<1>3. Empty \in Databases
    BY DEF Empty, Databases
<1>4. Types
    BY <1>2, <1>3 DEF Init, Types
<1> QED
    BY <1>4 DEF Init, Inv, Stage, Creating, Initialising

-----------------------------------------------------------------------------
(* Steps that leave the files alone *)

\* Only the place of t, its work and the lock move; the lock moves only from or to t.
LEMMA Private ==
    ASSUME Inv, NEW t \in Threads,
           UNCHANGED <<files, current, opened>>, DOMAIN writer' = DOMAIN writer,
           DOMAIN pc' = Threads, \A u \in Threads \ {t} : pc'[u] = pc[u],
           work' \in [Threads -> Databases], \A u \in Threads \ {t} : work'[u] = work[u],
           \/ initLock' = initLock
           \/ initLock \in {t, NoThread} /\ initLock' \in {t, NoThread},
           Stage(t)'
    PROVE  Inv'
<1>1. Types'
    BY DEF Inv, Types
<1>2. ASSUME NEW u \in Threads \ {t}
      PROVE  Stage(u)'
    <2>1. pc'[u] = pc[u] /\ work'[u] = work[u] /\ (initLock = u => initLock' = u)
        BY NoThreadAssumption
    <2>2. Stage(u)
        BY DEF Inv
    <2> QED
        BY <2>1, <2>2 DEF Stage, File, Complete, Creating, Initialising
<1> QED
    BY <1>1, <1>2 DEF Inv

LEMMA StepCheckTables ==
    ASSUME Inv, NEW t \in Threads, CheckTables(t)
    PROVE  Inv'
<1>1. Stage(t)'
    BY DEF Inv, Types, Stage, CheckTables, NotReady, Goto, File, Complete, Creating,
           Initialising
<1> QED
    BY <1>1, Private DEF CheckTables, NotReady, Goto, Inv, Types

LEMMA StepCheckProfile ==
    ASSUME Inv, NEW t \in Threads, CheckProfile(t)
    PROVE  Inv'
<1>1. CASE Seeded(File(t))
    <2>1. Stage(t)'
        BY <1>1 DEF Inv, Types, Stage, CheckProfile, Ready, Goto, File, Seeded, Complete,
               Creating, Initialising
    <2> QED
        BY <1>1, <2>1, Private DEF CheckProfile, Ready, Goto, Inv, Types
<1>2. CASE ~Seeded(File(t))
    <2>1. Stage(t)'
        BY <1>2 DEF Inv, Types, Stage, CheckProfile, NotReady, Goto, File, Seeded, Complete,
               Creating, Initialising
    <2> QED
        BY <1>2, <2>1, Private DEF CheckProfile, NotReady, Goto, Inv, Types
<1> QED
    BY <1>1, <1>2

LEMMA StepTakeInitLock ==
    ASSUME Inv, NEW t \in Threads, TakeInitLock(t)
    PROVE  Inv'
<1>1. Stage(t)'
    BY DEF Inv, Types, Stage, TakeInitLock, UnderTheLock, Goto, Creating, Initialising
<1> QED
    BY <1>1, Private DEF TakeInitLock, Goto, Inv, Types

LEMMA StepBegin ==
    ASSUME Inv, NEW t \in Threads, Begin(t)
    PROVE  Inv'
<1>1. File(t) \in Databases
    <2>1. pc[t] = "begin" /\ Stage(t)
        BY DEF Inv, Begin
    <2>2. opened[t] \in 1..Len(files) /\ files \in Seq(Databases)
        BY <2>1 DEF Inv, Types, Stage
    <2> QED
        BY <2>2 DEF File
<1>2. work' \in [Threads -> Databases] /\ \A u \in Threads \ {t} : work'[u] = work[u]
    BY <1>1 DEF Inv, Types, Begin
<1>3. Stage(t)'
    BY DEF Inv, Types, Stage, Begin, Goto, File, Complete, Creating, Initialising
<1> QED
    BY <1>2, <1>3, Private DEF Begin, Goto, Inv, Types

LEMMA StepRead ==
    ASSUME Inv, NEW t \in Threads, Read(t)
    PROVE  Inv'
<1>1. Stage(t)'
    BY DEF Inv, Types, Stage, Read, Goto, Creating, Initialising
<1> QED
    BY <1>1, Private DEF Read, Goto, Inv, Types

LEMMA StepSeed ==
    ASSUME Inv, NEW t \in Threads, CreateTable(t) \/ SeedProfile(t) \/ SeedWatchlist(t)
    PROVE  Inv'
<1>1. PICK f \in Databases : work' = [work EXCEPT ![t] = f]
    <2>1. work[t] \in Databases
        BY DEF Inv, Types
    <2>2. ASSUME CreateTable(t)
          PROVE  \E f \in Databases : work' = [work EXCEPT ![t] = f]
        <3>1. [work[t] EXCEPT !.tables = "some"] \in Databases
            BY <2>1 DEF Databases
        <3>2. [work[t] EXCEPT !.tables = "all"] \in Databases
            BY <2>1 DEF Databases
        <3> QED
            BY <2>2, <3>1, <3>2 DEF CreateTable
    <2>3. ASSUME SeedProfile(t)
          PROVE  \E f \in Databases : work' = [work EXCEPT ![t] = f]
        <3> DEFINE profile == IF work[t].profile = "none" THEN "opening" ELSE work[t].profile
        <3>1. [work[t] EXCEPT !.profile = profile] \in Databases
            BY <2>1 DEF Databases
        <3> QED
            BY <2>3, <3>1 DEF SeedProfile
    <2>4. ASSUME SeedWatchlist(t)
          PROVE  \E f \in Databases : work' = [work EXCEPT ![t] = f]
        <3>1. [work[t] EXCEPT !.rows = work[t].rows \cup DefaultTickers] \in Databases
            BY <2>1 DEF Databases
        <3> QED
            BY <2>4, <3>1 DEF SeedWatchlist
    <2> QED
        BY <2>2, <2>3, <2>4
<1>2. work' \in [Threads -> Databases] /\ \A u \in Threads \ {t} : work'[u] = work[u]
    BY <1>1 DEF Inv, Types
<1>3. pc[t] \in Initialising /\ opened[t] \in 1..Len(files) /\ initLock = t
      /\ ~Complete(File(t))
    BY DEF Inv, Stage, CreateTable, SeedProfile, SeedWatchlist, Creating, Initialising
<1>4. /\ DOMAIN pc' = Threads /\ \A u \in Threads \ {t} : pc'[u] = pc[u]
      /\ pc'[t] \in Initialising
    BY DEF Inv, Types, CreateTable, SeedProfile, SeedWatchlist, Goto, Initialising
<1>5. UNCHANGED <<files, current, writer, initLock, opened>>
    BY DEF CreateTable, SeedProfile, SeedWatchlist
<1>6. Stage(t) /\ work[t] \in Databases
    BY DEF Inv, Types
<1>7. /\ pc'[t] # "schema" => work'[t].tables = "all"
      /\ pc'[t] \in {"watchlist rows", "commit"} => work'[t].profile # "none"
    <2>1. CASE CreateTable(t)
        BY <2>1, <1>6, ZenonT(40) DEF Inv, Types, Databases, CreateTable, Goto
    <2>2. CASE SeedProfile(t)
        BY <2>2, <1>6 DEF Inv, Types, Databases, Stage, SeedProfile, Goto
    <2>3. CASE SeedWatchlist(t)
        BY <2>3, <1>6 DEF Inv, Types, Databases, Stage, SeedWatchlist, Goto
    <2> QED
        BY <2>1, <2>2, <2>3
<1>8. Stage(t)'
    BY <1>3, <1>4, <1>5, <1>7 DEF Stage, File, Complete, Creating, Initialising
<1> QED
    BY <1>2, <1>4, <1>5, <1>8, Private

LEMMA StepFail ==
    ASSUME Inv, NEW t \in Threads, Fail(t)
    PROVE  Inv'
<1>1. Stage(t)'
    BY DEF Inv, Types, Stage, Fail, Goto, Creating, Initialising
<1> QED
    BY <1>1, Private DEF Fail, Goto, Unlock, Rollback, Inv, Types
-----------------------------------------------------------------------------
(* Steps that change a file or the world *)

\* A connection is opened, on a new file if there is none.
LEMMA StepConnect ==
    ASSUME Inv, NEW t \in Threads, Connect(t)
    PROVE  Inv'
<1>1. Empty \in Databases
    BY DEF Empty, Databases
<1>2. /\ files' \in Seq(Databases) /\ Len(files) <= Len(files')
      /\ \A f \in 1..Len(files) : files'[f] = files[f]
      /\ current' \in 1..Len(files')
      /\ DOMAIN writer' = DOMAIN files'
    <2>1. CASE current = 0
        <3>1. files' = Append(files, Empty) /\ current' = Len(files')
            BY <2>1 DEF Connect
        <3>2. DOMAIN writer' = 1..(Len(writer) + 1)
            BY <2>1 DEF Connect, Inv, Types
        <3> QED
            BY <3>1, <3>2, <1>1 DEF Inv, Types
    <2>2. CASE current # 0
        BY <2>2 DEF Connect, Inv, Types
    <2> QED
        BY <2>1, <2>2
<1>3. Types'
    BY <1>2 DEF Connect, Goto, Inv, Types
<1>4. Stage(t)'
    BY <1>2 DEF Connect, Goto, Inv, Types, Stage, Creating, Initialising
<1>5. ASSUME NEW u \in Threads \ {t}
      PROVE  Stage(u)'
    <2>1. pc'[u] = pc[u] /\ opened'[u] = opened[u] /\ work'[u] = work[u] /\ initLock' = initLock
        BY DEF Connect, Goto, Inv, Types
    <2>2. Stage(u)
        BY DEF Inv
    <2>3. pc[u] # "idle" => File(u)' = File(u) /\ opened[u] \in 1..Len(files')
        <3>1. pc[u] # "idle" => opened[u] \in 1..Len(files)
            BY <2>2 DEF Stage
        <3>2. Len(files) \in Nat /\ Len(files') \in Nat
            BY <1>2 DEF Inv, Types
        <3> QED
            BY <1>2, <2>1, <3>1, <3>2 DEF File
    <2> QED
        BY <2>1, <2>2, <2>3 DEF Stage, Complete, Creating, Initialising
<1> QED
    BY <1>3, <1>4, <1>5 DEF Inv

\* A file changes that stays, or becomes, complete: nobody else is creating one, and
\* whoever was served from it still is.
LEMMA Writes ==
    ASSUME Inv, NEW t \in Threads, NEW database \in Databases, opened[t] \in 1..Len(files),
           files' = [files EXCEPT ![opened[t]] = database], Complete(database),
           UNCHANGED <<current, opened, work>>, DOMAIN writer' = DOMAIN writer,
           pc[t] # "idle", pc' \in {[pc EXCEPT ![t] = "using"], [pc EXCEPT ![t] = "done"]},
           \/ Complete(files[opened[t]]) /\ initLock' = initLock
           \/ initLock = t /\ initLock' = NoThread
    PROVE  Inv'
<1>1. files' \in Seq(Databases) /\ Len(files') = Len(files)
    BY DEF Inv, Types
<1>2. Types'
    BY <1>1 DEF Inv, Types
<1>3. files'[opened[t]] = database /\ \A g \in 1..Len(files) \ {opened[t]} : files'[g] = files[g]
    BY DEF Inv, Types
<1>4. Stage(t)'
    <2>1. pc'[t] \in {"using", "done"}
        BY DEF Inv, Types
    <2>2. File(t)' = database
        BY <1>3 DEF File
    <2> QED
        BY <1>1, <2>1, <2>2 DEF Stage, Complete, Creating, Initialising
<1>5. ASSUME NEW u \in Threads \ {t}
      PROVE  Stage(u)'
    <2>1. pc'[u] = pc[u] /\ opened'[u] = opened[u] /\ work'[u] = work[u]
        BY DEF Inv, Types
    <2>2. Stage(u)
        BY DEF Inv
    <2>3. CASE opened[u] = opened[t]
        <3>1. pc[u] \notin Creating
            BY <2>2, <2>3, NoThreadAssumption DEF Stage, File
        <3> QED
            BY <1>1, <1>3, <2>1, <2>2, <2>3, <3>1
               DEF Stage, File, Complete, Creating, Initialising
    <2>4. CASE opened[u] # opened[t]
        <3>1. pc[u] # "idle" => File(u)' = File(u)
            BY <1>3, <2>1, <2>2, <2>4 DEF Stage, File
        <3>2. initLock = u => initLock' = u
            BY NoThreadAssumption
        <3> QED
            BY <1>1, <2>1, <2>2, <3>1, <3>2 DEF Stage, Complete, Creating, Initialising
    <2> QED
        BY <2>3, <2>4
<1> QED
    BY <1>2, <1>4, <1>5 DEF Inv

LEMMA StepCommit ==
    ASSUME Inv, NEW t \in Threads, Commit(t)
    PROVE  Inv'
<1>1. pc[t] = "commit" /\ Stage(t)
    BY DEF Inv, Commit
<1>2. /\ opened[t] \in 1..Len(files) /\ work[t] \in Databases /\ Complete(work[t])
      /\ initLock = t
    BY <1>1 DEF Stage, Complete, Creating, Initialising, Inv, Types
<1> QED
    BY <1>1, <1>2, Writes DEF Commit, Goto, Inv, Types

LEMMA StepWrite ==
    ASSUME Inv, NEW t \in Threads, Write(t)
    PROVE  Inv'
<1>1. pc[t] = "using" /\ Stage(t)
    BY DEF Inv, Write
<1>2. opened[t] \in 1..Len(files) /\ Complete(File(t)) /\ File(t) \in Databases
    <2>1. opened[t] \in 1..Len(files) /\ Complete(File(t)) /\ files \in Seq(Databases)
        BY <1>1 DEF Stage, Inv, Types
    <2> QED
        BY <2>1 DEF File
<1>3. PICK database \in Databases :
          files' = [files EXCEPT ![opened[t]] = database] /\ Complete(database)
    <2>1. CASE files' = [files EXCEPT ![opened[t]].profile = "traded"]
        <3>1. [File(t) EXCEPT !.profile = "traded"] \in Databases
              /\ Complete([File(t) EXCEPT !.profile = "traded"])
            BY <1>2 DEF Databases, Complete
        <3> QED
            BY <2>1, <3>1 DEF File
    <2>2. ASSUME NEW ticker, files' = [files EXCEPT ![opened[t]].rows = @ \ {ticker}]
          PROVE  \E database \in Databases :
                     files' = [files EXCEPT ![opened[t]] = database] /\ Complete(database)
        <3>1. [File(t) EXCEPT !.rows = @ \ {ticker}] \in Databases
              /\ Complete([File(t) EXCEPT !.rows = @ \ {ticker}])
            BY <1>2 DEF Databases, Complete
        <3> QED
            BY <2>2, <3>1 DEF File
    <2> QED
        BY <2>1, <2>2 DEF Write
<1>4. UNCHANGED <<current, opened, work>> /\ DOMAIN writer' = DOMAIN writer
    BY DEF Write
<1>5. pc' \in {[pc EXCEPT ![t] = "using"], [pc EXCEPT ![t] = "done"]} /\ pc[t] # "idle"
    BY <1>1 DEF Write, Goto
<1>6. Complete(files[opened[t]]) /\ initLock' = initLock
    BY <1>2 DEF File, Write
<1> QED
    BY <1>2, <1>3, <1>4, <1>5, <1>6, Writes

LEMMA StepCrash ==
    ASSUME Inv, Crash
    PROVE  Inv'
<1>1. Types'
    BY DEF Crash, Inv, Types
<1>2. ASSUME NEW u \in Threads
      PROVE  Stage(u)'
    <2>1. Stage(u) /\ pc'[u] \in Ended /\ (pc'[u] = "idle" <=> pc[u] = "idle")
        BY DEF Crash, Ended, Inv, Types
    <2> QED
        BY <2>1 DEF Crash, Stage, Ended, Creating, Initialising
<1> QED
    BY <1>1, <1>2 DEF Inv

LEMMA StepDeleteFile ==
    ASSUME Inv, DeleteFile
    PROVE  Inv'
<1>1. Types'
    BY DEF DeleteFile, Inv, Types
<1>2. ASSUME NEW u \in Threads
      PROVE  Stage(u)'
    <2>1. Stage(u)
        BY DEF Inv
    <2> QED
        BY <2>1 DEF DeleteFile, Stage, File, Complete, Creating, Initialising
<1> QED
    BY <1>1, <1>2 DEF Inv

LEMMA InvStep == Inv /\ [Next]_vars => Inv'
<1> SUFFICES ASSUME Inv, [Next]_vars
             PROVE  Inv'
    OBVIOUS
<1>1. CASE UNCHANGED vars
    BY <1>1 DEF vars, Inv, Types, Stage, File, Complete, Creating, Initialising
<1>2. ASSUME NEW t \in Threads, Connect(t) \/ Step(t)
      PROVE  Inv'
    BY <1>2, StepConnect, StepCheckTables, StepCheckProfile, StepTakeInitLock, StepBegin,
       StepSeed, StepCommit, StepFail, StepRead, StepWrite DEF Step
<1> QED
    BY <1>1, <1>2, StepCrash, StepDeleteFile DEF Next

-----------------------------------------------------------------------------
(* Theorems *)

LEMMA Invariance == Spec => []Inv
BY InvInit, InvStep, PTL DEF Spec

\* No request is served from a database without its tables or its balance, whichever
\* threads were creating it, failed at it or died of it.
THEOREM CompleteWhenServed == Spec => []ServedComplete
<1>1. Inv => ServedComplete
    BY DEF Inv, Stage, ServedComplete
<1> QED
    BY <1>1, Invariance, PTL

\* Once complete, a database is never given rows or a balance by initialisation again:
\* whoever creates one holds the lock and has seen it incomplete since.
THEOREM SeedsOnce == Spec => NeverReseeded
<1> DEFINE Kept ==
        \A f \in DOMAIN files :
            Complete(files[f]) =>
                /\ files'[f].rows \subseteq files[f].rows
                /\ files[f].profile = "traded" => files'[f].profile = "traded"
<1>1. Inv /\ [Next]_vars => Kept
    <2> SUFFICES ASSUME Inv, [Next]_vars, NEW f \in DOMAIN files, Complete(files[f])
                 PROVE  /\ files'[f].rows \subseteq files[f].rows
                        /\ files[f].profile = "traded" => files'[f].profile = "traded"
        OBVIOUS
    <2>1. CASE files' = files
        BY <2>1
    <2>2. ASSUME NEW t \in Threads, Connect(t)
          PROVE  files'[f] = files[f]
        BY <2>2 DEF Connect, Inv, Types
    <2>3. ASSUME NEW t \in Threads, Commit(t)
          PROVE  files'[f] = files[f]
        <3>1. ~Complete(files[opened[t]])
            BY <2>3 DEF Commit, Inv, Stage, Creating, Initialising, File
        <3> QED
            BY <2>3, <3>1 DEF Commit, Inv, Types
    <2>4. ASSUME NEW t \in Threads, Write(t)
          PROVE  /\ files'[f].rows \subseteq files[f].rows
                 /\ files[f].profile = "traded" => files'[f].profile = "traded"
        <3>1. files[f] \in Databases /\ f \in 1..Len(files)
            BY DEF Inv, Types
        <3>2. CASE files' = [files EXCEPT ![opened[t]].profile = "traded"]
            BY <3>1, <3>2 DEF Databases, Inv, Types
        <3>3. ASSUME NEW ticker, files' = [files EXCEPT ![opened[t]].rows = @ \ {ticker}]
              PROVE  /\ files'[f].rows \subseteq files[f].rows
                     /\ files[f].profile = "traded" => files'[f].profile = "traded"
            BY <3>1, <3>3 DEF Databases, Inv, Types
        <3> QED
            BY <2>4, <3>2, <3>3 DEF Write
    <2> QED
        BY <2>1, <2>2, <2>3, <2>4
           DEF Next, vars, Step, CheckTables, CheckProfile, TakeInitLock, Begin,
               CreateTable, SeedProfile, SeedWatchlist, Fail, Read, Crash, DeleteFile
<1>2. Inv /\ [Next]_vars => [Kept]_vars
    BY <1>1
<1> QED
    BY <1>2, Invariance, PTL DEF Spec, NeverReseeded
=============================================================================
