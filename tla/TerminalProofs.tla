---------------------------- MODULE TerminalProofs ----------------------------
(***************************************************************************)
(* Theorems about the account half of the page, for any resources and      *)
(* panels followed and for any number of mutations, points, lost answers   *)
(* and reloads.                                                            *)
(***************************************************************************)
EXTENDS Terminal, TLAPS

-----------------------------------------------------------------------------
(* Types *)

States == {"sent", "acted", "done", "refused"}
Mutations == [panel : Panels, at : States]

Types ==
    /\ server \in [Resources -> SUBSET Changes]
    /\ data \in [Resources -> SUBSET Changes]
    /\ seen \in [Resources -> SUBSET Changes]
    /\ requests \in Seq(Mutations) /\ Len(requests) <= MaxRequests
    /\ points \in 0..MaxPoints
    /\ pending \in [Panels -> 0..Len(requests)]
    /\ fetch \in [Resources -> Fetches]
    /\ superseded \in [Resources -> Fetches \ {Unread}]

\* What each change the server knows is: a mutation sent, or a point of the loop.
Known == \A r \in Resources : \A c \in server[r] : c <= Len(requests) \/ c > MaxRequests

\* A request the user was told had succeeded is done.
Told == \A id \in confirmed : id \in 1..Len(requests) /\ requests[id].at = "done"

LEMMA TypesInit == Init => Types /\ Known /\ Told
<1> SUFFICES ASSUME Init
             PROVE  Types /\ Known /\ Told
    OBVIOUS
<1>1. Unread \in Fetches /\ Idle \in Fetches \ {Unread}
    BY DEF Fetches, Unread, Idle
<1>2. requests \in Seq(Mutations) /\ Len(requests) = 0
    BY DEF Init
<1> QED
    BY <1>1, <1>2, BoundsAssumption DEF Init, Types, Known, Told

\* A request moves on, and no other does.
LEMMA SetEffect ==
    ASSUME Types, NEW id \in DOMAIN requests, NEW at \in States, Set(id, at)
    PROVE  /\ requests' \in Seq(Mutations) /\ Len(requests') = Len(requests)
           /\ \A j \in 1..Len(requests) : j # id => requests'[j] = requests[j]
<1>1. requests' = [requests EXCEPT ![id] = [requests[id] EXCEPT !.at = at]]
    BY DEF Set
<1>2. requests \in Seq(Mutations) /\ DOMAIN requests = 1..Len(requests)
    BY DEF Types
<1>3. requests[id] \in Mutations
    BY <1>2
<1>4. [requests[id] EXCEPT !.at = at] \in Mutations
    BY <1>3 DEF Mutations
<1> QED
    BY <1>1, <1>2, <1>4

\* The five steps of the server, told apart from the page's.
ServerStep ==
    \/ SnapshotLoop
    \/ \E id \in DOMAIN requests : Commit(id) \/ Act(id) \/ Store(id) \/ Refuse(id)

\* A step of the server adds a change the user was not yet told of, or none, and leaves
\* what is done alone.
ServerMoves ==
    /\ UNCHANGED <<pending, hook, turns, confirmed>>
    /\ points' \in 0..MaxPoints
    /\ requests' \in Seq(Mutations) /\ Len(requests') = Len(requests)
    /\ \A j \in 1..Len(requests) : requests[j].at = "done" => requests'[j].at = "done"
    /\ server' \in [Resources -> SUBSET Changes]
    /\ \A r \in Resources : server[r] \subseteq server'[r]
    /\ \A r \in Resources :
          \A c \in server'[r] \ server[r] :
             c \notin confirmed /\ (c <= Len(requests) \/ c > MaxRequests)

LEMMA ServerEffect ==
    ASSUME Types, Known, Told, ServerStep
    PROVE  ServerMoves
<1> DEFINE Grows(change) ==
        /\ server' \in [Resources -> SUBSET Changes]
        /\ \A r \in Resources : server'[r] \in {server[r], server[r] \cup {change}}
<1>1. ASSUME NEW change \in Changes, NEW resources, Reflect(resources, change)
      PROVE  Grows(change)
    BY <1>1 DEF Reflect, Types
<1>2. ASSUME NEW change, Grows(change), change \notin confirmed,
             change <= Len(requests) \/ change > MaxRequests
      PROVE  /\ server' \in [Resources -> SUBSET Changes]
             /\ \A r \in Resources : server[r] \subseteq server'[r]
             /\ \A r \in Resources :
                   \A c \in server'[r] \ server[r] :
                      c \notin confirmed /\ (c <= Len(requests) \/ c > MaxRequests)
    BY <1>2
<1> HIDE DEF Grows
<1>3. CASE SnapshotLoop
    <2> DEFINE change == MaxRequests + points + 1
    <2>1. /\ change \in Changes /\ change > MaxRequests /\ change \notin 1..Len(requests)
          /\ points' \in 0..MaxPoints
        BY <1>3, BoundsAssumption DEF SnapshotLoop, Types, Changes
    <2>2. Grows(change)
        BY <1>1, <1>3, <2>1 DEF SnapshotLoop
    <2>3. change \notin confirmed
        BY <2>1 DEF Told
    <2>4. /\ UNCHANGED <<pending, hook, turns, confirmed>> /\ requests' = requests
          /\ requests \in Seq(Mutations)
        BY <1>3 DEF SnapshotLoop, Types
    <2> HIDE DEF change
    <2> QED
        BY <1>2, <2>1, <2>2, <2>3, <2>4 DEF ServerMoves
<1>4. ASSUME NEW id \in DOMAIN requests, Commit(id) \/ Act(id) \/ Store(id) \/ Refuse(id)
      PROVE  /\ UNCHANGED <<pending, hook, turns, confirmed, points>>
             /\ requests[id].at # "done"
             /\ Grows(id)
             /\ \E at \in States : Set(id, at)
    <2>1. id \in Changes
        BY BoundsAssumption DEF Types, Changes
    <2>2. CASE Commit(id)
        BY <1>1, <2>1, <2>2 DEF Commit, States
    <2>3. CASE Act(id)
        BY <1>1, <2>1, <2>3 DEF Act, States
    <2>4. CASE Store(id)
        BY <1>1, <2>1, <2>4 DEF Store, States, Types, Grows
    <2>5. CASE Refuse(id)
        BY <2>5 DEF Refuse, States, Types, Grows
    <2> QED
        BY <1>4, <2>2, <2>3, <2>4, <2>5
<1>5. ASSUME NEW id \in DOMAIN requests, Commit(id) \/ Act(id) \/ Store(id) \/ Refuse(id)
      PROVE  /\ requests' \in Seq(Mutations) /\ Len(requests') = Len(requests)
             /\ \A j \in 1..Len(requests) :
                   requests[j].at = "done" => requests'[j].at = "done"
             /\ id \in 1..Len(requests) /\ id \notin confirmed
    <2>1. requests[id].at # "done" /\ \E at \in States : Set(id, at)
        BY <1>4, <1>5
    <2>2. id \in 1..Len(requests)
        BY DEF Types
    <2>3. id \notin confirmed
        BY <2>1 DEF Told
    <2> QED
        BY <2>1, <2>2, <2>3, SetEffect
<1>6. ASSUME NEW id \in DOMAIN requests, Commit(id) \/ Act(id) \/ Store(id) \/ Refuse(id)
      PROVE  ServerMoves
    <2>1. id <= Len(requests) /\ id \notin confirmed /\ Grows(id)
        BY <1>4, <1>5, <1>6
    <2>2. points' \in 0..MaxPoints
        BY <1>4, <1>6 DEF Types
    <2> QED
        BY <1>2, <1>4, <1>5, <1>6, <2>1, <2>2 DEF ServerMoves
<1> QED
    BY <1>3, <1>6 DEF ServerStep

-----------------------------------------------------------------------------
(* The inductive invariant *)

Answer(r) == fetch[r].at = "read"     \* an answer is on its way

\* What is on its way to a panel, and what it shows, is never older than what it has
\* shown; and what is fetched once no render is due, or is shown without a spinner or an
\* error, has every change the user was told of.
Current(r) ==
    /\ seen[r] \subseteq data[r] /\ data[r] \subseteq server[r]
    /\ Answer(r) => data[r] \subseteq fetch[r].value /\ fetch[r].value \subseteq server[r]
    /\ r # "chat" /\ r \notin due /\ Answer(r) =>
          confirmed \cap server[r] \subseteq fetch[r].value
    /\ r # "chat" /\ ~Loading(r) /\ r \notin failed =>
          confirmed \cap server[r] \subseteq data[r]
    /\ Loading(r) => r \in due \/ fetch[r] # Idle

\* The stored conversation is fetched once to a page, before anything is sent.
Once ==
    /\ "chat" \notin due
    /\ "chat" \in settled => fetch["chat"] = Idle
    /\ turns # {} => "chat" \in settled
    /\ "chat" \in Panels /\ pending["chat"] # 0 =>
          "chat" \in settled /\ pending["chat"] \notin data["chat"]
    /\ data["chat"] \cap turns = {}

Inv ==
    /\ Types /\ Known /\ Told /\ Once
    /\ \A r \in Resources : Current(r)

LEMMA InvInit == Init => Inv
<1>1. Init => Once
    BY DEF Init, Once, Resources
<1>2. ASSUME Init, NEW r \in Resources
      PROVE  Current(r)
    BY <1>2 DEF Init, Current, Answer, Loading, Unread, Idle
<1> QED
    BY <1>1, <1>2, TypesInit DEF Inv

LEMMA ServerKeeps ==
    ASSUME Inv, ServerStep
    PROVE  Inv'
<1>1. ServerMoves
    BY ServerEffect DEF Inv
<1>2. Types'
    BY <1>1 DEF Inv, Types, ServerMoves, hook
<1>3. Known' /\ Told'
    BY <1>1 DEF Inv, Types, Known, Told, ServerMoves
<1>4. Once'
    BY <1>1 DEF Inv, Once, ServerMoves, hook
<1>5. ASSUME NEW r \in Resources
      PROVE  Current(r)'
    <2>1. /\ UNCHANGED <<data, failed, settled, due, fetch, seen, confirmed>>
          /\ server[r] \subseteq server'[r]
          /\ confirmed \cap server'[r] = confirmed \cap server[r]
        BY <1>1 DEF ServerMoves, hook
    <2> QED
        BY <2>1 DEF Inv, Current, Answer, Loading
<1> QED
    BY <1>2, <1>3, <1>4, <1>5 DEF Inv

\* A step of the page that changes neither what the server has nor what was sent.
LEMMA PageTypes ==
    ASSUME Inv, UNCHANGED backend, confirmed' \subseteq confirmed,
           data' \in [Resources -> SUBSET Changes], seen' \in [Resources -> SUBSET Changes],
           pending' \in [Panels -> 0..Len(requests)],
           fetch' \in [Resources -> Fetches],
           superseded' \in [Resources -> Fetches \ {Unread}]
    PROVE  Types' /\ Known' /\ Told'
BY DEF Inv, Types, Known, Told, backend

\* An answer that is neither unread nor none has been read.
LEMMA FetchCases ==
    ASSUME NEW f \in Fetches
    PROVE  \/ f = Idle \/ f = Unread
           \/ f.at = "read" /\ f.value \in SUBSET Changes /\ f # Idle /\ f # Unread
BY DEF Fetches, Read, Idle, Unread

LEMMA RenderKeeps == Inv /\ Render => Inv'
<1> SUFFICES ASSUME Inv, Render
             PROVE  Inv'
    OBVIOUS
<1>1. Unread \in Fetches
    BY DEF Fetches
<1>2. fetch' \in [Resources -> Fetches]
    BY <1>1 DEF Inv, Types, Render
<1>3. superseded' \in [Resources -> Fetches \ {Unread}]
    BY DEF Inv, Types, Render
<1>4. Types' /\ Known' /\ Told'
    BY <1>2, <1>3, PageTypes DEF Inv, Types, Render
<1>5. Once'
    BY DEF Inv, Once, Render, Resources, backend
<1>6. ASSUME NEW r \in Resources
      PROVE  Current(r)'
    <2>1. /\ UNCHANGED <<server, confirmed, data, seen, failed>> /\ due' = {}
          /\ r \in settled' <=> r \in settled /\ r \notin due
          /\ fetch'[r] = IF r \in due THEN Unread ELSE fetch[r]
        BY DEF Render, backend
    <2>2. Unread.at # "read" /\ Unread # Idle
        BY DEF Unread, Idle
    <2> QED
        BY <2>1, <2>2 DEF Inv, Current, Answer, Loading
<1> QED
    BY <1>4, <1>5, <1>6 DEF Inv

LEMMA PollKeeps == Inv /\ Poll => Inv'
<1> SUFFICES ASSUME Inv, Poll
             PROVE  Inv'
    OBVIOUS
<1>1. Types' /\ Known' /\ Told'
    BY PageTypes DEF Inv, Types, Poll
<1>2. Once'
    BY FollowedAssumption DEF Inv, Once, Poll, Polled, Refreshing
<1>3. ASSUME NEW r \in Resources
      PROVE  Current(r)'
    BY DEF Inv, Current, Answer, Loading, Poll, backend
<1> QED
    BY <1>1, <1>2, <1>3 DEF Inv

LEMMA ServerReadKeeps == \A q \in Resources : Inv /\ ServerRead(q) => Inv'
<1> SUFFICES ASSUME NEW q \in Resources, Inv, ServerRead(q)
             PROVE  Inv'
    OBVIOUS
<1>1. Read(server[q]) \in Fetches /\ Read(server[q]) # Idle
    BY DEF Inv, Types, Fetches, Read, Idle
<1>2. fetch'[q] = Read(server[q]) /\ \A r \in Resources \ {q} : fetch'[r] = fetch[r]
    BY DEF Inv, Types, ServerRead
<1>3. Types' /\ Known' /\ Told'
    BY <1>1, PageTypes DEF Inv, Types, ServerRead
<1>4. Once'
    BY <1>2 DEF Inv, Once, ServerRead, Unread, Idle, Resources
<1>5. ASSUME NEW r \in Resources
      PROVE  Current(r)'
    <2>1. UNCHANGED <<server, confirmed, data, seen, failed, settled, due>>
        BY DEF ServerRead, backend
    <2>2. CASE r = q
        <3>1. fetch'[r].at = "read" /\ fetch'[r].value = server[r]
            BY <1>2, <2>2 DEF Read
        <3> QED
            BY <1>1, <1>2, <2>1, <2>2, <3>1 DEF Inv, Current, Answer, Loading
    <2>3. CASE r # q
        BY <1>2, <2>1, <2>3 DEF Inv, Current, Answer, Loading
    <2> QED
        BY <2>2, <2>3
<1> QED
    BY <1>3, <1>4, <1>5 DEF Inv

LEMMA LandKeeps == \A q \in Resources : Inv /\ Land(q) => Inv'
<1> SUFFICES ASSUME NEW q \in Resources, Inv, Land(q)
             PROVE  Inv'
    OBVIOUS
<1> DEFINE value == fetch[q].value
<1>1. Answer(q) /\ value \in SUBSET Changes
    BY FetchCases DEF Inv, Types, Land, Answer
<1>2. /\ data' = [data EXCEPT ![q] = value] /\ seen' = [seen EXCEPT ![q] = seen[q] \cup value]
      /\ failed' = failed \ {q} /\ settled' = settled \cup {q}
      /\ fetch' = [fetch EXCEPT ![q] = Idle]
      /\ UNCHANGED <<backend, pending, due, superseded, turns, confirmed>>
    BY DEF Land, Show
<1>3. Types' /\ Known' /\ Told'
    <2>1. Idle \in Fetches /\ seen[q] \cup value \in SUBSET Changes
        BY <1>1 DEF Fetches, Inv, Types
    <2> QED
        BY <1>1, <1>2, <2>1, PageTypes DEF Inv, Types
<1>4. Once'
    <2>1. CASE q = "chat"
        <3>1. "chat" \notin settled
            BY <1>1, <2>1 DEF Inv, Once, Answer, Idle
        <3> QED
            BY <1>2, <2>1, <3>1 DEF Inv, Once, Types
    <2>2. CASE q # "chat"
        BY <1>2, <2>2 DEF Inv, Once, Types
    <2> QED
        BY <2>1, <2>2
<1>5. ASSUME NEW r \in Resources
      PROVE  Current(r)'
    <2>1. CASE r = q
        <3>1. /\ data'[r] = value /\ seen'[r] = seen[r] \cup value /\ fetch'[r] = Idle
              /\ r \in settled' /\ r \notin failed' /\ due' = due
              /\ server' = server /\ confirmed' = confirmed
            BY <1>2, <2>1 DEF Inv, Types, backend
        <3>2. Idle.at # "read"
            BY DEF Idle
        <3> QED
            BY <1>1, <2>1, <3>1, <3>2 DEF Inv, Current, Answer, Loading
    <2>2. CASE r # q
        <3>1. /\ data'[r] = data[r] /\ seen'[r] = seen[r] /\ fetch'[r] = fetch[r]
              /\ (r \in settled' <=> r \in settled) /\ (r \in failed' <=> r \in failed)
              /\ due' = due /\ server' = server /\ confirmed' = confirmed
            BY <1>2, <2>2 DEF Inv, Types, backend
        <3> QED
            BY <3>1 DEF Inv, Current, Answer, Loading
    <2> QED
        BY <2>1, <2>2
<1> QED
    BY <1>3, <1>4, <1>5 DEF Inv

LEMMA LandSupersededKeeps == \A q \in Resources : Inv /\ LandSuperseded(q) => Inv'
<1> SUFFICES ASSUME NEW q \in Resources, Inv, LandSuperseded(q)
             PROVE  Inv'
    OBVIOUS
<1>1. /\ superseded' = [superseded EXCEPT ![q] = Idle]
      /\ UNCHANGED <<backend, pending, due, fetch, turns, confirmed, data, seen, failed,
                     settled>>
    BY DEF LandSuperseded, Ignored
<1>2. Idle \in Fetches \ {Unread}
    BY DEF Fetches, Idle, Unread
<1>3. Types' /\ Known' /\ Told'
    BY <1>1, <1>2, PageTypes DEF Inv, Types
<1> QED
    BY <1>1, <1>3 DEF Inv, Once, Current, Answer, Loading, backend

LEMMA FetchFailsKeeps == \A q \in Resources : Inv /\ FetchFails(q) => Inv'
<1> SUFFICES ASSUME NEW q \in Resources, Inv, FetchFails(q)
             PROVE  Inv'
    OBVIOUS
<1>1. /\ failed' = failed \cup {q} /\ settled' = settled \cup {q}
      /\ fetch' = [fetch EXCEPT ![q] = Idle]
      /\ UNCHANGED <<backend, pending, data, due, superseded, turns, confirmed, seen>>
    BY DEF FetchFails, SettledByFailure
<1>2. Idle \in Fetches
    BY DEF Fetches
<1>3. Types' /\ Known' /\ Told'
    BY <1>1, <1>2, PageTypes DEF Inv, Types
<1>4. Once'
    BY <1>1 DEF Inv, Once, Types
<1>5. ASSUME NEW r \in Resources
      PROVE  Current(r)'
    <2>1. fetch'[r] = (IF r = q THEN Idle ELSE fetch[r]) /\ Idle.at # "read"
        BY <1>1 DEF Inv, Types, Idle
    <2> QED
        BY <1>1, <2>1 DEF Inv, Current, Answer, Loading, backend
<1> QED
    BY <1>3, <1>4, <1>5 DEF Inv

LEMMA SubmitKeeps == \A p \in Panels : Inv /\ Submit(p) => Inv'
<1> SUFFICES ASSUME NEW p \in Panels, Inv, Submit(p)
             PROVE  Inv'
    OBVIOUS
<1> DEFINE n == Len(requests)
           new == [panel |-> p, at |-> "sent"]
<1>1. /\ new \in Mutations /\ requests \in Seq(Mutations) /\ n \in Nat
      /\ n < MaxRequests
    BY DEF Inv, Types, Submit, Mutations, States
<1>2. /\ requests' = Append(requests, new) /\ pending' = [pending EXCEPT ![p] = n + 1]
      /\ UNCHANGED <<server, points, turns, confirmed, data, failed, settled, due, fetch,
                     superseded, seen>>
    BY DEF Submit, hook
<1>3. /\ requests' \in Seq(Mutations) /\ Len(requests') = n + 1
      /\ \A j \in 1..n : requests'[j] = requests[j]
    BY <1>1, <1>2
<1>4. Types'
    <2>1. pending' \in [Panels -> 0..(n + 1)]
        BY <1>1, <1>2 DEF Inv, Types
    <2> QED
        BY <1>1, <1>2, <1>3, <2>1, BoundsAssumption DEF Inv, Types
<1>5. Known' /\ Told'
    <2>1. Known'
        BY <1>1, <1>2, <1>3, BoundsAssumption DEF Inv, Known, Types, Changes
    <2>2. Told'
        BY <1>1, <1>2, <1>3 DEF Inv, Told
    <2> QED
        BY <2>1, <2>2
<1>6. Once'
    <2>1. CASE p = "chat"
        <3>1. "chat" \in settled
            BY <2>1 DEF Submit, MaySend, Loading
        <3>2. n + 1 \notin server["chat"]
            BY <1>1, BoundsAssumption DEF Inv, Known, Types, Resources, Changes
        <3>3. n + 1 \notin data["chat"]
            BY <3>2 DEF Inv, Current, Resources
        <3> QED
            BY <1>2, <2>1, <3>1, <3>3 DEF Inv, Once, Types
    <2>2. CASE p # "chat"
        BY <1>2, <2>2 DEF Inv, Once, Types
    <2> QED
        BY <2>1, <2>2
<1>7. ASSUME NEW r \in Resources
      PROVE  Current(r)'
    BY <1>2 DEF Inv, Current, Answer, Loading
<1> QED
    BY <1>4, <1>5, <1>6, <1>7 DEF Inv

LEMMA ReceiveKeeps == \A p \in Panels : Inv /\ Receive(p) => Inv'
<1> SUFFICES ASSUME NEW p \in Panels, Inv, Receive(p)
             PROVE  Inv'
    OBVIOUS
<1> DEFINE id == pending[p]
<1>1. /\ id \in 1..Len(requests) /\ pending' = [pending EXCEPT ![p] = 0]
      /\ UNCHANGED <<server, requests, points, data, failed, settled, fetch, superseded,
                     seen>>
    BY DEF Inv, Types, Receive, backend
<1>2. \/ /\ requests[id].at = "done" /\ due' = due \cup Account
         /\ turns' = (IF p = "chat" THEN turns \cup {id} ELSE turns)
         /\ confirmed' = confirmed \cup {id}
      \/ UNCHANGED <<due, turns, confirmed>>
    BY DEF Receive, refresh
<1>3. pending' \in [Panels -> 0..Len(requests)]
    BY <1>1 DEF Inv, Types
<1>4. Types' /\ Known' /\ Told'
    BY <1>1, <1>2, <1>3 DEF Inv, Types, Known, Told
<1>5. Once'
    <2>1. CASE p = "chat"
        BY <1>1, <1>2, <2>1, FollowedAssumption DEF Inv, Once, Types
    <2>2. CASE p # "chat"
        BY <1>1, <1>2, <2>2, FollowedAssumption DEF Inv, Once, Types
    <2> QED
        BY <2>1, <2>2
<1>6. ASSUME NEW r \in Resources
      PROVE  Current(r)'
    <2>1. r # "chat" => r \in Account
        BY DEF Resources
    <2> QED
        BY <1>1, <1>2, <2>1 DEF Inv, Current, Answer, Loading
<1> QED
    BY <1>4, <1>5, <1>6 DEF Inv

LEMMA LoseAnswerKeeps == \A p \in Panels : Inv /\ LoseAnswer(p) => Inv'
<1> SUFFICES ASSUME NEW p \in Panels, Inv, LoseAnswer(p)
             PROVE  Inv'
    OBVIOUS
<1>1. /\ pending' = [pending EXCEPT ![p] = 0] /\ due' \in {due, due \cup Account}
      /\ UNCHANGED <<backend, data, failed, settled, fetch, superseded, turns, confirmed,
                     seen>>
    BY DEF LoseAnswer, refresh
<1>2. pending' \in [Panels -> 0..Len(requests)]
    BY <1>1 DEF Inv, Types
<1>3. Types' /\ Known' /\ Told'
    BY <1>1, <1>2, PageTypes DEF Inv, Types
<1>4. Once'
    BY <1>1, FollowedAssumption DEF Inv, Once, Types
<1>5. ASSUME NEW r \in Resources
      PROVE  Current(r)'
    BY <1>1 DEF Inv, Current, Answer, Loading, backend
<1> QED
    BY <1>3, <1>4, <1>5 DEF Inv

LEMMA ReloadPageKeeps == Inv /\ ReloadPage => Inv'
<1> SUFFICES ASSUME Inv, ReloadPage
             PROVE  Inv'
    OBVIOUS
<1>1. Unread \in Fetches /\ Idle \in Fetches \ {Unread} /\ Unread.at # "read" /\ Unread # Idle
    BY DEF Fetches, Unread, Idle
<1>2. /\ pending' = [p \in Panels |-> 0]
      /\ data' = [r \in Resources |-> {}] /\ seen' = [r \in Resources |-> {}]
      /\ settled' = {} /\ due' = {} /\ turns' = {}
      /\ fetch' = [r \in Resources |-> Unread]
      /\ superseded' = [r \in Resources |-> Idle]
      /\ UNCHANGED <<backend, confirmed>>
    BY DEF ReloadPage
<1>3. Types' /\ Known' /\ Told'
    <2>1. pending' \in [Panels -> 0..Len(requests)]
        BY <1>2 DEF Inv, Types
    <2> QED
        BY <1>1, <1>2, <2>1, PageTypes
<1>4. Once'
    BY <1>2 DEF Once, Resources
<1>5. ASSUME NEW r \in Resources
      PROVE  Current(r)'
    BY <1>1, <1>2 DEF Current, Answer, Loading
<1> QED
    BY <1>3, <1>4, <1>5 DEF Inv

LEMMA InvStep == Inv /\ [Next]_vars => Inv'
<1> SUFFICES ASSUME Inv, [Next]_vars
             PROVE  Inv'
    OBVIOUS
<1>1. CASE UNCHANGED vars
    BY <1>1 DEF vars, Inv, Types, Known, Told, Once, Current, Answer, Loading
<1> QED
    BY <1>1, ServerKeeps, RenderKeeps, PollKeeps, ServerReadKeeps, LandKeeps,
       LandSupersededKeeps, FetchFailsKeeps, SubmitKeeps, ReceiveKeeps, LoseAnswerKeeps,
       ReloadPageKeeps
       DEF Next, ServerStep

LEMMA Invariance == Spec => []Inv
BY InvInit, InvStep, PTL DEF Spec

-----------------------------------------------------------------------------
(* The properties *)

\* A spinner never stays alone: whatever is loading has a fetch under way or a render
\* coming that will send one, through failures, superseded fetches and reloads.
THEOREM SpinnersEnd == Spec => []TerminalTypeOK
<1>1. Inv => TerminalTypeOK
    BY DEF Inv, Types, Current, TerminalTypeOK
<1> QED
    BY <1>1, Invariance, PTL

\* No panel takes back what it has shown, and each one that is neither loading nor in
\* error shows every mutation the user was told had succeeded.
THEOREM PanelsAgree == Spec => []PanelsKeepUp
<1>1. Inv => PanelsKeepUp
    BY DEF Inv, Current, PanelsKeepUp
<1> QED
    BY <1>1, Invariance, PTL

\* No turn of the conversation is on screen twice, once as stored and once as sent.
THEOREM TurnsOnce == Spec => []NoTurnTwice
<1>1. Inv => NoTurnTwice
    BY DEF Inv, Once, NoTurnTwice
<1> QED
    BY <1>1, Invariance, PTL
=============================================================================
