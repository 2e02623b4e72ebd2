---------------------------- MODULE ChatTurnProofs ----------------------------
(***************************************************************************)
(* Theorems about the conversational turn, for any tickers and spellings,  *)
(* any replies of the model, any limits on a turn's actions and on the     *)
(* history of a prompt, and any interleaving of turns, failing statements, *)
(* lost answers and crashes.                                               *)
(***************************************************************************)
EXTENDS ChatTurn, FiniteSetTheorems, WellFoundedInduction, SequenceTheorems, TLAPS

-----------------------------------------------------------------------------
(* Picked: the entries of a sequence with an index in a set *)

\* g[n] is what is picked of the first n entries, up to N.
Picks(g, s, D, N) ==
    /\ g[0] = <<>>
    /\ \A n \in 1..N : g[n] = IF n \in D THEN Append(g[n - 1], s[n]) ELSE g[n - 1]

\* A property of natural numbers that fails somewhere fails first somewhere.
LEMMA LeastFailure ==
    ASSUME NEW Bad \in SUBSET Nat, Bad # {}
    PROVE  \E m \in Bad : \A k \in 0..(m - 1) : k \notin Bad
<1>1. PICK m \in Bad : \A k \in Bad : ~ (<<k, m>> \in OpToRel(<, Nat))
    BY NatLessThanWellFounded, WFMin
<1>2. \A k \in 0..(m - 1) : k \in Nat /\ k < m
    OBVIOUS
<1>3. \A k \in Bad : ~ (k < m)
    BY <1>1 DEF OpToRel
<1> QED
    BY <1>2, <1>3

LEMMA PicksExist ==
    ASSUME NEW S, NEW s \in Seq(S), NEW D
    PROVE  \A n \in 0..Len(s) : \E g \in [0..n -> Seq(S)] : Picks(g, s, D, n)
<1> DEFINE Upto(n) == \E g \in [0..n -> Seq(S)] : Picks(g, s, D, n)
           Bad == {n \in 0..Len(s) : ~Upto(n)}
<1>0. Len(s) \in Nat /\ \A n \in 1..Len(s) : s[n] \in S
    OBVIOUS
<1>1. SUFFICES ASSUME Bad # {}
               PROVE  FALSE
    OBVIOUS
<1> HIDE DEF Upto
<1>2. Bad \in SUBSET Nat
    BY <1>0
<1>3. PICK m \in Bad : \A k \in 0..(m - 1) : k \notin Bad
    BY <1>1, <1>2, LeastFailure
<1>4. Upto(0)
    <2> DEFINE g == [k \in 0..0 |-> <<>>]
    <2>1. <<>> \in Seq(S)
        OBVIOUS
    <2>2. g \in [0..0 -> Seq(S)] /\ Picks(g, s, D, 0)
        BY <2>1 DEF Picks
    <2> HIDE DEF g
    <2> QED
        BY <2>2 DEF Upto
<1>5. m \in 1..Len(s) /\ m - 1 \in 0..Len(s)
    BY <1>0, <1>4
<1>6. Upto(m - 1)
    BY <1>0, <1>3, <1>5
<1>7. PICK g \in [0..(m - 1) -> Seq(S)] : Picks(g, s, D, m - 1)
    BY <1>6 DEF Upto
<1> DEFINE more == IF m \in D THEN Append(g[m - 1], s[m]) ELSE g[m - 1]
           h == [k \in 0..m |-> IF k = m THEN more ELSE g[k]]
<1>8. more \in Seq(S)
    <2>1. g[m - 1] \in Seq(S) /\ s[m] \in S
        BY <1>0, <1>5, <1>7
    <2> QED
        BY <2>1
<1> HIDE DEF more
<1>9. h \in [0..m -> Seq(S)]
    BY <1>0, <1>5, <1>7, <1>8
<1>10. h[0] = <<>> /\ h[m] = more /\ \A k \in 0..(m - 1) : h[k] = g[k]
    BY <1>0, <1>5, <1>7 DEF Picks
<1> HIDE DEF h
<1>11. Picks(h, s, D, m)
    <2> SUFFICES ASSUME NEW n \in 1..m
                 PROVE  h[n] = IF n \in D THEN Append(h[n - 1], s[n]) ELSE h[n - 1]
        BY <1>10 DEF Picks
    <2>1. n - 1 \in 0..(m - 1) /\ (n # m => n \in 0..(m - 1) /\ n \in 1..(m - 1))
        BY <1>0, <1>5
    <2>2. CASE n = m
        BY <1>10, <2>1, <2>2 DEF more
    <2>3. CASE n # m
        BY <1>7, <1>10, <2>1, <2>3 DEF Picks
    <2> QED
        BY <2>2, <2>3
<1> QED
    BY <1>3, <1>9, <1>11 DEF Upto

\* There is only one way to pick.
LEMMA PicksAgree ==
    ASSUME NEW N \in Nat, NEW s, NEW D, NEW f, NEW g, Picks(f, s, D, N), Picks(g, s, D, N)
    PROVE  f[N] = g[N]
<1> DEFINE Bad == {k \in 0..N : f[k] # g[k]}
<1>1. SUFFICES ASSUME Bad # {}
               PROVE  FALSE
    OBVIOUS
<1>2. PICK m \in Bad : \A k \in 0..(m - 1) : k \notin Bad
    <2>1. Bad \in SUBSET Nat
        OBVIOUS
    <2> QED
        BY <1>1, <2>1, LeastFailure
<1>3. m \in 1..N /\ m - 1 \in 0..N
    BY DEF Picks
<1>4. f[m - 1] = g[m - 1]
    BY <1>2, <1>3
<1> QED
    BY <1>3, <1>4 DEF Picks

\* What Picked computes.
LEMMA PickedIs ==
    ASSUME NEW S, NEW s \in Seq(S), NEW D
    PROVE  \E g \in [0..Len(s) -> Seq(S)] :
              Picks(g, s, D, Len(s)) /\ Picked(s, D) = g[Len(s)]
<1> DEFINE N == Len(s)
           upTo[n \in 0..N] == IF n = 0 THEN <<>>
                               ELSE IF n \in D THEN Append(upTo[n - 1], s[n])
                               ELSE upTo[n - 1]
<1>0. N \in Nat /\ N \in 0..N
    OBVIOUS
<1>1. PICK g \in [0..N -> Seq(S)] : Picks(g, s, D, N)
    BY <1>0, PicksExist
<1>2. g = [n \in 0..N |-> IF n = 0 THEN <<>>
                          ELSE IF n \in D THEN Append(g[n - 1], s[n]) ELSE g[n - 1]]
    <2>1. \A n \in 0..N : n # 0 => n \in 1..N
        BY <1>0
    <2> QED
        BY <1>1, <2>1 DEF Picks
<1>3. upTo = [n \in 0..N |-> IF n = 0 THEN <<>>
                             ELSE IF n \in D THEN Append(upTo[n - 1], s[n]) ELSE upTo[n - 1]]
    <2>1. \E x : x = [n \in 0..N |-> IF n = 0 THEN <<>>
                             ELSE IF n \in D THEN Append(x[n - 1], s[n]) ELSE x[n - 1]]
        BY <1>2
    <2> QED
        BY <2>1
<1>4. Picked(s, D) = upTo[N]
    BY DEF Picked
<1> HIDE DEF upTo
<1>5. Picks(upTo, s, D, N)
    <2>1. upTo[0] = <<>>
        BY <1>0, <1>3
    <2>2. ASSUME NEW n \in 1..N
          PROVE  upTo[n] = IF n \in D THEN Append(upTo[n - 1], s[n]) ELSE upTo[n - 1]
        <3>1. n \in 0..N /\ n # 0
            BY <1>0
        <3> QED
            BY <1>3, <3>1
    <2> QED
        BY <2>1, <2>2 DEF Picks
<1>6. upTo[N] = g[N]
    BY <1>0, <1>1, <1>5, PicksAgree
<1> QED
    BY <1>1, <1>4, <1>6

\* The first n entries of z are those of s, and E chooses among them as D does.
Agree(s, D, z, E) ==
    \A k \in 1..Len(s) : z[k] = s[k] /\ (k \in E <=> k \in D)

LEMMA PickedAppend ==
    ASSUME NEW S, NEW s \in Seq(S), NEW z \in Seq(S), NEW D, NEW E,
           Len(z) = Len(s) + 1, Agree(s, D, z, E)
    PROVE  Picked(z, E) = IF Len(z) \in E THEN Append(Picked(s, D), z[Len(z)])
                          ELSE Picked(s, D)
<1> DEFINE N == Len(s)
<1>0. N \in Nat
    OBVIOUS
<1>1. PICK f : Picks(f, s, D, N) /\ Picked(s, D) = f[N]
    BY PickedIs
<1>2. PICK g : Picks(g, z, E, N + 1) /\ Picked(z, E) = g[N + 1]
    BY PickedIs
<1>3. Picks(g, s, D, N)
    BY <1>0, <1>2 DEF Picks, Agree
<1>4. f[N] = g[N]
    BY <1>0, <1>1, <1>3, PicksAgree
<1>5. g[N + 1] = IF N + 1 \in E THEN Append(g[N], z[N + 1]) ELSE g[N]
    <2>1. N + 1 \in 1..(N + 1) /\ (N + 1) - 1 = N
        BY <1>0
    <2> QED
        BY <1>2, <2>1 DEF Picks
<1> QED
    BY <1>1, <1>2, <1>4, <1>5

\* What is not picked makes no difference.
LEMMA PickedConcat ==
    ASSUME NEW S, NEW s \in Seq(S), NEW z \in Seq(S), NEW D, NEW E,
           Len(s) <= Len(z), Agree(s, D, z, E), \A k \in (Len(s) + 1)..Len(z) : k \notin E
    PROVE  Picked(z, E) = Picked(s, D)
<1> DEFINE N == Len(s)
           M == Len(z)
<1>0. N \in Nat /\ M \in Nat /\ N <= M
    OBVIOUS
<1>1. PICK f : Picks(f, s, D, N) /\ Picked(s, D) = f[N]
    BY PickedIs
<1>2. PICK g : Picks(g, z, E, M) /\ Picked(z, E) = g[M]
    BY PickedIs
<1> DEFINE h == [k \in 0..M |-> IF k <= N THEN f[k] ELSE f[N]]
<1>3. h[0] = <<>> /\ h[M] = f[N]
    BY <1>0, <1>1 DEF Picks
<1>4. \A n \in 0..M : h[n] = IF n <= N THEN f[n] ELSE f[N]
    OBVIOUS
<1> HIDE DEF h
<1>5. ASSUME NEW n \in 1..M
      PROVE  h[n] = IF n \in E THEN Append(h[n - 1], z[n]) ELSE h[n - 1]
    <2>1. n - 1 \in 0..M /\ n \in 0..M
        BY <1>0
    <2>2. CASE n <= N
        <3>1. n \in 1..N /\ n - 1 <= N
            BY <1>0, <2>2
        <3>2. h[n] = f[n] /\ h[n - 1] = f[n - 1]
            BY <1>4, <2>1, <2>2, <3>1
        <3>3. z[n] = s[n] /\ (n \in E <=> n \in D)
            BY <3>1 DEF Agree
        <3> QED
            BY <1>1, <3>1, <3>2, <3>3 DEF Picks
    <2>3. CASE ~(n <= N)
        <3>1. n \in (N + 1)..M /\ n - 1 >= N
            BY <1>0, <2>3
        <3>2. h[n] = f[N] /\ h[n - 1] = f[N]
            BY <1>0, <1>4, <2>1, <2>3, <3>1
        <3> QED
            BY <3>1, <3>2
    <2> QED
        BY <2>2, <2>3
<1>6. Picks(h, z, E, M)
    BY <1>3, <1>5 DEF Picks
<1>7. h[M] = g[M]
    BY <1>0, <1>2, <1>6, PicksAgree
<1> QED
    BY <1>1, <1>2, <1>3, <1>7

\* Every entry of t is one that D chooses.
ChosenBy(t, s, D) == \A n \in 1..Len(t) : \E k \in 1..Len(s) : k \in D /\ t[n] = s[k]

\* As many are picked as there are indices, and nothing else.
LEMMA PickedTyped ==
    ASSUME NEW S, NEW s \in Seq(S), NEW D
    PROVE  /\ Picked(s, D) \in Seq(S)
           /\ IsFiniteSet(D \cap (1..Len(s)))
           /\ Len(Picked(s, D)) = Cardinality(D \cap (1..Len(s)))
           /\ ChosenBy(Picked(s, D), s, D)
<1> DEFINE N == Len(s)
<1>0. N \in Nat /\ \A n \in 1..N : s[n] \in S
    OBVIOUS
<1>1. PICK g \in [0..N -> Seq(S)] : Picks(g, s, D, N) /\ Picked(s, D) = g[N]
    BY PickedIs
<1> DEFINE Counted(n) == IsFiniteSet(D \cap (1..n)) /\ Len(g[n]) = Cardinality(D \cap (1..n))
           Found(n) == \A i \in 1..Len(g[n]) : \E k \in 1..N : k \in D /\ g[n][i] = s[k]
           Good(n) == Counted(n) /\ Found(n)
           Bad == {n \in 0..N : ~Good(n)}
<1>2. Good(0)
    <2>1. D \cap (1..0) = {} /\ Len(g[0]) = 0
        BY <1>1 DEF Picks
    <2> QED
        BY <2>1, FS_EmptySet
<1>3. ASSUME NEW n \in 1..N, Good(n - 1)
      PROVE  Good(n)
    <2> DEFINE a == D \cap (1..(n - 1))
               b == D \cap (1..n)
               t == g[n - 1]
    <2>1. n \notin a /\ (n \in D => b = a \cup {n}) /\ (n \notin D => b = a)
        OBVIOUS
    <2>2. IsFiniteSet(a) /\ Len(t) = Cardinality(a)
        BY <1>3
    <2>3. t \in Seq(S) /\ s[n] \in S /\ g[n] = IF n \in D THEN Append(t, s[n]) ELSE t
        BY <1>0, <1>1 DEF Picks
    <2>4. \A i \in 1..Len(t) : \E k \in 1..N : k \in D /\ t[i] = s[k]
        BY <1>3
    <2> HIDE DEF a, b, t
    <2>5. Counted(n)
        <3>1. IsFiniteSet(b) /\ Cardinality(b) = IF n \in D THEN Cardinality(a) + 1
                                                 ELSE Cardinality(a)
            BY <2>1, <2>2, FS_AddElement
        <3>2. Len(g[n]) = IF n \in D THEN Len(t) + 1 ELSE Len(t)
            BY <2>3
        <3> QED
            BY <2>2, <3>1, <3>2 DEF b
    <2>6. Found(n)
        <3>1. CASE n \in D
            <4> SUFFICES ASSUME NEW i \in 1..Len(Append(t, s[n]))
                         PROVE  \E k \in 1..N : k \in D /\ Append(t, s[n])[i] = s[k]
                BY <2>3, <3>1
            <4>1. i \in 1..(Len(t) + 1)
                BY <2>3
            <4>2. CASE i = Len(t) + 1
                BY <2>3, <3>1, <4>2
            <4>3. CASE i # Len(t) + 1
                <5>1. i \in 1..Len(t) /\ Append(t, s[n])[i] = t[i]
                    BY <2>3, <4>1, <4>3
                <5> QED
                    BY <2>4, <5>1
            <4> QED
                BY <4>2, <4>3
        <3>2. CASE n \notin D
            BY <2>3, <2>4, <3>2
        <3> QED
            BY <3>1, <3>2
    <2> QED
        BY <2>5, <2>6
<1> HIDE DEF Good
<1>4. Good(N)
    <2> SUFFICES ASSUME Bad # {}
                 PROVE  FALSE
        BY <1>0
    <2>1. Bad \in SUBSET Nat
        BY <1>0
    <2>2. PICK m \in Bad : \A k \in 0..(m - 1) : k \notin Bad
        BY <2>1, LeastFailure
    <2>3. m \in 1..N /\ m - 1 \in 0..N
        BY <1>0, <1>2
    <2>4. Good(m - 1)
        BY <2>2, <2>3
    <2> QED
        BY <1>3, <2>3, <2>4
<1>5. Counted(N) /\ Found(N)
    BY <1>4 DEF Good
<1>6. Picked(s, D) \in Seq(S) /\ Picked(s, D) = g[N]
    BY <1>0, <1>1
<1>7. ChosenBy(g[N], s, D)
    BY <1>5 DEF ChosenBy
<1> QED
    BY <1>5, <1>6, <1>7

-----------------------------------------------------------------------------
(* Fills, reported trades and the plan of a turn *)

Kinds == {"buy", "sell", "add", "remove"}
Fills == [turn : Nat \ {0}, what : {"buy", "sell"}]

LEMMA OkTradesTyped ==
    ASSUME NEW actions \in Seq(Actions)
    PROVE  OkTrades(actions) \in Seq(Actions)
BY PickedTyped DEF OkTrades

LEMMA OkTradesAppend ==
    ASSUME NEW actions \in Seq(Actions), NEW a \in Actions
    PROVE  OkTrades(Append(actions, a)) =
               IF IsFill(a) THEN Append(OkTrades(actions), a) ELSE OkTrades(actions)
<1> DEFINE z == Append(actions, a)
           D == {k \in DOMAIN actions : IsFill(actions[k])}
           E == {k \in DOMAIN z : IsFill(z[k])}
<1>1. /\ z \in Seq(Actions) /\ Len(z) = Len(actions) + 1 /\ z[Len(z)] = a
      /\ \A k \in 1..Len(actions) : z[k] = actions[k]
      /\ DOMAIN z = 1..(Len(actions) + 1) /\ DOMAIN actions = 1..Len(actions)
      /\ Len(actions) \in Nat
    OBVIOUS
<1>2. OkTrades(actions) = Picked(actions, D) /\ OkTrades(z) = Picked(z, E)
    BY DEF OkTrades
<1> HIDE DEF z
<1>3. \A k \in 1..Len(actions) : k \in 1..(Len(actions) + 1)
    BY <1>1
<1>4. Agree(actions, D, z, E)
    BY <1>1, <1>3 DEF Agree
<1>5. Len(z) \in E <=> IsFill(a)
    BY <1>1
<1> HIDE DEF D, E
<1>6. Picked(z, E) = IF Len(z) \in E THEN Append(Picked(actions, D), z[Len(z)])
                     ELSE Picked(actions, D)
    BY <1>1, <1>4, PickedAppend
<1> QED
    BY <1>1, <1>2, <1>5, <1>6 DEF z

\* Rejections are no trades.
LEMMA OkTradesRejections ==
    ASSUME NEW actions \in Seq(Actions), NEW more \in Seq(Actions),
           \A k \in DOMAIN more : ~IsFill(more[k])
    PROVE  OkTrades(actions \o more) = OkTrades(actions)
<1> DEFINE z == actions \o more
           D == {k \in DOMAIN actions : IsFill(actions[k])}
           E == {k \in DOMAIN z : IsFill(z[k])}
           N == Len(actions)
           M == Len(more)
<1>1. /\ z \in Seq(Actions) /\ Len(z) = N + M /\ DOMAIN z = 1..(N + M)
      /\ DOMAIN actions = 1..N /\ DOMAIN more = 1..M /\ N \in Nat /\ M \in Nat
    BY ConcatProperties
<1>2. \A k \in 1..(N + M) : z[k] = IF k <= N THEN actions[k] ELSE more[k - N]
    BY ConcatProperties
<1>3. OkTrades(actions) = Picked(actions, D) /\ OkTrades(z) = Picked(z, E)
    BY DEF OkTrades
<1> HIDE DEF z
<1>4. Agree(actions, D, z, E)
    <2>1. \A k \in 1..N : k \in 1..(N + M) /\ k <= N
        BY <1>1
    <2> QED
        BY <1>1, <1>2, <2>1 DEF Agree
<1>5. \A k \in (N + 1)..Len(z) : k \notin E
    <2>1. \A k \in (N + 1)..(N + M) : k \in 1..(N + M) /\ ~(k <= N) /\ k - N \in 1..M
        BY <1>1
    <2> QED
        BY <1>1, <1>2, <2>1
<1>6. N <= Len(z)
    BY <1>1
<1> HIDE DEF D, E
<1> QED
    <2>1. Picked(z, E) = Picked(actions, D)
        BY <1>1, <1>4, <1>5, <1>6, PickedConcat
    <2> QED
        BY <1>3, <2>1 DEF z

LEMMA FillsOfTyped ==
    ASSUME fills \in Seq(Fills), NEW i
    PROVE  FillsOf(i) \in Seq(Fills)
BY PickedTyped DEF FillsOf

LEMMA FillsOfAppend ==
    ASSUME fills \in Seq(Fills), NEW f \in Fills, fills' = Append(fills, f), NEW i
    PROVE  FillsOf(i)' = IF f.turn = i THEN Append(FillsOf(i), f) ELSE FillsOf(i)
<1> DEFINE s == fills
           z == fills'
           D == {k \in DOMAIN s : s[k].turn = i}
           E == {k \in DOMAIN z : z[k].turn = i}
<1>1. /\ z \in Seq(Fills) /\ Len(z) = Len(s) + 1 /\ z[Len(z)] = f
      /\ \A k \in 1..Len(s) : z[k] = s[k]
      /\ DOMAIN z = 1..(Len(s) + 1) /\ DOMAIN s = 1..Len(s)
      /\ Len(s) \in Nat /\ s \in Seq(Fills)
    OBVIOUS
<1>2. FillsOf(i) = Picked(s, D) /\ FillsOf(i)' = Picked(z, E)
    BY DEF FillsOf
<1> HIDE DEF s, z
<1>3. \A k \in 1..Len(s) : k \in 1..(Len(s) + 1)
    BY <1>1
<1>4. Agree(s, D, z, E)
    BY <1>1, <1>3 DEF Agree
<1>5. Len(z) \in E <=> f.turn = i
    BY <1>1
<1> HIDE DEF D, E
<1>6. Picked(z, E) = IF Len(z) \in E THEN Append(Picked(s, D), z[Len(z)]) ELSE Picked(s, D)
    BY <1>1, <1>4, PickedAppend
<1> QED
    BY <1>1, <1>2, <1>5, <1>6

\* A turn that has no fill yet.
LEMMA NoFills ==
    ASSUME fills \in Seq(Fills), NEW i, \A k \in DOMAIN fills : fills[k].turn # i
    PROVE  FillsOf(i) = <<>>
<1> DEFINE D == {k \in DOMAIN fills : fills[k].turn = i}
<1>1. D \cap (1..Len(fills)) = {}
    OBVIOUS
<1>2. FillsOf(i) = Picked(fills, D)
    BY DEF FillsOf
<1> HIDE DEF D
<1>3. Picked(fills, D) \in Seq(Fills) /\ Len(Picked(fills, D)) = 0
    BY <1>1, PickedTyped, FS_EmptySet
<1> QED
    BY <1>2, <1>3

LEMMA AcceptedTyped ==
    ASSUME NEW K, NEW items \in Seq(Asked(K) \cup {Junk})
    PROVE  /\ Accepted(items) \in Seq(Asked(K))
           /\ Len(Accepted(items)) \in Nat /\ Len(Accepted(items)) <= MaxActions
<1> DEFINE D == {k \in DOMAIN items : IsValid(items[k])}
           valid == Picked(items, D)
           n == IF Len(valid) > MaxActions THEN MaxActions ELSE Len(valid)
<1>1. valid \in Seq(Asked(K) \cup {Junk}) /\ ChosenBy(valid, items, D)
    <2> HIDE DEF D
    <2> QED
        BY PickedTyped
<1>2. \A k \in D : items[k] \in Asked(K)
    BY DEF IsValid
<1>3. \A m \in 1..Len(valid) : valid[m] \in Asked(K)
    BY <1>1, <1>2 DEF ChosenBy
<1>4. Accepted(items) = SubSeq(valid, 1, n)
    BY DEF Accepted
<1>5. Len(valid) \in Nat
    BY <1>1
<1> HIDE DEF valid
<1>6. n \in Nat /\ n <= MaxActions /\ n <= Len(valid)
    BY <1>5, LimitsAssumption
<1> HIDE DEF n
<1>7. \A m \in 1..n : valid[m] \in Asked(K)
    BY <1>3, <1>5, <1>6
<1>8. SubSeq(valid, 1, n) \in Seq(Asked(K))
      /\ Len(SubSeq(valid, 1, n)) = (IF 1 <= n THEN n - 1 + 1 ELSE 0)
    BY <1>6, <1>7, SubSeqProperties
<1> QED
    BY <1>4, <1>6, <1>8

LEMMA OfKindTyped ==
    ASSUME NEW K, NEW items \in Seq(Asked(K)), NEW kind
    PROVE  /\ OfKind(items, kind) \in Seq(Asked(K))
           /\ \A k \in DOMAIN OfKind(items, kind) : OfKind(items, kind)[k].what = kind
<1> DEFINE D == {k \in DOMAIN items : items[k].what = kind}
<1>1. OfKind(items, kind) = Picked(items, D)
    BY DEF OfKind
<1>2. \A k \in D : items[k].what = kind
    OBVIOUS
<1> HIDE DEF D
<1>3. Picked(items, D) \in Seq(Asked(K)) /\ ChosenBy(Picked(items, D), items, D)
    BY PickedTyped
<1> QED
    BY <1>1, <1>2, <1>3 DEF ChosenBy

\* Every change is an addition or a removal.
LEMMA ChangesSplit ==
    ASSUME NEW items \in Seq(Asked({"add", "remove"}))
    PROVE  Len(OfKind(items, "add")) + Len(OfKind(items, "remove")) = Len(items)
<1> DEFINE N == Len(items)
           D == {k \in DOMAIN items : items[k].what = "add"}
           E == {k \in DOMAIN items : items[k].what = "remove"}
<1>1. N \in Nat /\ DOMAIN items = 1..N /\ \A k \in 1..N : items[k] \in Asked({"add", "remove"})
    OBVIOUS
<1>2. D \cap (1..N) = D /\ E \cap (1..N) = E /\ D \cap E = {} /\ D \cup E = 1..N
    BY <1>1 DEF Asked
<1>3. OfKind(items, "add") = Picked(items, D) /\ OfKind(items, "remove") = Picked(items, E)
    BY DEF OfKind
<1> HIDE DEF D, E
<1>4. /\ IsFiniteSet(D) /\ Len(Picked(items, D)) = Cardinality(D)
      /\ IsFiniteSet(E) /\ Len(Picked(items, E)) = Cardinality(E)
    <2>1. /\ IsFiniteSet(D \cap (1..N)) /\ Len(Picked(items, D)) = Cardinality(D \cap (1..N))
          /\ IsFiniteSet(E \cap (1..N)) /\ Len(Picked(items, E)) = Cardinality(E \cap (1..N))
        BY PickedTyped
    <2> QED
        BY <1>2, <2>1
<1>5. Cardinality(D \cup E) = Cardinality(D) + Cardinality(E) - 0
    <2>1. Cardinality(D \cap E) = 0
        BY <1>2, FS_EmptySet
    <2> QED
        BY <1>4, <2>1, FS_Union
<1>6. Cardinality(1..N) = N
    <2> HIDE DEF N
    <2>1. 1 \in Int /\ N \in Int
        BY <1>1
    <2>2. Cardinality(1..N) = IF 1 > N THEN 0 ELSE N - 1 + 1
        BY <2>1, FS_Interval
    <2> QED
        BY <1>1, <2>2
<1>7. Cardinality(D) \in Nat /\ Cardinality(E) \in Nat
    BY <1>4, FS_CardinalityType
<1> HIDE DEF N
<1>8. Cardinality(D) + Cardinality(E) = N
    <2>1. Cardinality(D \cup E) = N
        BY <1>2, <1>6, Zenon
    <2> QED
        BY <1>5, <1>7, <2>1
<1> QED
    BY <1>3, <1>4, <1>8 DEF N

\* What is left to do: up to a the additions, from there up to b the trades, and then
\* the removals.
Blocks(todo, a, b) ==
    /\ a \in Nat /\ b \in Nat /\ a <= b /\ b <= Len(todo)
    /\ \A k \in DOMAIN todo :
          /\ k <= a => todo[k].what = "add"
          /\ a < k /\ k <= b => todo[k].what \in {"buy", "sell"}
          /\ b < k => todo[k].what = "remove"

LEMMA PlanTyped ==
    ASSUME NEW reply \in Replies
    PROVE  /\ Plan(reply) \in Seq(Asked(Kinds))
           /\ Len(Plan(reply)) = Len(Accepted(reply.trades)) + Len(Accepted(reply.changes))
           /\ \E a, b \in Nat : Blocks(Plan(reply), a, b) /\ b - a <= MaxActions
<1> DEFINE changes == Accepted(reply.changes)
           adds == OfKind(changes, "add")
           removes == OfKind(changes, "remove")
           trades == Accepted(reply.trades)
           A == Len(adds)
           T == Len(trades)
           R == Len(removes)
           some == adds \o trades
           plan == some \o removes
<1>1. /\ changes \in Seq(Asked({"add", "remove"}))
      /\ trades \in Seq(Asked({"buy", "sell"})) /\ T <= MaxActions
    BY RepliesAssumption, AcceptedTyped
<1>2. A + R = Len(changes)
    BY <1>1, ChangesSplit
<1>3. /\ adds \in Seq(Asked({"add", "remove"})) /\ \A k \in DOMAIN adds : adds[k].what = "add"
      /\ removes \in Seq(Asked({"add", "remove"}))
      /\ \A k \in DOMAIN removes : removes[k].what = "remove"
    BY <1>1, OfKindTyped
<1>4. plan = Plan(reply)
    BY DEF Plan
<1>5. Asked({"add", "remove"}) \subseteq Asked(Kinds) /\ Asked({"buy", "sell"}) \subseteq Asked(Kinds)
    BY DEF Asked, Kinds
<1> HIDE DEF adds, trades, removes, changes
<1>6. adds \in Seq(Asked(Kinds)) /\ trades \in Seq(Asked(Kinds)) /\ removes \in Seq(Asked(Kinds))
    BY <1>1, <1>3, <1>5
<1>7. A \in Nat /\ T \in Nat /\ R \in Nat /\ DOMAIN adds = 1..A /\ DOMAIN trades = 1..T
      /\ DOMAIN removes = 1..R
    BY <1>6
<1>8. /\ some \in Seq(Asked(Kinds)) /\ Len(some) = A + T
      /\ \A k \in 1..(A + T) : some[k] = IF k <= A THEN adds[k] ELSE trades[k - A]
    BY <1>6, ConcatProperties
<1> HIDE DEF some
<1>9. /\ plan \in Seq(Asked(Kinds)) /\ Len(plan) = (A + T) + R
      /\ \A k \in 1..((A + T) + R) : plan[k] = IF k <= A + T THEN some[k] ELSE removes[k - (A + T)]
    <2>1. /\ plan \in Seq(Asked(Kinds)) /\ Len(plan) = Len(some) + Len(removes)
          /\ \A k \in 1..(Len(some) + Len(removes)) :
                plan[k] = IF k <= Len(some) THEN some[k] ELSE removes[k - Len(some)]
        <3>1. some \in Seq(Asked(Kinds)) /\ removes \in Seq(Asked(Kinds))
            BY <1>6, <1>8
        <3> QED
            BY ONLY <3>1, ConcatProperties
    <2>2. Len(some) = A + T /\ Len(removes) = R
        BY <1>8
    <2> HIDE DEF plan, A, T, R
    <2> QED
        BY <2>1, <2>2
<1> HIDE DEF plan, A, T, R
<1>10. DOMAIN plan = 1..((A + T) + R)
    BY <1>9
<1>11. ASSUME NEW k \in 1..((A + T) + R)
       PROVE  /\ k <= A => plan[k].what = "add"
              /\ A < k /\ k <= A + T => plan[k].what \in {"buy", "sell"}
              /\ A + T < k => plan[k].what = "remove"
    <2>1. CASE k <= A
        <3>1. k \in 1..A /\ k \in 1..(A + T) /\ k <= A + T /\ ~(A < k) /\ ~(A + T < k)
            BY <1>7, <2>1
        <3> QED
            BY <1>3, <1>7, <1>8, <1>9, <2>1, <3>1
    <2>2. CASE A < k /\ k <= A + T
        <3>1. k - A \in 1..T /\ k \in 1..(A + T) /\ ~(k <= A) /\ ~(A + T < k)
            BY <1>7, <2>2
        <3>2. plan[k] = trades[k - A]
            BY <1>8, <1>9, <2>2, <3>1
        <3>3. trades[k - A] \in Asked({"buy", "sell"})
            BY <1>1, <1>7, <3>1
        <3> QED
            BY <2>2, <3>1, <3>2, <3>3 DEF Asked
    <2>3. CASE A + T < k
        <3>1. k - (A + T) \in 1..R /\ ~(k <= A + T) /\ ~(k <= A)
            BY <1>7, <2>3
        <3> QED
            BY <1>3, <1>7, <1>9, <2>3, <3>1, SMTT(30)
    <2> QED
        BY <1>7, <2>1, <2>2, <2>3
<1>12. A \in Nat /\ A + T \in Nat /\ A <= A + T /\ A + T <= Len(plan) /\ (A + T) - A = T
    BY <1>7, <1>9
<1>13. Blocks(plan, A, A + T) /\ (A + T) - A <= MaxActions
    BY <1>1, <1>10, <1>11, <1>12 DEF Blocks, T
<1>14. Len(plan) = T + Len(changes)
    <2>1. A + R = Len(changes)
        BY <1>2 DEF A, R
    <2> QED
        BY <1>7, <1>9, <2>1
<1> QED
    BY <1>4, <1>9, <1>12, <1>13, <1>14 DEF T, trades, changes

\* Doing the first item.
LEMMA BlocksTail ==
    ASSUME NEW todo \in Seq(Asked(Kinds)), todo # <<>>, NEW a, NEW b, Blocks(todo, a, b)
    PROVE  /\ Blocks(Tail(todo), IF a > 0 THEN a - 1 ELSE 0, IF b > 0 THEN b - 1 ELSE 0)
           /\ Head(todo).what = "add" <=> a > 0
           /\ Head(todo).what \in {"buy", "sell"} <=> (a = 0 /\ b > 0)
<1> DEFINE t == Tail(todo)
           n == Len(todo)
<1>1. /\ n \in Nat \ {0} /\ Head(todo) = todo[1] /\ t \in Seq(Asked(Kinds)) /\ Len(t) = n - 1
      /\ \A k \in 1..(n - 1) : t[k] = todo[k + 1]
      /\ DOMAIN todo = 1..n /\ DOMAIN t = 1..(n - 1)
    OBVIOUS
<1>2. /\ a \in Nat /\ b \in Nat /\ a <= b /\ b <= n
      /\ \A k \in 1..n : /\ k <= a => todo[k].what = "add"
                         /\ a < k /\ k <= b => todo[k].what \in {"buy", "sell"}
                         /\ b < k => todo[k].what = "remove"
    BY <1>1 DEF Blocks
<1> HIDE DEF t, n
<1>3. 1 \in 1..n
    BY <1>1
<1>4. (a > 0 => todo[1].what = "add") /\ (a = 0 /\ b > 0 => todo[1].what \in {"buy", "sell"})
      /\ (b = 0 => todo[1].what = "remove")
    <2>1. (a > 0 => 1 <= a) /\ (a = 0 /\ b > 0 => a < 1 /\ 1 <= b) /\ (b = 0 => b < 1)
        BY <1>2
    <2> QED
        BY <1>2, <1>3, <2>1
<1>5. a > 0 \/ (a = 0 /\ b > 0) \/ (a = 0 /\ b = 0)
    BY <1>2
<1> DEFINE c == IF a > 0 THEN a - 1 ELSE 0
           d == IF b > 0 THEN b - 1 ELSE 0
<1>6. c \in Nat /\ d \in Nat /\ c <= d /\ d <= n - 1
    BY <1>1, <1>2
<1>7. ASSUME NEW k \in 1..(n - 1)
      PROVE  /\ k + 1 \in 1..n
             /\ k <= c => k + 1 <= a
             /\ c < k /\ k <= d => a < k + 1 /\ k + 1 <= b
             /\ d < k => b < k + 1
    BY <1>1, <1>2
<1> HIDE DEF c, d
<1>8. Blocks(t, c, d)
    <2>1. c <= d /\ d <= Len(t) /\ c \in Nat /\ d \in Nat
        BY <1>1, <1>6
    <2>2. ASSUME NEW k \in 1..(n - 1)
          PROVE  /\ k <= c => t[k].what = "add"
                 /\ c < k /\ k <= d => t[k].what \in {"buy", "sell"}
                 /\ d < k => t[k].what = "remove"
        <3>1. t[k] = todo[k + 1]
            BY <1>1
        <3> QED
            BY <1>2, <1>7, <3>1
    <2> QED
        BY <1>1, <2>1, <2>2 DEF Blocks
<1>9. ("add" \notin {"buy", "sell"}) /\ "remove" \notin {"buy", "sell"} /\ "add" # "remove"
    OBVIOUS
<1>10. (Head(todo).what = "add" <=> a > 0)
       /\ (Head(todo).what \in {"buy", "sell"} <=> (a = 0 /\ b > 0))
    BY <1>1, <1>2, <1>4, <1>5, <1>9
<1> QED
    BY <1>8, <1>10 DEF t, c, d

-----------------------------------------------------------------------------
(* Types, and what each step does to its turn *)

Stages == {"loading", "asking", "acting", "valuing", "persisting", "replied", "unavailable",
           "error", "dead"}
Rows == [turn : Nat, role : {"user", "assistant"}, actions : Seq(Actions)]
Outcomes == [what : {"buy", "sell", "add", "remove", "rejected"}, done : BOOLEAN]
Replays == [turn : Nat, role : {"user", "assistant"}, outcomes : Seq(Outcomes)]
Turns == [text : Nat, at : Stages, todo : Seq(Asked(Kinds)), actions : Seq(Actions),
          rejected : Nat, owed : Nat, tracked : SUBSET Tickers, history : Seq(Replays),
          stored : Nat]

Types ==
    /\ shares \in [Tickers -> Nat] /\ watch \subseteq Tickers
    /\ fills \in Seq(Fills) /\ \A k \in DOMAIN fills : fills[k].turn \in DOMAIN turns
    /\ transcript \in Seq(Rows) /\ turns \in Seq(Turns)
    /\ typed \in Nat /\ draft \in 0..typed /\ pending \in {0, Len(turns)}
    /\ \A i \in DOMAIN turns : turns[i].text \in 1..typed

\* Only turn i moves.
Others(i) ==
    /\ turns' \in Seq(Turns) /\ DOMAIN turns' = DOMAIN turns /\ Len(turns') = Len(turns)
    /\ \A j \in DOMAIN turns : j # i => turns'[j] = turns[j]

KeepsRequest(i) == turns'[i].text = turns[i].text /\ turns'[i].tracked = turns[i].tracked
KeepsActions(i) == turns'[i].todo = turns[i].todo /\ turns'[i].actions = turns[i].actions
KeepsCounts(i) == turns'[i].owed = turns[i].owed /\ turns'[i].rejected = turns[i].rejected
KeepsWork(i) == KeepsRequest(i) /\ KeepsActions(i) /\ KeepsCounts(i)

LEMMA Moves ==
    ASSUME turns \in Seq(Turns), NEW i \in DOMAIN turns, NEW r \in Turns,
           turns' = [turns EXCEPT ![i] = r]
    PROVE  Others(i) /\ turns'[i] = r
<1>1. /\ Len(turns) \in Nat /\ DOMAIN turns = 1..Len(turns)
      /\ turns \in [1..Len(turns) -> Turns]
    OBVIOUS
<1>2. turns' \in [1..Len(turns) -> Turns]
    BY <1>1
<1>3. turns' \in Seq(Turns)
    BY <1>1, <1>2
<1>4. Len(turns') = Len(turns)
    BY <1>1, <1>2, <1>3
<1> QED
    BY <1>1, <1>2, <1>3, <1>4 DEF Others

LEMMA GotoMoves ==
    ASSUME turns \in Seq(Turns), NEW i \in DOMAIN turns, NEW at \in Stages, Goto(i, at)
    PROVE  Others(i) /\ KeepsWork(i) /\ turns'[i].at = at
<1> DEFINE r == [turns[i] EXCEPT !.at = at]
<1>1. turns[i] \in Turns
    OBVIOUS
<1>2. r \in Turns /\ turns' = [turns EXCEPT ![i] = r]
    BY <1>1 DEF Turns, Goto
<1>3. Others(i) /\ turns'[i] = r
    BY <1>2, Moves
<1> QED
    BY <1>1, <1>3 DEF KeepsWork, KeepsRequest, KeepsActions, KeepsCounts, Turns

LEMMA LeaveMoves ==
    ASSUME turns \in Seq(Turns), NEW i \in DOMAIN turns, NEW at \in Stages, Leave(i, at)
    PROVE  Others(i) /\ KeepsWork(i) /\ turns'[i].at = at
<1> DEFINE r == [turns[i] EXCEPT !.at = at, !.history = <<>>, !.stored = 0]
<1>1. turns[i] \in Turns /\ <<>> \in Seq(Replays)
    OBVIOUS
<1>2. r \in Turns /\ turns' = [turns EXCEPT ![i] = r]
    BY <1>1 DEF Turns, Leave
<1>3. Others(i) /\ turns'[i] = r
    BY <1>2, Moves
<1> QED
    BY <1>1, <1>3 DEF KeepsWork, KeepsRequest, KeepsActions, KeepsCounts, Turns

LEMMA NewestTyped ==
    ASSUME NEW rows \in Seq(Rows)
    PROVE  /\ Newest(rows) \in Seq(Rows)
           /\ Len(Newest(rows)) = IF Len(rows) > MaxHistory THEN MaxHistory ELSE Len(rows)
           /\ \A k \in 1..Len(Newest(rows)) :
                 /\ Len(rows) - Len(Newest(rows)) + k \in 1..Len(rows)
                 /\ Newest(rows)[k] = rows[Len(rows) - Len(Newest(rows)) + k]
<1> DEFINE n == Len(rows)
           first == IF n > MaxHistory THEN n - MaxHistory + 1 ELSE 1
           rest == SubSeq(rows, first, n)
           len == IF n > MaxHistory THEN MaxHistory ELSE n
<1>1. n \in Nat /\ MaxHistory \in Nat /\ \A k \in 1..n : rows[k] \in Rows
    BY HistoryAssumption
<1>2. Newest(rows) = rest
    BY DEF Newest
<1> HIDE DEF n
<1>3. first \in Int /\ first >= 1 /\ n - first + 1 = len /\ len \in Nat /\ first = n - len + 1
    BY <1>1
<1> HIDE DEF first, len
<1>4. \A k \in first..n : rows[k] \in Rows
    BY <1>1, <1>3
<1>5. /\ rest \in Seq(Rows) /\ Len(rest) = (IF first <= n THEN n - first + 1 ELSE 0)
      /\ \A k \in 1..(n - first + 1) : rest[k] = rows[first + k - 1]
    BY <1>1, <1>3, <1>4, SubSeqProperties
<1> HIDE DEF rest
<1>6. Len(rest) = len
    BY <1>1, <1>3, <1>5
<1>7. \A k \in 1..len : n - len + k \in 1..n /\ first + k - 1 = n - len + k
    BY <1>1, <1>3
<1>8. \A k \in 1..len : n - len + k \in 1..n /\ rest[k] = rows[n - len + k]
    BY <1>3, <1>5, <1>7
<1> QED
    <2>1. \A k \in 1..Len(rest) : n - Len(rest) + k \in 1..n /\ rest[k] = rows[n - Len(rest) + k]
        BY <1>6, <1>8
    <2>2. rest \in Seq(Rows) /\ Len(rest) = IF n > MaxHistory THEN MaxHistory ELSE n
        BY <1>5, <1>6 DEF len
    <2> QED
        BY <1>2, <2>1, <2>2 DEF n

LEMMA ReplayedTyped ==
    ASSUME NEW row \in Rows
    PROVE  Replayed(row) \in Replays
<1> DEFINE o == [k \in DOMAIN row.actions |->
                    [what |-> row.actions[k].what, done |-> row.actions[k].why = "ok"]]
<1>1. /\ row.actions \in Seq(Actions) /\ row.turn \in Nat /\ row.role \in {"user", "assistant"}
    BY DEF Rows
<1>2. DOMAIN row.actions = 1..Len(row.actions) /\ Len(row.actions) \in Nat
      /\ \A k \in DOMAIN row.actions : row.actions[k] \in Actions
    BY <1>1
<1>3. o \in [1..Len(row.actions) -> Outcomes]
    BY <1>2 DEF Outcomes, Actions
<1>4. o \in Seq(Outcomes)
    BY <1>2, <1>3, SeqDef
<1> QED
    BY <1>1, <1>4 DEF Replayed, Replays

LEMMA LoadMoves ==
    ASSUME Types, NEW i \in DOMAIN turns, LoadContext(i)
    PROVE  /\ Others(i) /\ KeepsWork(i) /\ turns'[i].at = "asking"
           /\ turns'[i].stored = Len(transcript)
           /\ turns'[i].history = [k \in DOMAIN Newest(transcript) |-> Replayed(Newest(transcript)[k])]
<1> DEFINE rows == Newest(transcript)
           h == [k \in DOMAIN rows |-> Replayed(rows[k])]
           r == [turns[i] EXCEPT !.at = "asking", !.stored = Len(transcript), !.history = h]
<1>1. turns \in Seq(Turns) /\ turns[i] \in Turns /\ Len(transcript) \in Nat
    BY DEF Types
<1>2. rows \in Seq(Rows)
    BY NewestTyped DEF Types
<1>3. turns' = [turns EXCEPT ![i] = r]
    BY DEF LoadContext
<1> HIDE DEF rows
<1>4. \A k \in DOMAIN rows : Replayed(rows[k]) \in Replays
    <2>1. \A k \in DOMAIN rows : rows[k] \in Rows
        BY <1>2
    <2> QED
        BY <2>1, ReplayedTyped
<1>5. h \in Seq(Replays)
    <2>1. DOMAIN rows = 1..Len(rows) /\ Len(rows) \in Nat
        BY <1>2
    <2>2. h \in [1..Len(rows) -> Replays]
        BY <1>4, <2>1
    <2> QED
        BY <2>1, <2>2, SeqDef
<1> HIDE DEF h
<1>6. r \in Turns
    BY <1>1, <1>5 DEF Turns, Stages
<1>7. Others(i) /\ turns'[i] = r
    BY <1>1, <1>3, <1>6, Moves
<1>8. /\ KeepsWork(i) /\ turns'[i].at = "asking" /\ turns'[i].stored = Len(transcript)
      /\ turns'[i].history = h
    BY <1>1, <1>7 DEF KeepsWork, KeepsRequest, KeepsActions, KeepsCounts, Turns
<1> QED
    BY <1>7, <1>8 DEF h, rows

LEMMA RejectionCountTyped ==
    ASSUME NEW S, NEW items \in Seq(S)
    PROVE  RejectionCount(items) \in Nat
<1> DEFINE bad == {k \in DOMAIN items \ OverCap(items) : ~IsValid(items[k])}
<1>1. IsFiniteSet(DOMAIN items)
    <2>1. DOMAIN items = 1..Len(items) /\ Len(items) \in Int /\ 1 \in Int
        OBVIOUS
    <2>2. IsFiniteSet(1..Len(items))
        BY <2>1, FS_Interval
    <2> QED
        BY <2>1, <2>2
<1>2. bad \in SUBSET DOMAIN items
    OBVIOUS
<1> HIDE DEF bad
<1>3. Cardinality(bad) \in Nat
    BY <1>1, <1>2, FS_Subset, FS_CardinalityType
<1>4. RejectionCount(items) = Cardinality(bad) + (IF OverCap(items) = {} THEN 0 ELSE 1)
    BY DEF RejectionCount, bad
<1> QED
    BY <1>3, <1>4

LEMMA AnswerMoves ==
    ASSUME Types, NEW i \in DOMAIN turns, NEW reply \in Replies, Answer(i, reply)
    PROVE  /\ Others(i) /\ KeepsRequest(i) /\ turns'[i].at = "acting"
           /\ turns'[i].actions = turns[i].actions /\ turns'[i].todo = Plan(reply)
           /\ turns'[i].owed = Len(Plan(reply)) /\ turns'[i].rejected \in Nat
<1> DEFINE count == RejectionCount(reply.trades) + RejectionCount(reply.changes)
           owed == Len(Accepted(reply.trades)) + Len(Accepted(reply.changes))
           plan == Plan(reply)
           r == [turns[i] EXCEPT !.at = "acting", !.history = <<>>, !.stored = 0,
                     !.todo = plan, !.rejected = count, !.owed = owed]
<1>1. turns \in Seq(Turns) /\ turns[i] \in Turns /\ <<>> \in Seq(Replays)
    BY DEF Types
<1>2. count \in Nat
    BY RepliesAssumption, RejectionCountTyped
<1>3. plan \in Seq(Asked(Kinds)) /\ Len(plan) = owed
    BY PlanTyped
<1>4. owed \in Nat
    BY <1>3
<1>5. turns' = [turns EXCEPT ![i] = r]
    BY DEF Answer
<1> HIDE DEF count, owed, plan
<1>6. r \in Turns
    BY <1>1, <1>2, <1>3, <1>4 DEF Turns, Stages
<1>7. Others(i) /\ turns'[i] = r
    BY <1>1, <1>5, <1>6, Moves
<1>8. /\ KeepsRequest(i) /\ turns'[i].at = "acting"
      /\ turns'[i].actions = turns[i].actions /\ turns'[i].todo = plan
      /\ turns'[i].owed = owed /\ turns'[i].rejected = count
    BY <1>1, <1>7 DEF KeepsRequest, Turns
<1> QED
    BY <1>2, <1>3, <1>7, <1>8 DEF plan

\* What is reported of the first item.
Reported(i, why) ==
    [what |-> Head(turns[i].todo).what, ticker |-> Canonical[Head(turns[i].todo).symbol],
     why |-> why]

LEMMA ReportMoves ==
    ASSUME Types, NEW i \in DOMAIN turns, turns[i].todo # <<>>,
           NEW why \in {"ok", "refused", "unpriced"}, Report(i, why)
    PROVE  /\ Others(i) /\ KeepsRequest(i) /\ KeepsCounts(i) /\ turns'[i].at = turns[i].at
           /\ turns'[i].todo = Tail(turns[i].todo)
           /\ Reported(i, why) \in Actions
           /\ turns'[i].actions = Append(turns[i].actions, Reported(i, why))
<1> DEFINE todo == turns[i].todo
           a == Reported(i, why)
           all == Append(turns[i].actions, a)
           r == [turns[i] EXCEPT !.todo = Tail(todo), !.actions = all]
<1>1. turns \in Seq(Turns) /\ turns[i] \in Turns
    BY DEF Types
<1>2. todo \in Seq(Asked(Kinds)) /\ todo # <<>> /\ turns[i].actions \in Seq(Actions)
    BY <1>1 DEF Turns
<1>3. Tail(todo) \in Seq(Asked(Kinds)) /\ Head(todo) \in Asked(Kinds)
    BY <1>2
<1>4. a \in Actions
    BY <1>3, CanonicalAssumption DEF Reported, Actions, Asked, Kinds
<1>5. all \in Seq(Actions)
    BY <1>2, <1>4
<1>6. turns' = [turns EXCEPT ![i] = r]
    BY <1>1 DEF Report, AfterRefusal, Normalize, Reported
<1> HIDE DEF a, all, todo
<1>7. r \in Turns
    BY <1>1, <1>3, <1>5 DEF Turns
<1>8. Others(i) /\ turns'[i] = r
    BY <1>1, <1>6, <1>7, Moves
<1>9. /\ KeepsRequest(i) /\ KeepsCounts(i) /\ turns'[i].at = turns[i].at
      /\ turns'[i].todo = Tail(todo) /\ turns'[i].actions = all
    BY <1>1, <1>8 DEF KeepsRequest, KeepsCounts, Turns
<1> QED
    BY <1>4, <1>8, <1>9 DEF a, all, todo

Rejections(i) ==
    [n \in 1..turns[i].rejected |-> [what |-> "rejected", ticker |-> "", why |-> "schema"]]

LEMMA RejectionsTyped ==
    ASSUME Types, NEW i \in DOMAIN turns
    PROVE  /\ Rejections(i) \in Seq(Actions) /\ Len(Rejections(i)) = turns[i].rejected
           /\ \A k \in DOMAIN Rejections(i) :
                 Rejections(i)[k] = [what |-> "rejected", ticker |-> "", why |-> "schema"]
<1>1. turns[i].rejected \in Nat
    <2>1. turns[i] \in Turns
        BY DEF Types
    <2> QED
        BY <2>1 DEF Turns
<1>2. Rejections(i) \in [1..turns[i].rejected -> Actions]
    BY DEF Rejections, Actions
<1>3. Rejections(i) \in Seq(Actions) /\ Len(Rejections(i)) = turns[i].rejected
    BY <1>1, <1>2, SeqDef
<1> QED
    BY <1>3 DEF Rejections

LEMMA EndMoves ==
    ASSUME Types, NEW i \in DOMAIN turns, ActEnd(i)
    PROVE  /\ Others(i) /\ KeepsRequest(i) /\ KeepsCounts(i) /\ turns'[i].at = "valuing"
           /\ turns'[i].todo = turns[i].todo
           /\ turns'[i].actions = turns[i].actions \o Rejections(i)
<1> DEFINE all == turns[i].actions \o Rejections(i)
           r == [turns[i] EXCEPT !.at = "valuing", !.actions = all]
<1>1. turns \in Seq(Turns) /\ turns[i] \in Turns
    BY DEF Types
<1>2. turns[i].actions \in Seq(Actions) /\ Rejections(i) \in Seq(Actions)
    BY <1>1, RejectionsTyped DEF Turns
<1>3. all \in Seq(Actions)
    BY <1>2, ConcatProperties
<1>4. turns' = [turns EXCEPT ![i] = r]
    BY <1>1 DEF ActEnd, Rejections
<1> HIDE DEF all
<1>5. r \in Turns
    BY <1>1, <1>3 DEF Turns, Stages
<1>6. Others(i) /\ turns'[i] = r
    BY <1>1, <1>4, <1>5, Moves
<1>7. /\ KeepsRequest(i) /\ KeepsCounts(i) /\ turns'[i].at = "valuing"
      /\ turns'[i].todo = turns[i].todo /\ turns'[i].actions = all
    BY <1>1, <1>6 DEF KeepsRequest, KeepsCounts, Turns
<1> QED
    BY <1>6, <1>7 DEF all

\* A trade: one fill, or a line that says why not.
Filled(i) ==
    /\ fills' = Append(fills, [turn |-> i, what |-> Head(turns[i].todo).what])
    /\ \A t \in Tickers : shares'[t] > 0 => shares[t] > 0 \/ t \in streamed

NotFilled(i, why) ==
    /\ why # "ok" /\ fills' = fills /\ shares' = shares
    /\ why = "unpriced" => Canonical[Head(turns[i].todo).symbol] \notin streamed

Traded(i, why) ==
    /\ Head(turns[i].todo).what \in {"buy", "sell"} /\ turns[i].todo # <<>>
    /\ turns[i].at = "acting" /\ Report(i, why)
    /\ UNCHANGED <<watch, streamed, transcript, panel, handedBack, overlapped>>
    /\ shares' \in [Tickers -> Nat]
    /\ (why = "ok" /\ Filled(i)) \/ NotFilled(i, why)

LEMMA HeadTyped ==
    ASSUME Types, NEW i \in DOMAIN turns, turns[i].todo # <<>>
    PROVE  /\ Head(turns[i].todo) \in Asked(Kinds)
           /\ Head(turns[i].todo).what \in Kinds
           /\ Canonical[Head(turns[i].todo).symbol] \in Tickers
<1>1. turns[i] \in Turns
    BY DEF Types
<1>2. turns[i].todo \in Seq(Asked(Kinds))
    BY <1>1 DEF Turns
<1>3. Head(turns[i].todo) \in Asked(Kinds)
    BY <1>2
<1> QED
    BY <1>3, CanonicalAssumption DEF Asked

LEMMA TradeCases ==
    ASSUME Types, NEW i \in DOMAIN turns, ActTrade(i)
    PROVE  \E why \in {"ok", "refused", "unpriced"} : Traded(i, why)
<1> DEFINE item == Head(turns[i].todo)
           t == Canonical[item.symbol]
<1>1. /\ turns[i].at = "acting" /\ turns[i].todo # <<>> /\ item.what \in {"buy", "sell"}
      /\ UNCHANGED <<watch, streamed, transcript, panel, handedBack, overlapped>>
    BY DEF ActTrade, Acting
<1>2. t \in Tickers /\ shares \in [Tickers -> Nat]
    BY <1>1, HeadTyped DEF Types
<1>3. ASSUME NEW change \in {1, -1}, t \in streamed, change = -1 => shares[t] >= 1,
             shares' = [shares EXCEPT ![t] = @ + change],
             fills' = Append(fills, [turn |-> i, what |-> item.what]), Report(i, "ok")
      PROVE  Traded(i, "ok")
    <2>1. shares[t] + change \in Nat
        BY <1>2, <1>3
    <2>2. shares' \in [Tickers -> Nat]
        BY <1>2, <1>3, <2>1
    <2>3. \A u \in Tickers : u # t => shares'[u] = shares[u]
        BY <1>2, <1>3
    <2>4. Filled(i)
        BY <1>3, <2>3 DEF Filled
    <2> QED
        BY <1>1, <1>3, <2>2, <2>4 DEF Traded
<1>4. ASSUME NEW why \in {"refused", "unpriced"}, Report(i, why), UNCHANGED <<cash, shares, fills>>,
             why = "unpriced" => t \notin streamed
      PROVE  Traded(i, why)
    BY <1>1, <1>2, <1>4 DEF Traded, NotFilled
<1>5. \/ /\ t \in streamed /\ shares' = [shares EXCEPT ![t] = @ + 1] /\ Report(i, "ok")
         /\ fills' = Append(fills, [turn |-> i, what |-> item.what])
      \/ /\ t \in streamed /\ shares[t] >= 1 /\ shares' = [shares EXCEPT ![t] = @ + (-1)]
         /\ Report(i, "ok") /\ fills' = Append(fills, [turn |-> i, what |-> item.what])
      \/ t \notin streamed /\ Report(i, "unpriced") /\ UNCHANGED <<cash, shares, fills>>
      \/ Report(i, "refused") /\ UNCHANGED <<cash, shares, fills>>
    BY DEF ActTrade
<1> HIDE DEF t, item
<1> QED
    BY <1>3, <1>4, <1>5

\* A watchlist change: applied and reconciled, or refused.
Changed(i, why) ==
    /\ Head(turns[i].todo).what \in {"add", "remove"} /\ turns[i].todo # <<>>
    /\ turns[i].at = "acting" /\ Report(i, why)
    /\ UNCHANGED <<shares, fills, transcript, panel, handedBack, overlapped>>
    /\ \/ /\ why = "ok" /\ streamed' = Tracked(watch')
          /\ LET t == Canonical[Head(turns[i].todo).symbol]
             IN  watch' = IF Head(turns[i].todo).what = "add" THEN watch \cup {t}
                          ELSE watch \ {t}
       \/ why = "refused" /\ UNCHANGED <<watch, streamed>>

LEMMA ChangeCases ==
    ASSUME Types, NEW i \in DOMAIN turns, ActWatchlist(i)
    PROVE  \E why \in {"ok", "refused"} : Changed(i, why)
BY DEF ActWatchlist, Acting, Changed

\* What a server step of turn i does to the turn, seen from afar.
Advances(i) ==
    /\ turns[i].at \in {"loading", "asking", "acting", "valuing", "persisting"}
    /\ turns'[i].at \in {"loading", "asking", "unavailable"} => turns[i].at \in {"loading", "asking"}
    /\ \/ fills' = fills
       \/ /\ turns[i].at = "acting" /\ turns'[i].at = "acting"
          /\ \E what \in {"buy", "sell"} : fills' = Append(fills, [turn |-> i, what |-> what])

LEMMA ServerMoves ==
    ASSUME Types, NEW i \in DOMAIN turns, ServerStep(i)
    PROVE  Others(i) /\ KeepsRequest(i) /\ Advances(i) /\ UNCHANGED <<panel, handedBack, overlapped>>
<1>0. turns \in Seq(Turns)
    BY DEF Types
<1>1. CASE LoadContext(i)
    BY <1>1, LoadMoves DEF LoadContext, Advances, KeepsWork, account
<1>2. CASE Unavailable(i)
    BY <1>0, <1>2, LeaveMoves DEF Unavailable, Advances, KeepsWork, account, Stages
<1>3. CASE AnswerMalformed(i)
    BY <1>0, <1>3, LeaveMoves DEF AnswerMalformed, Advances, KeepsWork, account, Stages
<1>4. CASE \E reply \in Replies : Answer(i, reply)
    <2>1. PICK reply \in Replies : Answer(i, reply)
        BY <1>4
    <2>2. Others(i) /\ KeepsRequest(i) /\ turns'[i].at = "acting"
        BY <2>1, AnswerMoves
    <2> QED
        BY <2>1, <2>2 DEF Answer, Advances, account
<1>5. CASE ActTrade(i)
    <2>1. PICK why \in {"ok", "refused", "unpriced"} : Traded(i, why)
        BY <1>5, TradeCases
    <2>2. Others(i) /\ KeepsRequest(i) /\ turns'[i].at = turns[i].at
        BY <2>1, ReportMoves DEF Traded
    <2> QED
        BY <2>1, <2>2 DEF Traded, Filled, NotFilled, Advances
<1>6. CASE ActWatchlist(i)
    <2>1. PICK why \in {"ok", "refused"} : Changed(i, why)
        BY <1>6, ChangeCases
    <2>2. Others(i) /\ KeepsRequest(i) /\ turns'[i].at = turns[i].at
        BY <2>1, ReportMoves DEF Changed
    <2> QED
        BY <2>1, <2>2 DEF Changed, Advances
<1>7. CASE ActEnd(i)
    BY <1>7, EndMoves DEF ActEnd, Advances, account
<1>8. CASE Value(i)
    BY <1>0, <1>8, GotoMoves DEF Value, Advances, KeepsWork, account, Stages
<1>9. CASE Persist(i)
    BY <1>0, <1>9, GotoMoves DEF Persist, Advances, KeepsWork, account, Stages
<1>10. CASE Raise(i)
    BY <1>0, <1>10, GotoMoves DEF Raise, Advances, KeepsWork, account, Stages
<1> QED
    BY <1>1, <1>2, <1>3, <1>4, <1>5, <1>6, <1>7, <1>8, <1>9, <1>10 DEF ServerStep

\* A crash: turns that ran are dead, the others are what they were.
LEMMA CrashMoves ==
    ASSUME Types, Crash
    PROVE  /\ turns' \in Seq(Turns) /\ DOMAIN turns' = DOMAIN turns /\ Len(turns') = Len(turns)
           /\ \A i \in DOMAIN turns :
                 /\ KeepsWork(i)
                 /\ Active(i) => turns'[i].at = "dead"
                 /\ ~Active(i) => turns'[i] = turns[i]
                 /\ ~Active(i)'
<1>1. turns \in Seq(Turns) /\ Len(turns) \in Nat /\ DOMAIN turns = 1..Len(turns)
      /\ <<>> \in Seq(Replays)
    BY DEF Types
<1>2. ASSUME NEW i \in DOMAIN turns
      PROVE  /\ turns'[i] \in Turns /\ KeepsWork(i)
             /\ Active(i) => turns'[i].at = "dead"
             /\ ~Active(i) => turns'[i] = turns[i]
             /\ ~Active(i)'
    <2>1. turns[i] \in Turns
        BY <1>1
    <2>2. turns'[i] = IF Active(i) THEN [turns[i] EXCEPT !.at = "dead", !.history = <<>>, !.stored = 0]
                      ELSE turns[i]
        BY DEF Crash
    <2>3. CASE Active(i)
        <3> DEFINE r == [turns[i] EXCEPT !.at = "dead", !.history = <<>>, !.stored = 0]
        <3>1. r \in Turns /\ r.at = "dead"
            BY <1>1, <2>1 DEF Turns, Stages
        <3>2. turns'[i] = r
            BY <2>2, <2>3
        <3>3. KeepsWork(i)
            BY <2>1, <3>2 DEF Turns, KeepsWork, KeepsRequest, KeepsActions, KeepsCounts
        <3> QED
            BY <2>3, <3>1, <3>2, <3>3 DEF Active
    <2>4. CASE ~Active(i)
        BY <2>1, <2>2, <2>4 DEF Active, KeepsWork, KeepsRequest, KeepsActions, KeepsCounts
    <2> QED
        BY <2>3, <2>4
<1>3. DOMAIN turns' = DOMAIN turns
    BY DEF Crash
<1>4. turns' \in [1..Len(turns) -> Turns]
    BY <1>1, <1>2, <1>3 DEF Crash
<1>5. turns' \in Seq(Turns) /\ Len(turns') = Len(turns)
    BY <1>1, <1>4, SeqDef
<1> QED
    BY <1>2, <1>3, <1>5

Request ==
    [text |-> draft, at |-> "loading", todo |-> <<>>, actions |-> <<>>, rejected |-> 0,
     owed |-> 0, tracked |-> Tracked(watch), history |-> <<>>, stored |-> 0]

LEMMA SendMoves ==
    ASSUME Types, Send
    PROVE  /\ turns' \in Seq(Turns) /\ Len(turns') = Len(turns) + 1
           /\ DOMAIN turns' = DOMAIN turns \cup {Len(turns) + 1}
           /\ Len(turns) + 1 \notin DOMAIN turns
           /\ turns'[Len(turns) + 1] = Request
           /\ \A i \in DOMAIN turns : turns'[i] = turns[i]
<1>1. turns \in Seq(Turns) /\ turns' = Append(turns, Request)
    BY DEF Types, Send, Request
<1>2. Request \in Turns
    <2>1. Tracked(watch) \subseteq Tickers /\ draft \in Nat
        BY DEF Types, Tracked
    <2>2. <<>> \in Seq(Asked(Kinds)) /\ <<>> \in Seq(Actions) /\ <<>> \in Seq(Replays)
        OBVIOUS
    <2> QED
        BY <2>1, <2>2 DEF Request, Turns, Stages
<1> QED
    BY <1>1, <1>2

-----------------------------------------------------------------------------
(* Types are kept *)

LEMMA TypesInit == Init => Types
<1> SUFFICES ASSUME Init
             PROVE  Types
    OBVIOUS
<1>1. Earlier \in Seq(Rows)
    <2>1. \A k \in 1..Len(Earlier) : Earlier[k] \in Rows
        <3> DEFINE R == [turn : {0}, role : {"user", "assistant"}, actions : Seq(Actions)]
        <3>1. \A row \in R : row \in Rows
            BY DEF Rows
        <3>2. Earlier \in Seq(R)
            BY EarlierAssumption
        <3> HIDE DEF R
        <3> QED
            BY <3>1, <3>2
    <2>2. Len(Earlier) \in Nat /\ Earlier \in [1..Len(Earlier) -> Rows]
        BY <2>1, EarlierAssumption
    <2> QED
        BY <2>2, SeqDef
<1>2. <<>> \in Seq(Fills) /\ <<>> \in Seq(Turns) /\ DOMAIN <<>> = {} /\ Len(<<>>) = 0
    OBVIOUS
<1> QED
    BY <1>1, <1>2 DEF Init, Types

\* Fills belong to turns.
LEMMA FillsKept ==
    ASSUME Types, DOMAIN turns \subseteq DOMAIN turns',
           \/ fills' = fills
           \/ \E i \in DOMAIN turns, what \in {"buy", "sell"} :
                 fills' = Append(fills, [turn |-> i, what |-> what])
    PROVE  fills' \in Seq(Fills) /\ \A k \in DOMAIN fills' : fills'[k].turn \in DOMAIN turns'
<1>1. CASE fills' = fills
    BY <1>1 DEF Types
<1>2. ASSUME NEW i \in DOMAIN turns, NEW what \in {"buy", "sell"},
             fills' = Append(fills, [turn |-> i, what |-> what])
      PROVE  fills' \in Seq(Fills) /\ \A k \in DOMAIN fills' : fills'[k].turn \in DOMAIN turns'
    <2>1. i \in Nat \ {0}
        BY DEF Types
    <2>2. [turn |-> i, what |-> what] \in Fills
        BY <2>1 DEF Fills
    <2>3. fills' \in Seq(Fills) /\ DOMAIN fills' = DOMAIN fills \cup {Len(fills) + 1}
        BY <1>2, <2>2 DEF Types
    <2>4. \A k \in DOMAIN fills : fills'[k] = fills[k]
        BY <1>2 DEF Types
    <2>5. fills'[Len(fills) + 1].turn = i
        BY <1>2 DEF Types
    <2> QED
        BY <2>3, <2>4, <2>5 DEF Types
<1> QED
    BY <1>1, <1>2

LEMMA ExchangeTyped ==
    ASSUME Types, NEW i \in DOMAIN turns
    PROVE  transcript \o Exchange(i) \in Seq(Rows)
<1>1. turns[i] \in Turns /\ i \in Nat
    BY DEF Types
<1>2. turns[i].actions \in Seq(Actions) /\ <<>> \in Seq(Actions)
    BY <1>1 DEF Turns
<1>3. Row(i, "user", <<>>) \in Rows /\ Row(i, "assistant", turns[i].actions) \in Rows
    BY <1>1, <1>2 DEF Row, Rows
<1>4. Exchange(i) \in Seq(Rows)
    BY <1>3 DEF Exchange
<1> QED
    BY <1>4, ConcatProperties DEF Types

LEMMA TypesStep ==
    ASSUME Types, [Next]_vars
    PROVE  Types'
<1>1. CASE Type
    BY <1>1 DEF Type, Types, account
<1>2. CASE Send
    <2>1. fills' \in Seq(Fills) /\ \A k \in DOMAIN fills' : fills'[k].turn \in DOMAIN turns'
        BY <1>2, SendMoves, FillsKept DEF Send, account
    <2>2. \A i \in DOMAIN turns' : turns'[i].text \in 1..typed'
        <3>1. draft \in 1..typed /\ typed' = typed
            BY <1>2 DEF Send, Types
        <3>2. turns'[Len(turns) + 1].text = draft
            BY <1>2, SendMoves DEF Request
        <3> QED
            BY <1>2, <3>1, <3>2, SendMoves DEF Types
    <2> QED
        BY <1>2, <2>1, <2>2, SendMoves DEF Send, Types, account
<1>3. CASE ReceiveAnswer
    <2>1. draft' \in 0..typed
        <3>1. pending \in DOMAIN turns
            <4>1. pending = Len(turns) /\ pending # 0 /\ turns \in Seq(Turns)
                BY <1>3 DEF ReceiveAnswer, Types
            <4> QED
                BY <4>1
        <3> QED
            BY <1>3, <3>1 DEF ReceiveAnswer, Types
    <2> QED
        BY <1>3, <2>1 DEF ReceiveAnswer, Types, account
<1>4. CASE LoseConnection
    BY <1>4 DEF LoseConnection, DraftAfterDrop, PendingAfterDrop, Types, account
<1>5. ASSUME NEW i \in DOMAIN turns, ServerStep(i)
      PROVE  Types'
    <2>1. Others(i) /\ Advances(i) /\ UNCHANGED panel
        BY <1>5, ServerMoves
    <2>2. fills' \in Seq(Fills) /\ \A k \in DOMAIN fills' : fills'[k].turn \in DOMAIN turns'
        BY <2>1, FillsKept DEF Others, Advances
    <2>3. transcript' \in Seq(Rows)
        BY <1>5, ExchangeTyped DEF Types, ServerStep, LoadContext, Unavailable, AnswerMalformed,
               Answer, ActTrade, ActWatchlist, ActEnd, Value, Persist, Raise
    <2>4. shares' \in [Tickers -> Nat] /\ watch' \subseteq Tickers
        <3>1. CASE ActTrade(i)
            BY <3>1, TradeCases DEF Traded, Types
        <3>2. CASE ActWatchlist(i)
            <4>1. PICK why \in {"ok", "refused"} : Changed(i, why)
                BY <3>2, ChangeCases
            <4>2. Canonical[Head(turns[i].todo).symbol] \in Tickers
                BY <4>1, HeadTyped DEF Changed
            <4> QED
                BY <4>1, <4>2 DEF Changed, Types
        <3>3. CASE ~ActTrade(i) /\ ~ActWatchlist(i)
            BY <1>5, <3>3 DEF Types, ServerStep, LoadContext, Unavailable, AnswerMalformed,
                   Answer, ActEnd, Value, Persist, Raise, account
        <3> QED
            BY <3>1, <3>2, <3>3
    <2>5. \A j \in DOMAIN turns' : turns'[j].text \in 1..typed
        <3>1. KeepsRequest(i)
            BY <1>5, ServerMoves
        <3> QED
            BY <2>1, <3>1 DEF Others, KeepsRequest, Types
    <2> QED
        BY <2>1, <2>2, <2>3, <2>4, <2>5 DEF Types, Others, panel
<1>6. CASE Crash
    <2>1. fills' \in Seq(Fills) /\ \A k \in DOMAIN fills' : fills'[k].turn \in DOMAIN turns'
        BY <1>6, CrashMoves, FillsKept DEF Crash
    <2>2. \A i \in DOMAIN turns' : turns'[i].text \in 1..typed
        BY <1>6, CrashMoves DEF KeepsWork, KeepsRequest, Types
    <2> QED
        BY <1>6, <2>1, <2>2, CrashMoves DEF Crash, Types, panel
<1>7. CASE UNCHANGED vars
    BY <1>7 DEF vars, Types
<1> QED
    BY <1>1, <1>2, <1>3, <1>4, <1>5, <1>6, <1>7 DEF Next

-----------------------------------------------------------------------------
(* No message trades twice behind the user's back *)

\* The server has said that the message came to nothing, or failed half way.
Handed(i) == turns[i].at \in {"unavailable", "error"}

\* The composer offers again only what has been handed back, so that of two turns with
\* the same text the first one was; and a turn that was told to be unavailable, or has no
\* answer yet, has not traded.
Once ==
    /\ draft # 0 => \A i \in DOMAIN turns : turns[i].text = draft => Handed(i)
    /\ \A i, j \in DOMAIN turns : i < j /\ turns[i].text = turns[j].text => Handed(i)
    /\ \A i \in DOMAIN turns : turns[i].at \in {"loading", "asking", "unavailable"} =>
          \A k \in DOMAIN fills : fills[k].turn # i

LEMMA OnceInit == Init => Once
<1>1. DOMAIN <<>> = {}
    OBVIOUS
<1> QED
    BY <1>1 DEF Init, Once

\* Steps that take no draft and no handed-back turn away.
LEMMA OnceKept ==
    ASSUME Types, Once, DOMAIN turns' = DOMAIN turns, draft' = draft,
           \A i \in DOMAIN turns : turns'[i].text = turns[i].text /\ (Handed(i) => Handed(i)'),
           \A i \in DOMAIN turns : turns'[i].at \in {"loading", "asking", "unavailable"} =>
               /\ turns[i].at \in {"loading", "asking", "unavailable"}
               /\ fills' # fills => \E j \in DOMAIN turns, what \in {"buy", "sell"} :
                      j # i /\ fills' = Append(fills, [turn |-> j, what |-> what])
    PROVE  Once'
<1>1. \A i, j \in DOMAIN turns' : i < j /\ turns'[i].text = turns'[j].text => Handed(i)'
    BY DEF Once
<1>2. draft' # 0 => \A i \in DOMAIN turns' : turns'[i].text = draft' => Handed(i)'
    BY DEF Once
<1>3. ASSUME NEW i \in DOMAIN turns, turns'[i].at \in {"loading", "asking", "unavailable"}
      PROVE  \A k \in DOMAIN fills' : fills'[k].turn # i
    <2>1. \A k \in DOMAIN fills : fills[k].turn # i
        BY <1>3 DEF Once
    <2>2. CASE fills' = fills
        BY <2>1, <2>2
    <2>3. CASE fills' # fills
        <3>1. PICK j \in DOMAIN turns, what \in {"buy", "sell"} :
                  j # i /\ fills' = Append(fills, [turn |-> j, what |-> what])
            BY <1>3, <2>3
        <3>2. /\ DOMAIN fills' = DOMAIN fills \cup {Len(fills) + 1}
              /\ fills'[Len(fills) + 1].turn = j
              /\ \A k \in DOMAIN fills : fills'[k] = fills[k]
            BY <3>1 DEF Types
        <3> QED
            BY <2>1, <3>1, <3>2
    <2> QED
        BY <2>2, <2>3
<1> QED
    BY <1>1, <1>2, <1>3 DEF Once

LEMMA OnceStep ==
    ASSUME Types, Once, [Next]_vars
    PROVE  Once'
<1>0. turns \in Seq(Turns) /\ DOMAIN turns = 1..Len(turns) /\ Len(turns) \in Nat
    BY DEF Types
<1>1. CASE Type
    <2>1. draft' = typed + 1 /\ turns' = turns /\ fills' = fills
        BY <1>1 DEF Type, account
    <2>2. \A i \in DOMAIN turns : turns[i].text # typed + 1
        BY DEF Types
    <2> QED
        BY <2>1, <2>2 DEF Once, Handed
<1>2. CASE Send
    <2> DEFINE n == Len(turns) + 1
    <2>1. /\ DOMAIN turns' = DOMAIN turns \cup {n} /\ n \notin DOMAIN turns
          /\ turns'[n].text = draft /\ \A i \in DOMAIN turns : turns'[i] = turns[i]
        BY <1>2, SendMoves DEF Request
    <2>2. draft' = 0 /\ draft # 0 /\ fills' = fills
        BY <1>2 DEF Send, account
    <2>3. \A k \in DOMAIN fills : fills[k].turn # n
        BY <2>1 DEF Types
    <2>4. \A i \in DOMAIN turns : ~(n < i)
        BY <1>0
    <2> HIDE DEF n
    <2>5. \A i \in DOMAIN turns : Handed(i)' <=> Handed(i)
        BY <2>1 DEF Handed
    <2>6. ASSUME NEW i \in DOMAIN turns', NEW j \in DOMAIN turns', i < j,
                 turns'[i].text = turns'[j].text
          PROVE  Handed(i)'
        <3>1. i # n /\ i \in DOMAIN turns
            <4>1. CASE i = n /\ j \in DOMAIN turns
                BY <2>4, <2>6, <4>1
            <4>2. CASE i = n /\ j = n
                <5>1. n \in Nat
                    BY <1>0 DEF n
                <5> QED
                    BY <2>6, <4>2, <5>1
            <4> QED
                BY <2>1, <2>6, <4>1, <4>2
        <3>2. CASE j = n
            BY <2>1, <2>2, <2>5, <2>6, <3>1, <3>2 DEF Once
        <3>3. CASE j # n
            BY <2>1, <2>5, <2>6, <3>1, <3>3 DEF Once
        <3> QED
            BY <3>2, <3>3
    <2>7. \A i \in DOMAIN turns' : turns'[i].at \in {"loading", "asking", "unavailable"} =>
              \A k \in DOMAIN fills' : fills'[k].turn # i
        BY <2>1, <2>2, <2>3 DEF Once
    <2> QED
        BY <2>2, <2>6, <2>7 DEF Once
<1>3. CASE ReceiveAnswer
    <2>1. /\ turns' = turns /\ fills' = fills /\ pending \in DOMAIN turns /\ pending = Len(turns)
          /\ draft' = draft \/ (draft' = turns[pending].text /\ Handed(pending))
        <3>1. /\ turns' = turns /\ fills' = fills /\ pending = Len(turns) /\ pending # 0
              /\ turns[pending].at \in {"replied", "unavailable", "error"}
              /\ IF turns[pending].at = "replied" THEN draft' = draft
                 ELSE draft' = IF draft = 0 THEN turns[pending].text ELSE draft
            BY <1>3 DEF ReceiveAnswer, Types, account
        <3>2. pending \in DOMAIN turns
            BY <1>0, <3>1
        <3>3. draft' = draft \/ (draft' = turns[pending].text /\ turns[pending].at # "replied")
            BY <3>1
        <3> QED
            BY <3>1, <3>2, <3>3 DEF Handed
    <2>2. CASE draft' = draft
        BY <2>1, <2>2 DEF Once, Handed
    <2>3. CASE draft' = turns[pending].text /\ Handed(pending)
        <3>1. \A i \in DOMAIN turns : i < pending \/ i = pending
            BY <1>0, <2>1
        <3>2. \A i \in DOMAIN turns : turns[i].text = turns[pending].text => Handed(i)
            BY <2>1, <2>3, <3>1 DEF Once
        <3> QED
            BY <2>1, <2>3, <3>2 DEF Once, Handed
    <2> QED
        BY <2>1, <2>2, <2>3
<1>4. CASE LoseConnection
    BY <1>4 DEF LoseConnection, DraftAfterDrop, account, Once, Handed
<1>5. ASSUME NEW i \in DOMAIN turns, ServerStep(i)
      PROVE  Once'
    <2>1. Others(i) /\ KeepsRequest(i) /\ Advances(i) /\ draft' = draft
        BY <1>5, ServerMoves DEF panel
    <2>2. ~Handed(i) /\ \A j \in DOMAIN turns : turns'[j].text = turns[j].text
        BY <2>1 DEF Advances, Handed, Others, KeepsRequest
    <2>3. \A j \in DOMAIN turns : Handed(j) => Handed(j)'
        BY <2>1, <2>2 DEF Others, Handed
    <2>4. \A j \in DOMAIN turns : turns'[j].at \in {"loading", "asking", "unavailable"} =>
               /\ turns[j].at \in {"loading", "asking", "unavailable"}
               /\ fills' # fills => \E h \in DOMAIN turns, what \in {"buy", "sell"} :
                      h # j /\ fills' = Append(fills, [turn |-> h, what |-> what])
        BY <2>1 DEF Others, Advances
    <2> QED
        BY <2>1, <2>2, <2>3, <2>4, OnceKept DEF Others
<1>6. CASE Crash
    <2>1. /\ DOMAIN turns' = DOMAIN turns /\ draft' = draft /\ fills' = fills
          /\ \A i \in DOMAIN turns :
                /\ turns'[i].text = turns[i].text
                /\ Active(i) => turns'[i].at = "dead"
                /\ ~Active(i) => turns'[i] = turns[i]
        BY <1>6, CrashMoves DEF Crash, panel, KeepsWork, KeepsRequest
    <2>2. \A i \in DOMAIN turns : Handed(i) => Handed(i)'
        BY <2>1 DEF Handed, Active
    <2>3. \A i \in DOMAIN turns : turns'[i].at \in {"loading", "asking", "unavailable"} =>
              turns[i].at \in {"loading", "asking", "unavailable"}
        BY <2>1
    <2> QED
        BY <2>1, <2>2, <2>3, OnceKept
<1>7. CASE UNCHANGED vars
    BY <1>7 DEF vars, Once, Handed
<1> QED
    BY <1>1, <1>2, <1>3, <1>4, <1>5, <1>6, <1>7 DEF Next

\* However many messages, retries, faults, lost connections and overlapping turns: one
\* message has fills of two turns only if the server had answered the first with an error.
THEOREM NoSecondFill == Spec => []NoSilentDoubleFill
<1>1. Types /\ Once => NoSilentDoubleFill
    <2> SUFFICES ASSUME Types, Once, NEW i \in DOMAIN turns, NEW j \in DOMAIN turns,
                        i < j, turns[i].text = turns[j].text, FillsOf(i) # <<>>
                 PROVE  turns[i].at = "error"
        BY DEF NoSilentDoubleFill
    <2>1. Handed(i)
        BY DEF Once
    <2>2. turns[i].at # "unavailable"
        <3>1. fills \in Seq(Fills)
            BY DEF Types
        <3> QED
            BY <3>1, NoFills DEF Once
    <2> QED
        BY <2>1, <2>2 DEF Handed
<1>2. Types /\ Once /\ [Next]_vars => (Types /\ Once)'
    BY TypesStep, OnceStep
<1> QED
    BY <1>1, <1>2, TypesInit, OnceInit, PTL DEF Spec

-----------------------------------------------------------------------------
(* A turn reports what it did *)

\* The fills are the trades reported as done, one by one.
SameTrades(filled, reported) ==
    Len(filled) = Len(reported) /\ \A k \in 1..Len(filled) : filled[k].what = reported[k].what

\* The trades still to come fit the cap together with those that were done.
WithinCap(todo, done) == \E a, b \in Nat : Blocks(todo, a, b) /\ (b - a) + done <= MaxActions

\* Nothing of the reply gets lost on its way from the plan to the report.
Accounted(turn) ==
    /\ turn.at \in {"loading", "asking"} =>
          turn.actions = <<>> /\ turn.todo = <<>> /\ turn.owed = 0 /\ turn.rejected = 0
    /\ turn.at = "acting" => Len(turn.actions) + Len(turn.todo) = turn.owed
    /\ turn.at \in {"valuing", "persisting", "replied"} =>
          Len(turn.actions) = turn.owed + turn.rejected

Honest(i) ==
    /\ SameTrades(FillsOf(i), OkTrades(turns[i].actions))
    /\ WithinCap(turns[i].todo, Len(OkTrades(turns[i].actions)))
    /\ Accounted(turns[i])

Reporting == \A i \in DOMAIN turns : Honest(i)

LEMMA FillsOfKept ==
    ASSUME fills' = fills, NEW i
    PROVE  FillsOf(i)' = FillsOf(i)
BY DEF FillsOf

\* The fills of a turn that does not trade now.
LEMMA FillsOfOthers ==
    ASSUME Types, NEW i \in DOMAIN turns, Advances(i), NEW j, j # i
    PROVE  FillsOf(j)' = FillsOf(j)
<1>1. CASE fills' = fills
    BY <1>1, FillsOfKept
<1>2. ASSUME NEW what \in {"buy", "sell"}, fills' = Append(fills, [turn |-> i, what |-> what])
      PROVE  FillsOf(j)' = FillsOf(j)
    <2> DEFINE f == [turn |-> i, what |-> what]
    <2>1. f \in Fills /\ f.turn # j
        BY DEF Fills, Types
    <2>2. fills' = Append(fills, f) /\ fills \in Seq(Fills)
        BY <1>2 DEF Types
    <2> HIDE DEF f
    <2> QED
        BY <2>1, <2>2, FillsOfAppend
<1> QED
    BY <1>1, <1>2 DEF Advances

LEMMA NothingDone == OkTrades(<<>>) \in Seq(Actions) /\ Len(OkTrades(<<>>)) = 0
<1> DEFINE s == <<>>
           D == {k \in DOMAIN s : IsFill(s[k])}
<1>1. s \in Seq(Actions) /\ D \cap (1..Len(s)) = {}
    OBVIOUS
<1>2. OkTrades(s) = Picked(s, D)
    BY DEF OkTrades
<1> HIDE DEF s, D
<1>3. OkTrades(s) \in Seq(Actions) /\ Len(OkTrades(s)) = Cardinality(D \cap (1..Len(s)))
    BY <1>1, <1>2, PickedTyped
<1> QED
    BY <1>1, <1>3, FS_EmptySet DEF s

LEMMA ReportingInit == Init => Reporting
<1>1. DOMAIN <<>> = {}
    OBVIOUS
<1> QED
    BY <1>1 DEF Init, Reporting

\* A turn whose work is what it was.
LEMMA HonestKept ==
    ASSUME NEW i, Honest(i), FillsOf(i)' = FillsOf(i), KeepsWork(i), Accounted(turns[i])'
    PROVE  Honest(i)'
BY DEF Honest, KeepsWork, KeepsActions

\* With the first item done.
LEMMA WithinCapTail ==
    ASSUME NEW todo \in Seq(Asked(Kinds)), todo # <<>>, NEW done \in Nat, WithinCap(todo, done)
    PROVE  /\ WithinCap(Tail(todo), done)
           /\ Head(todo).what \in {"buy", "sell"} => WithinCap(Tail(todo), done + 1)
<1>1. PICK a \in Nat, b \in Nat : Blocks(todo, a, b) /\ (b - a) + done <= MaxActions
    BY DEF WithinCap
<1> DEFINE c == IF a > 0 THEN a - 1 ELSE 0
           d == IF b > 0 THEN b - 1 ELSE 0
<1>2. /\ Blocks(Tail(todo), c, d)
      /\ Head(todo).what \in {"buy", "sell"} <=> (a = 0 /\ b > 0)
    BY <1>1, BlocksTail
<1>3. MaxActions \in Nat /\ a <= b
    BY <1>1, LimitsAssumption DEF Blocks
<1>4. c \in Nat /\ d \in Nat /\ d - c <= b - a /\ (a = 0 /\ b > 0 => d - c = (b - a) - 1)
    BY <1>3
<1> HIDE DEF c, d
<1>5. (d - c) + done <= MaxActions /\ (a = 0 /\ b > 0 => (d - c) + (done + 1) <= MaxActions)
    BY <1>1, <1>3, <1>4
<1> QED
    BY <1>2, <1>4, <1>5 DEF WithinCap

LEMMA HonestTrade ==
    ASSUME Types, NEW i \in DOMAIN turns, Honest(i), NEW why \in {"ok", "refused", "unpriced"},
           Traded(i, why)
    PROVE  Honest(i)'
<1> DEFINE todo == turns[i].todo
           actions == turns[i].actions
           a == Reported(i, why)
<1>1. /\ KeepsCounts(i) /\ turns'[i].at = "acting" /\ turns'[i].todo = Tail(todo)
      /\ a \in Actions /\ turns'[i].actions = Append(actions, a)
    BY ReportMoves DEF Traded
<1>2. turns[i] \in Turns
    BY DEF Types
<1>3. todo \in Seq(Asked(Kinds)) /\ actions \in Seq(Actions) /\ todo # <<>>
      /\ turns[i].owed \in Nat
    BY <1>2 DEF Turns, Traded
<1>4. /\ Head(todo).what \in {"buy", "sell"} /\ a.what = Head(todo).what /\ a.why = why
      /\ IsFill(a) <=> why = "ok"
    BY DEF Traded, Reported, IsFill
<1> HIDE DEF a
<1>5. OkTrades(turns'[i].actions) = IF why = "ok" THEN Append(OkTrades(actions), a)
                                    ELSE OkTrades(actions)
    BY <1>1, <1>3, <1>4, OkTradesAppend
<1>6. OkTrades(actions) \in Seq(Actions) /\ Len(OkTrades(actions)) \in Nat
    BY <1>3, OkTradesTyped
<1>7. SameTrades(FillsOf(i)', OkTrades(turns'[i].actions))
    <2>1. SameTrades(FillsOf(i), OkTrades(actions))
        BY DEF Honest
    <2>2. CASE why = "ok"
        <3> DEFINE f == [turn |-> i, what |-> Head(todo).what]
                   s == FillsOf(i)
                   o == OkTrades(actions)
        <3>1. f \in Fills /\ f.turn = i /\ f.what = a.what
            BY <1>4 DEF Fills, Types
        <3>2. fills \in Seq(Fills) /\ fills' = Append(fills, f)
            BY <2>2 DEF Traded, Filled, NotFilled, Types
        <3> HIDE DEF f
        <3>3. FillsOf(i)' = Append(s, f) /\ s \in Seq(Fills)
            BY <3>1, <3>2, FillsOfAppend, FillsOfTyped
        <3>4. o \in Seq(Actions)
            BY <1>6
        <3> HIDE DEF s, o
        <3>5. /\ Len(Append(s, f)) = Len(s) + 1 /\ Len(Append(o, a)) = Len(o) + 1
              /\ \A k \in 1..(Len(s) + 1) : Append(s, f)[k] = IF k = Len(s) + 1 THEN f ELSE s[k]
              /\ \A k \in 1..(Len(o) + 1) : Append(o, a)[k] = IF k = Len(o) + 1 THEN a ELSE o[k]
              /\ Len(s) \in Nat
            BY <1>1, <3>1, <3>3, <3>4
        <3>6. Len(s) = Len(o) /\ \A k \in 1..Len(s) : s[k].what = o[k].what
            BY <2>1 DEF SameTrades, s, o
        <3>7. \A k \in 1..(Len(s) + 1) : k # Len(s) + 1 => k \in 1..Len(s)
            BY <3>5
        <3>8. SameTrades(Append(s, f), Append(o, a))
            BY <3>1, <3>5, <3>6, <3>7 DEF SameTrades
        <3> QED
            BY <1>5, <2>2, <3>3, <3>8 DEF o
    <2>3. CASE why # "ok"
        <3>1. FillsOf(i)' = FillsOf(i)
            BY <2>3, FillsOfKept DEF Traded, NotFilled
        <3> QED
            BY <1>5, <2>1, <2>3, <3>1
    <2> QED
        BY <2>2, <2>3
<1>8. WithinCap(turns'[i].todo, Len(OkTrades(turns'[i].actions)))
    <2>1. WithinCap(todo, Len(OkTrades(actions)))
        BY DEF Honest
    <2>2. WithinCap(Tail(todo), Len(OkTrades(actions)))
          /\ WithinCap(Tail(todo), Len(OkTrades(actions)) + 1)
        BY <1>3, <1>4, <1>6, <2>1, WithinCapTail
    <2>3. Len(OkTrades(turns'[i].actions)) = IF why = "ok" THEN Len(OkTrades(actions)) + 1
                                             ELSE Len(OkTrades(actions))
        BY <1>1, <1>5, <1>6
    <2> QED
        BY <1>1, <2>2, <2>3
<1>9. Accounted(turns'[i])
    <2>1. Len(actions) + Len(todo) = turns[i].owed
        BY DEF Honest, Accounted, Traded
    <2>2. Len(Append(actions, a)) = Len(actions) + 1 /\ Len(Tail(todo)) = Len(todo) - 1
          /\ Len(actions) \in Nat /\ Len(todo) \in Nat
        BY <1>1, <1>3
    <2>3. Len(turns'[i].actions) + Len(turns'[i].todo) = turns'[i].owed
        <3>1. turns'[i].owed = turns[i].owed
            BY <1>1 DEF KeepsCounts
        <3> HIDE DEF todo, actions
        <3>2. Len(Append(actions, a)) + Len(Tail(todo)) = Len(actions) + Len(todo)
            <4>1. \A m, n \in Nat : (m + 1) + (n - 1) = m + n
                OBVIOUS
            <4> QED
                BY ONLY <2>2, <4>1, Zenon
        <3>3. turns'[i].actions = Append(actions, a) /\ turns'[i].todo = Tail(todo)
            BY <1>1
        <3>4. Len(turns'[i].actions) = Len(Append(actions, a))
            BY <3>3, Zenon
        <3>5. Len(turns'[i].todo) = Len(Tail(todo))
            BY <3>3, Zenon
        <3> QED
            BY ONLY <2>1, <3>1, <3>2, <3>4, <3>5, Zenon
    <2> QED
        BY <1>1, <2>3 DEF Accounted
<1> QED
    BY <1>7, <1>8, <1>9 DEF Honest

LEMMA HonestChange ==
    ASSUME Types, NEW i \in DOMAIN turns, Honest(i), NEW why \in {"ok", "refused"},
           Changed(i, why)
    PROVE  Honest(i)'
<1> DEFINE todo == turns[i].todo
           actions == turns[i].actions
           a == Reported(i, why)
<1>1. /\ KeepsCounts(i) /\ turns'[i].at = "acting" /\ turns'[i].todo = Tail(todo)
      /\ a \in Actions /\ turns'[i].actions = Append(actions, a)
    BY ReportMoves DEF Changed
<1>2. turns[i] \in Turns
    BY DEF Types
<1>3. todo \in Seq(Asked(Kinds)) /\ actions \in Seq(Actions) /\ todo # <<>>
      /\ turns[i].owed \in Nat
    BY <1>2 DEF Turns, Changed
<1>4. ~IsFill(a)
    BY DEF Changed, Reported, IsFill
<1> HIDE DEF a
<1>5. OkTrades(turns'[i].actions) = OkTrades(actions)
    BY <1>1, <1>3, <1>4, OkTradesAppend
<1>6. Len(OkTrades(actions)) \in Nat
    BY <1>3, OkTradesTyped
<1>7. FillsOf(i)' = FillsOf(i)
    BY FillsOfKept DEF Changed
<1>8. WithinCap(Tail(todo), Len(OkTrades(actions)))
    BY <1>3, <1>6, WithinCapTail DEF Honest
<1>9. Accounted(turns'[i])
    <2>1. Len(actions) + Len(todo) = turns[i].owed
        BY DEF Honest, Accounted, Changed
    <2>2. Len(Append(actions, a)) = Len(actions) + 1 /\ Len(Tail(todo)) = Len(todo) - 1
          /\ Len(actions) \in Nat /\ Len(todo) \in Nat
        BY <1>1, <1>3
    <2>3. Len(turns'[i].actions) + Len(turns'[i].todo) = turns'[i].owed
        <3>1. turns'[i].owed = turns[i].owed
            BY <1>1 DEF KeepsCounts
        <3> HIDE DEF todo, actions
        <3>2. Len(Append(actions, a)) + Len(Tail(todo)) = Len(actions) + Len(todo)
            <4>1. \A m, n \in Nat : (m + 1) + (n - 1) = m + n
                OBVIOUS
            <4> QED
                BY ONLY <2>2, <4>1, Zenon
        <3>3. turns'[i].actions = Append(actions, a) /\ turns'[i].todo = Tail(todo)
            BY <1>1
        <3>4. Len(turns'[i].actions) = Len(Append(actions, a))
            BY <3>3, Zenon
        <3>5. Len(turns'[i].todo) = Len(Tail(todo))
            BY <3>3, Zenon
        <3> QED
            BY ONLY <2>1, <3>1, <3>2, <3>4, <3>5, Zenon
    <2> QED
        BY <1>1, <2>3 DEF Accounted
<1> QED
    BY <1>1, <1>5, <1>7, <1>8, <1>9 DEF Honest

LEMMA HonestEnd ==
    ASSUME Types, NEW i \in DOMAIN turns, Honest(i), ActEnd(i)
    PROVE  Honest(i)'
<1> DEFINE actions == turns[i].actions
           more == Rejections(i)
<1>1. /\ KeepsCounts(i) /\ turns'[i].at = "valuing" /\ turns'[i].todo = turns[i].todo
      /\ turns'[i].actions = actions \o more
    BY EndMoves
<1>2. turns[i] \in Turns
    BY DEF Types
<1>3. actions \in Seq(Actions)
    BY <1>2 DEF Turns
<1>4. more \in Seq(Actions) /\ Len(more) = turns[i].rejected /\ \A k \in DOMAIN more : ~IsFill(more[k])
    <2>1. ~IsFill([what |-> "rejected", ticker |-> "", why |-> "schema"])
        BY DEF IsFill
    <2>2. /\ more \in Seq(Actions) /\ Len(more) = turns[i].rejected
          /\ \A k \in DOMAIN more : more[k] = [what |-> "rejected", ticker |-> "", why |-> "schema"]
        BY RejectionsTyped
    <2> QED
        BY <2>1, <2>2
<1> HIDE DEF more
<1>5. OkTrades(turns'[i].actions) = OkTrades(actions)
    BY <1>1, <1>3, <1>4, OkTradesRejections
<1>6. FillsOf(i)' = FillsOf(i)
    BY FillsOfKept DEF ActEnd, account
<1>7. Accounted(turns'[i])
    <2>1. Len(actions) + Len(turns[i].todo) = turns[i].owed /\ turns[i].todo = <<>>
        BY DEF Honest, Accounted, ActEnd
    <2>2. Len(actions \o more) = Len(actions) + turns[i].rejected /\ Len(actions) \in Nat
        BY <1>3, <1>4, ConcatProperties
    <2>3. turns'[i].owed = turns[i].owed /\ turns'[i].rejected = turns[i].rejected
        BY <1>1 DEF KeepsCounts
    <2>4. Len(actions) = turns[i].owed
        BY <2>1, <2>2
    <2> QED
        BY <1>1, <2>2, <2>3, <2>4 DEF Accounted
<1> QED
    BY <1>1, <1>5, <1>6, <1>7 DEF Honest

LEMMA HonestAnswer ==
    ASSUME Types, NEW i \in DOMAIN turns, Honest(i), NEW reply \in Replies, Answer(i, reply)
    PROVE  Honest(i)'
<1>1. /\ turns'[i].at = "acting" /\ turns'[i].actions = turns[i].actions
      /\ turns'[i].todo = Plan(reply) /\ turns'[i].owed = Len(Plan(reply))
    BY AnswerMoves
<1>2. turns[i].actions = <<>>
    BY DEF Honest, Accounted, Answer
<1>3. OkTrades(<<>>) \in Seq(Actions) /\ Len(OkTrades(<<>>)) = 0
    BY NothingDone
<1>4. FillsOf(i)' = FillsOf(i)
    BY FillsOfKept DEF Answer, account
<1>5. WithinCap(Plan(reply), 0)
    <2>1. PICK a \in Nat, b \in Nat : Blocks(Plan(reply), a, b) /\ b - a <= MaxActions
        BY PlanTyped
    <2>2. (b - a) + 0 <= MaxActions
        BY <2>1
    <2> QED
        BY <2>1, <2>2 DEF WithinCap
<1>6. Len(Plan(reply)) \in Nat /\ Len(<<>>) = 0
    BY PlanTyped
<1>7. Accounted(turns'[i])
    BY <1>1, <1>2, <1>6 DEF Accounted
<1> QED
    BY <1>1, <1>2, <1>3, <1>4, <1>5, <1>7 DEF Honest

LEMMA ReportingServer ==
    ASSUME Types, Reporting, NEW i \in DOMAIN turns, ServerStep(i)
    PROVE  Reporting'
<1>1. Others(i) /\ Advances(i)
    BY ServerMoves
<1>2. \A j \in DOMAIN turns : j # i => Honest(j)'
    <2> SUFFICES ASSUME NEW j \in DOMAIN turns, j # i
                 PROVE  Honest(j)'
        OBVIOUS
    <2>1. FillsOf(j)' = FillsOf(j)
        BY <1>1, FillsOfOthers
    <2>2. turns'[j] = turns[j]
        BY <1>1 DEF Others
    <2> QED
        BY <2>1, <2>2 DEF Reporting, Honest
<1>3. Honest(i)
    BY DEF Reporting
<1>4. turns[i] \in Turns /\ turns \in Seq(Turns)
    BY DEF Types
<1>5. turns[i].actions \in Seq(Actions)
    BY <1>4 DEF Turns
<1>6. Honest(i)'
    <2>1. CASE LoadContext(i)
        BY <1>3, <2>1, LoadMoves, HonestKept, FillsOfKept, ZenonT(40)
           DEF LoadContext, account, Honest, Accounted, KeepsWork, KeepsActions, KeepsCounts
    <2>2. CASE Unavailable(i)
        <3>1. KeepsWork(i) /\ turns'[i].at = "unavailable" /\ fills' = fills
            BY <1>4, <2>2, LeaveMoves DEF Unavailable, account, Stages
        <3> QED
            BY <1>3, <3>1, HonestKept, FillsOfKept DEF Accounted
    <2>3. CASE AnswerMalformed(i)
        <3>1. KeepsWork(i) /\ turns'[i].at = "valuing" /\ fills' = fills /\ turns[i].at = "asking"
            BY <1>4, <2>3, LeaveMoves DEF AnswerMalformed, account, Stages
        <3>2. turns[i].actions = <<>> /\ turns[i].owed = 0 /\ turns[i].rejected = 0
            BY <1>3, <3>1 DEF Honest, Accounted
        <3>3. Accounted(turns'[i])
            BY <3>1, <3>2 DEF Accounted, KeepsWork, KeepsActions, KeepsCounts
        <3> QED
            BY <1>3, <3>1, <3>3, HonestKept, FillsOfKept
    <2>4. CASE \E reply \in Replies : Answer(i, reply)
        BY <1>3, <2>4, HonestAnswer
    <2>5. CASE ActTrade(i)
        BY <1>3, <2>5, TradeCases, HonestTrade
    <2>6. CASE ActWatchlist(i)
        BY <1>3, <2>6, ChangeCases, HonestChange
    <2>7. CASE ActEnd(i)
        BY <1>3, <2>7, HonestEnd
    <2>8. CASE Value(i) \/ Persist(i)
        <3>1. /\ KeepsWork(i) /\ turns[i].at \in {"valuing", "persisting"} /\ fills' = fills
              /\ turns'[i].at \in {"persisting", "replied"}
            BY <1>4, <2>8, GotoMoves DEF Value, Persist, account, Stages
        <3>2. Accounted(turns'[i])
            BY <1>3, <3>1 DEF Honest, Accounted, KeepsWork, KeepsActions, KeepsCounts
        <3> QED
            BY <1>3, <3>1, <3>2, HonestKept, FillsOfKept
    <2>9. CASE Raise(i)
        <3>1. KeepsWork(i) /\ turns'[i].at = "error" /\ fills' = fills
            BY <1>4, <2>9, GotoMoves DEF Raise, account, Stages
        <3> QED
            BY <1>3, <3>1, HonestKept, FillsOfKept DEF Accounted
    <2> QED
        BY <2>1, <2>2, <2>3, <2>4, <2>5, <2>6, <2>7, <2>8, <2>9 DEF ServerStep
<1> QED
    BY <1>1, <1>2, <1>6 DEF Reporting, Others

LEMMA ReportingStep ==
    ASSUME Types, Reporting, [Next]_vars
    PROVE  Reporting'
<1>1. ASSUME turns' = turns, fills' = fills
      PROVE  Reporting'
    BY <1>1, FillsOfKept DEF Reporting, Honest
<1>2. CASE Type \/ ReceiveAnswer \/ LoseConnection \/ UNCHANGED vars
    BY <1>1, <1>2 DEF Type, ReceiveAnswer, LoseConnection, vars, account
<1>3. CASE Send
    <2>0. PICK n : n = Len(turns) + 1
        OBVIOUS
    <2>1. /\ DOMAIN turns' = DOMAIN turns \cup {n} /\ n \notin DOMAIN turns
          /\ turns'[n] = Request /\ \A i \in DOMAIN turns : turns'[i] = turns[i]
        BY <1>3, <2>0, SendMoves
    <2>2. fills' = fills
        BY <1>3 DEF Send, account
    <2>3. \A i \in DOMAIN turns : Honest(i)'
        BY <2>1, <2>2, FillsOfKept DEF Reporting, Honest
    <2>4. Honest(n)'
        <3>1. FillsOf(n)' = <<>>
            <4>1. fills \in Seq(Fills) /\ \A k \in DOMAIN fills : fills[k].turn # n
                BY <2>1 DEF Types
            <4>2. FillsOf(n) = <<>>
                BY <4>1, NoFills
            <4> QED
                BY <2>2, <4>2, FillsOfKept
        <3>2. OkTrades(<<>>) \in Seq(Actions) /\ Len(OkTrades(<<>>)) = 0
            BY NothingDone
        <3>3. SameTrades(<<>>, OkTrades(<<>>))
            BY <3>2 DEF SameTrades
        <3>4. WithinCap(<<>>, 0)
            BY LimitsAssumption DEF WithinCap, Blocks
        <3>5. Accounted(Request)
            BY DEF Accounted, Request
        <3>6. Request.actions = <<>> /\ Request.todo = <<>>
            BY DEF Request
        <3> QED
            BY <2>1, <3>1, <3>2, <3>3, <3>4, <3>5, <3>6 DEF Honest
    <2> QED
        BY <2>1, <2>3, <2>4 DEF Reporting
<1>4. CASE \E i \in DOMAIN turns : ServerStep(i)
    BY <1>4, ReportingServer
<1>5. CASE Crash
    <2>1. DOMAIN turns' = DOMAIN turns /\ fills' = fills
        BY <1>5, CrashMoves DEF Crash
    <2>2. \A i \in DOMAIN turns : Honest(i)'
        <3> SUFFICES ASSUME NEW i \in DOMAIN turns
                     PROVE  Honest(i)'
            OBVIOUS
        <3>1. KeepsWork(i) /\ Honest(i) /\ FillsOf(i)' = FillsOf(i)
            BY <1>5, <2>1, CrashMoves, FillsOfKept DEF Reporting
        <3>2. turns'[i] = turns[i] \/ turns'[i].at = "dead"
            BY <1>5, CrashMoves
        <3>3. Accounted(turns'[i])
            BY <3>1, <3>2 DEF Honest, Accounted
        <3> QED
            BY <3>1, <3>3, HonestKept
    <2> QED
        BY <2>1, <2>2 DEF Reporting
<1> QED
    BY <1>2, <1>3, <1>4, <1>5 DEF Next

\* For every cap, every list the model may answer and any interleaving of turns, faults
\* and crashes: a turn's report is its fills, nothing the model asked for is missing from
\* the answer, and no turn trades more than the cap.
THEOREM ReportsAreComplete == Spec => []ReportsWhatItDid
<1>1. Types /\ Reporting => ReportsWhatItDid
    <2> SUFFICES ASSUME Types, NEW i \in DOMAIN turns, Honest(i)
                 PROVE  /\ Len(FillsOf(i)) = Len(OkTrades(turns[i].actions))
                        /\ \A k \in DOMAIN FillsOf(i) :
                              FillsOf(i)[k].what = OkTrades(turns[i].actions)[k].what
                        /\ Len(FillsOf(i)) <= MaxActions
                        /\ \A k \in DOMAIN turns[i].actions :
                              turns[i].actions[k].ticker \in Tickers \cup {""}
                        /\ turns[i].at = "replied" =>
                              Len(turns[i].actions) = turns[i].owed + turns[i].rejected
        BY DEF ReportsWhatItDid, Reporting
    <2>1. FillsOf(i) \in Seq(Fills) /\ turns[i] \in Turns
        BY FillsOfTyped DEF Types
    <2>2. turns[i].actions \in Seq(Actions)
        BY <2>1 DEF Turns
    <2>3. /\ Len(FillsOf(i)) = Len(OkTrades(turns[i].actions))
          /\ \A k \in DOMAIN FillsOf(i) :
                FillsOf(i)[k].what = OkTrades(turns[i].actions)[k].what
        BY <2>1 DEF Honest, SameTrades
    <2>4. Len(FillsOf(i)) <= MaxActions
        <3>1. PICK a \in Nat, b \in Nat : /\ Blocks(turns[i].todo, a, b)
                                          /\ (b - a) + Len(OkTrades(turns[i].actions)) <= MaxActions
            BY DEF Honest, WithinCap
        <3>2. a <= b /\ Len(FillsOf(i)) \in Nat /\ MaxActions \in Nat
            BY <2>1, <3>1, LimitsAssumption DEF Blocks
        <3> QED
            BY <2>3, <3>1, <3>2
    <2>5. \A k \in DOMAIN turns[i].actions : turns[i].actions[k].ticker \in Tickers \cup {""}
        <3>1. \A k \in DOMAIN turns[i].actions : turns[i].actions[k] \in Actions
            BY <2>2
        <3>2. \A a \in Actions : a.ticker \in Tickers \cup {""}
            BY DEF Actions
        <3> QED
            BY <3>1, <3>2
    <2>6. turns[i].at = "replied" => Len(turns[i].actions) = turns[i].owed + turns[i].rejected
        BY DEF Honest, Accounted
    <2> QED
        BY <2>3, <2>4, <2>5, <2>6
<1>2. Types /\ Reporting /\ [Next]_vars => (Types /\ Reporting)'
    BY TypesStep, ReportingStep
<1> QED
    BY <1>1, <1>2, TypesInit, ReportingInit, PTL DEF Spec

-----------------------------------------------------------------------------
(* The stored conversation *)

\* A row belongs to an earlier session, or to a turn that is over.
Settled(row) ==
    row.turn = 0 \/ (row.turn \in DOMAIN turns /\ turns[row.turn].at = "replied")

Truthful(row) == row.role = "assistant" => Len(OkTrades(row.actions)) = Confirmed(row)

\* The entry at k has the role its place calls for, and an answer goes with its question.
InPlace(rows, k) ==
    IF k % 2 = 1 THEN rows[k].role = "user"
    ELSE rows[k].role = "assistant" /\ rows[k].turn = rows[k - 1].turn

RowOK(k) == Settled(transcript[k]) /\ Truthful(transcript[k])

Conversation ==
    /\ Len(transcript) % 2 = 0
    /\ \A k \in DOMAIN transcript : InPlace(transcript, k) /\ RowOK(k)

LEMMA ConversationInit == Init => Conversation
<1> SUFFICES ASSUME Init
             PROVE  Conversation
    OBVIOUS
<1>1. transcript = Earlier
    BY DEF Init
<1>2. ASSUME NEW k \in DOMAIN Earlier
      PROVE  InPlace(Earlier, k) /\ Earlier[k].turn = 0
    <2> DEFINE R == [turn : {0}, role : {"user", "assistant"}, actions : Seq(Actions)]
    <2>1. Earlier \in Seq(R)
        BY EarlierAssumption
    <2> HIDE DEF R
    <2>2. \A n \in DOMAIN Earlier : Earlier[n] \in R
        BY <2>1
    <2>3. \A n \in DOMAIN Earlier : Earlier[n].turn = 0
        BY <2>2 DEF R
    <2>5. k \in 1..Len(Earlier) /\ DOMAIN Earlier = 1..Len(Earlier) /\ Len(Earlier) \in Nat
        BY <2>1
    <2>6. k % 2 # 1 => k - 1 \in DOMAIN Earlier
        BY <2>5
    <2>7. Earlier[k].role = IF k % 2 = 1 THEN "user" ELSE "assistant"
        BY EarlierAssumption
    <2> QED
        BY <2>3, <2>6, <2>7 DEF InPlace
<1> QED
    BY <1>1, <1>2, HistoryAssumption DEF Conversation, RowOK, Settled, Truthful, Confirmed

\* Rows that are settled stay so, and their turns trade no more.
LEMMA RowKept ==
    ASSUME NEW row, Settled(row), Truthful(row), DOMAIN turns \subseteq DOMAIN turns',
           \A i \in DOMAIN turns : turns[i].at = "replied" =>
               turns'[i].at = "replied" /\ FillsOf(i)' = FillsOf(i)
    PROVE  Settled(row)' /\ Truthful(row)'
<1>1. row.turn # 0 => FillsOf(row.turn)' = FillsOf(row.turn)
    BY DEF Settled
<1>2. Confirmed(row)' = Confirmed(row)
    BY <1>1 DEF Confirmed, OkTrades
<1> QED
    BY <1>2 DEF Settled, Truthful

LEMMA RowNow ==
    ASSUME NEW row, NEW k, transcript'[k] = row, Settled(row)', Truthful(row)'
    PROVE  RowOK(k)'
BY DEF RowOK, Settled, Truthful

LEMMA ConversationKept ==
    ASSUME Conversation, transcript' = transcript, DOMAIN turns \subseteq DOMAIN turns',
           \A i \in DOMAIN turns : turns[i].at = "replied" =>
               turns'[i].at = "replied" /\ FillsOf(i)' = FillsOf(i)
    PROVE  Conversation'
<1>1. ASSUME NEW k \in DOMAIN transcript
      PROVE  RowOK(k)'
    <2>1. PICK row : row = transcript[k]
        OBVIOUS
    <2>2. Settled(row) /\ Truthful(row)
        BY <2>1 DEF Conversation, RowOK
    <2>3. Settled(row)' /\ Truthful(row)'
        BY <2>2, RowKept
    <2>4. transcript'[k] = row
        BY <2>1
    <2> QED
        BY <2>3, <2>4, RowNow
<1> QED
    BY <1>1 DEF Conversation, InPlace

LEMMA ConversationPersist ==
    ASSUME Types, Reporting, Conversation, NEW i \in DOMAIN turns, Persist(i)
    PROVE  Conversation'
<1> DEFINE n == Len(transcript)
           t == transcript
           user == Row(i, "user", <<>>)
           assistant == Row(i, "assistant", turns[i].actions)
<1>1. Others(i) /\ turns'[i].at = "replied" /\ fills' = fills /\ turns[i].at = "persisting"
    BY GotoMoves DEF Persist, Types, Stages, account
<1>2. \A j : FillsOf(j)' = FillsOf(j)
    BY <1>1, FillsOfKept
<1>3. CASE transcript' = transcript
    BY <1>1, <1>2, <1>3, ConversationKept DEF Others
<1>4. CASE transcript' = t \o Exchange(i)
    <2>1. t \in Seq(Rows) /\ n \in Nat /\ DOMAIN t = 1..n /\ turns[i] \in Turns
        BY DEF Types
    <2>2. turns[i].actions \in Seq(Actions) /\ <<>> \in Seq(Actions)
        BY <2>1 DEF Turns
    <2>3. user \in Rows /\ assistant \in Rows
        BY <2>2 DEF Row, Rows, Types
    <2>4. Exchange(i) = <<user, assistant>>
        BY DEF Exchange
    <2> HIDE DEF user, assistant
    <2>5. /\ Exchange(i) \in Seq(Rows) /\ Len(Exchange(i)) = 2
          /\ Exchange(i)[1] = user /\ Exchange(i)[2] = assistant
        BY <2>3, <2>4
    <2> HIDE DEF n, t
    <2>6. /\ t \o Exchange(i) \in Seq(Rows) /\ Len(t \o Exchange(i)) = n + 2
          /\ \A k \in 1..(n + 2) : (t \o Exchange(i))[k] = IF k <= n THEN t[k] ELSE Exchange(i)[k - n]
        <3> DEFINE e == Exchange(i)
        <3>1. t \in Seq(Rows) /\ e \in Seq(Rows)
            BY <2>1, <2>5
        <3>2. Len(t) = n /\ Len(e) = 2
            BY <2>5 DEF n, t
        <3> HIDE DEF e
        <3>3. /\ t \o e \in Seq(Rows) /\ Len(t \o e) = Len(t) + Len(e)
              /\ \A k \in 1..(Len(t) + Len(e)) :
                    (t \o e)[k] = IF k <= Len(t) THEN t[k] ELSE e[k - Len(t)]
            BY ONLY <3>1, ConcatProperties
        <3> QED
            BY <3>2, <3>3 DEF e
    <2>7. transcript' \in Seq(Rows) /\ Len(transcript') = n + 2 /\ DOMAIN transcript' = 1..(n + 2)
        BY <1>4, <2>6
    <2>8. \A k \in 1..n : transcript'[k] = t[k] /\ k \in 1..(n + 2)
        BY <1>4, <2>1, <2>6
    <2>9. transcript'[n + 1] = user /\ transcript'[n + 2] = assistant
        <3>1. n + 1 \in 1..(n + 2) /\ n + 2 \in 1..(n + 2) /\ ~(n + 1 <= n) /\ ~(n + 2 <= n)
              /\ (n + 1) - n = 1 /\ (n + 2) - n = 2
            BY <2>1
        <3> QED
            BY <1>4, <2>5, <2>6, <3>1
    <2>10. /\ user.role = "user" /\ assistant.role = "assistant" /\ user.turn = i /\ assistant.turn = i
           /\ assistant.actions = turns[i].actions
        BY DEF user, assistant, Row
    <2>11. n % 2 = 0 /\ (n + 1) % 2 = 1 /\ (n + 2) % 2 = 0 /\ (n + 2) - 1 = n + 1
        BY <2>1 DEF Conversation, n
    <2>12. \A k \in 1..(n + 2) : InPlace(transcript', k)
        <3>1. \A k \in 1..n : InPlace(transcript', k)
            <4> SUFFICES ASSUME NEW k \in 1..n
                         PROVE  InPlace(transcript', k)
                OBVIOUS
            <4>1. InPlace(t, k)
                BY <2>1 DEF Conversation, t
            <4>2. k % 2 # 1 => k - 1 \in 1..n
                BY <2>1
            <4> QED
                BY <2>8, <4>1, <4>2 DEF InPlace
        <3>2. InPlace(transcript', n + 1)
            BY <2>9, <2>10, <2>11 DEF InPlace
        <3>3. InPlace(transcript', n + 2)
            BY <2>9, <2>10, <2>11 DEF InPlace
        <3>4. \A k \in 1..(n + 2) : k \in 1..n \/ k = n + 1 \/ k = n + 2
            BY <2>1
        <3> QED
            BY <3>1, <3>2, <3>3, <3>4
    <2>13. ASSUME NEW k \in 1..(n + 2)
           PROVE  RowOK(k)'
        <3>1. CASE k \in 1..n
            <4>1. PICK row : row = t[k]
                OBVIOUS
            <4>2. Settled(row) /\ Truthful(row)
                BY <2>1, <3>1, <4>1 DEF Conversation, RowOK, t
            <4>3. Settled(row)' /\ Truthful(row)'
                BY <1>1, <1>2, <4>2, RowKept DEF Others
            <4>4. transcript'[k] = row
                BY <2>8, <3>1, <4>1
            <4> QED
                BY <4>3, <4>4, RowNow
        <3>2. CASE k = n + 1
            <4>1. PICK row : row = user
                OBVIOUS
            <4>2. Settled(row)' /\ Truthful(row)'
                BY <1>1, <2>10, <4>1 DEF Settled, Truthful, Others
            <4>3. transcript'[k] = row
                BY <2>9, <3>2, <4>1
            <4> QED
                BY <4>2, <4>3, RowNow
        <3>3. CASE k = n + 2
            <4>1. PICK row : row = assistant
                OBVIOUS
            <4>2. Settled(row)'
                BY <1>1, <2>10, <4>1 DEF Settled, Others
            <4>3. Len(OkTrades(turns[i].actions)) = Len(FillsOf(i))
                BY DEF Reporting, Honest, SameTrades
            <4>4. Truthful(row)'
                <5>1. i # 0 /\ row.turn = i /\ row.actions = turns[i].actions
                    BY <2>10, <4>1 DEF Types
                <5>2. Confirmed(row)' = Len(FillsOf(i))
                    BY <1>2, <5>1 DEF Confirmed
                <5> QED
                    BY <4>3, <5>1, <5>2 DEF Truthful
            <4>5. transcript'[k] = row
                BY <2>9, <3>3, <4>1
            <4> QED
                BY <4>2, <4>4, <4>5, RowNow
        <3>4. k \in 1..n \/ k = n + 1 \/ k = n + 2
            BY <2>1
        <3> QED
            BY <3>1, <3>2, <3>3, <3>4
    <2> QED
        BY <2>7, <2>11, <2>12, <2>13 DEF Conversation
<1> QED
    BY <1>3, <1>4 DEF Persist

LEMMA ConversationStep ==
    ASSUME Types, Reporting, Conversation, [Next]_vars
    PROVE  Conversation'
<1>1. ASSUME turns' = turns, fills' = fills, transcript' = transcript
      PROVE  Conversation'
    BY <1>1, ConversationKept, FillsOfKept
<1>2. CASE Type \/ ReceiveAnswer \/ LoseConnection \/ UNCHANGED vars
    BY <1>1, <1>2 DEF Type, ReceiveAnswer, LoseConnection, vars, account
<1>3. CASE Send
    BY <1>3, SendMoves, ConversationKept, FillsOfKept DEF Send, account
<1>4. ASSUME NEW i \in DOMAIN turns, ServerStep(i)
      PROVE  Conversation'
    <2>1. CASE Persist(i)
        BY <2>1, ConversationPersist
    <2>2. CASE ~Persist(i)
        <3>1. transcript' = transcript
            <4>1. ASSUME ActTrade(i)
                  PROVE  transcript' = transcript
                BY <4>1 DEF ActTrade
            <4> QED
                BY <1>4, <2>2, <4>1 DEF ServerStep, LoadContext, Unavailable, AnswerMalformed, Answer,
                   ActWatchlist, ActEnd, Value, Raise
        <3>2. Others(i) /\ Advances(i)
            BY <1>4, ServerMoves
        <3>3. \A j \in DOMAIN turns : turns[j].at = "replied" => j # i
            BY <3>2 DEF Advances
        <3>4. \A j : j # i => FillsOf(j)' = FillsOf(j)
            BY <3>2, FillsOfOthers
        <3>6. \A j \in DOMAIN turns : turns[j].at = "replied" =>
                  turns'[j].at = "replied" /\ FillsOf(j)' = FillsOf(j)
            BY <3>2, <3>3, <3>4 DEF Others
        <3> QED
            BY <3>1, <3>2, <3>6, ConversationKept DEF Others
    <2> QED
        BY <2>1, <2>2
<1>5. CASE Crash
    <2>1. transcript' = transcript /\ fills' = fills /\ DOMAIN turns' = DOMAIN turns
        BY <1>5, CrashMoves DEF Crash
    <2>2. \A i \in DOMAIN turns : turns[i].at = "replied" => turns'[i].at = "replied"
        BY <1>5, CrashMoves DEF Active
    <2> QED
        BY <2>1, <2>2, FillsOfKept, ConversationKept
<1> QED
    BY <1>2, <1>3, <1>4, <1>5 DEF Next

\* For conversations of any length, across crashes, failing statements and overlapping
\* turns: whole exchanges only, and what a turn's answer confirms is in the ledger.
THEOREM ConversationIsTrue == Spec => []TranscriptMatchesLedger
<1>1. Conversation => TranscriptMatchesLedger
    BY DEF Conversation, RowOK, InPlace, Truthful, Confirmed, TranscriptMatchesLedger
<1>2. Types /\ Reporting /\ Conversation /\ [Next]_vars => (Types /\ Reporting /\ Conversation)'
    BY TypesStep, ReportingStep, ConversationStep
<1> QED
    BY <1>1, <1>2, TypesInit, ReportingInit, ConversationInit, PTL DEF Spec

-----------------------------------------------------------------------------
(* The prompt *)

\* What a prompt under way replays: the last rows of the conversation it was made from,
\* which later turns only add to.
FromTranscript(i) ==
    LET n == Len(turns[i].history)
        m == turns[i].stored
    IN  /\ n \in {m, MaxHistory} /\ n <= m /\ n % 2 = 0 /\ m % 2 = 0 /\ m <= Len(transcript)
        /\ \A k \in 1..n : turns[i].history[k] = Replayed(transcript[m - n + k])

Prompts == \A i \in DOMAIN turns : turns[i].at = "asking" => FromTranscript(i)

LEMMA Window ==
    ASSUME NEW n \in Nat, NEW m \in Nat, NEW l \in Nat, n <= m, m <= l, NEW k \in 1..n
    PROVE  m - n + k \in 1..l
OBVIOUS

LEMMA SameParity ==
    ASSUME NEW n \in Nat, NEW m \in Nat, n % 2 = 0, m % 2 = 0, NEW k \in Int
    PROVE  (m - n + k) % 2 = k % 2
<1>1. PICK a \in Int : n = 2 * a
    <2>1. n = 2 * (n \div 2) + (n % 2) /\ n \div 2 \in Int
        OBVIOUS
    <2>2. n = 2 * (n \div 2)
        BY <2>1
    <2> QED
        BY <2>1, <2>2
<1>2. PICK b \in Int : m = 2 * b
    <2>1. m = 2 * (m \div 2) + (m % 2) /\ m \div 2 \in Int
        OBVIOUS
    <2>2. m = 2 * (m \div 2)
        BY <2>1
    <2> QED
        BY <2>1, <2>2
<1>3. (2 * b - 2 * a + k) % 2 = k % 2
    OBVIOUS
<1> QED
    BY <1>1, <1>2, <1>3

LEMMA PromptKept ==
    ASSUME Types, NEW i \in DOMAIN turns, FromTranscript(i), turns'[i] = turns[i],
           Len(transcript) \in Nat, Len(transcript') \in Nat, Len(transcript) <= Len(transcript'),
           \A k \in 1..Len(transcript) : transcript'[k] = transcript[k]
    PROVE  FromTranscript(i)'
<1> DEFINE n == Len(turns[i].history)
           m == turns[i].stored
<1>1. turns[i] \in Turns
    BY DEF Types
<1>2. turns[i].history \in Seq(Replays) /\ m \in Nat
    BY <1>1 DEF Turns
<1>3. n \in Nat /\ n \in {m, MaxHistory} /\ n <= m /\ n % 2 = 0 /\ m % 2 = 0 /\ m <= Len(transcript)
      /\ \A k \in 1..n : turns[i].history[k] = Replayed(transcript[m - n + k])
    <2>1. n \in Nat
        BY <1>2
    <2>2. n \in {m, MaxHistory} /\ n <= m /\ n % 2 = 0 /\ m % 2 = 0 /\ m <= Len(transcript)
          /\ \A k \in 1..n : turns[i].history[k] = Replayed(transcript[m - n + k])
        BY DEF FromTranscript
    <2> QED
        BY <2>1, <2>2
<1>4. n = Len(turns'[i].history) /\ m = turns'[i].stored /\ turns'[i].history = turns[i].history
    OBVIOUS
<1> HIDE DEF n, m
<1>5. \A k \in 1..n : m - n + k \in 1..Len(transcript)
    BY <1>2, <1>3, Window
<1>6. \A k \in 1..n : turns'[i].history[k] = Replayed(transcript'[m - n + k])
    BY <1>3, <1>4, <1>5
<1>7. m <= Len(transcript')
    BY <1>2, <1>3
<1> QED
    BY <1>3, <1>4, <1>6, <1>7 DEF FromTranscript

LEMMA PromptLoaded ==
    ASSUME Types, Conversation, NEW i \in DOMAIN turns, LoadContext(i)
    PROVE  FromTranscript(i)'
<1> DEFINE rows == Newest(transcript)
           n == Len(rows)
           m == Len(transcript)
<1>1. /\ turns'[i].stored = m /\ turns'[i].history = [k \in DOMAIN rows |-> Replayed(rows[k])]
      /\ transcript' = transcript
    BY LoadMoves DEF LoadContext
<1>2. /\ rows \in Seq(Rows) /\ n = (IF m > MaxHistory THEN MaxHistory ELSE m)
      /\ \A k \in 1..n : m - n + k \in 1..m /\ rows[k] = transcript[m - n + k]
    BY NewestTyped DEF Types
<1>3. m \in Nat /\ m % 2 = 0 /\ MaxHistory \in Nat /\ MaxHistory % 2 = 0
    BY HistoryAssumption DEF Conversation, Types
<1> DEFINE h == [k \in DOMAIN rows |-> Replayed(rows[k])]
<1>4. n \in Nat /\ DOMAIN rows = 1..n
    BY <1>2
<1> HIDE DEF rows, m
<1>5. Len(h) = n /\ \A k \in 1..n : h[k] = Replayed(rows[k])
    <2> HIDE DEF n
    <2>1. h \in [1..n -> {Replayed(rows[k]) : k \in 1..n}]
        BY <1>4
    <2>2. h \in Seq({Replayed(rows[k]) : k \in 1..n}) /\ Len(h) = n
        BY <1>4, <2>1, SeqDef
    <2> QED
        BY <1>4, <2>2
<1> HIDE DEF n, h
<1>6. n \in {m, MaxHistory} /\ n <= m /\ n % 2 = 0
    BY <1>2, <1>3 DEF n
<1>7. \A k \in 1..n : h[k] = Replayed(transcript[m - n + k])
    BY <1>2, <1>5 DEF n
<1>8. turns'[i].history = h /\ turns'[i].stored = m /\ Len(transcript') = m
    BY <1>1 DEF h, m
<1>9. /\ Len(turns'[i].history) = n /\ m <= Len(transcript')
      /\ \A k \in 1..n : turns'[i].history[k] = Replayed(transcript'[m - n + k])
    BY <1>1, <1>3, <1>5, <1>7, <1>8
<1> QED
    BY <1>3, <1>6, <1>8, <1>9 DEF FromTranscript

LEMMA PromptsInit == Init => Prompts
<1>1. DOMAIN <<>> = {}
    OBVIOUS
<1> QED
    BY <1>1 DEF Init, Prompts

\* The transcript only grows.
LEMMA TranscriptGrows ==
    ASSUME Types, [Next]_vars
    PROVE  /\ Len(transcript) \in Nat /\ Len(transcript') \in Nat
           /\ Len(transcript) <= Len(transcript')
           /\ \A k \in 1..Len(transcript) : transcript'[k] = transcript[k]
<1>1. transcript \in Seq(Rows) /\ transcript' \in Seq(Rows)
    BY TypesStep DEF Types
<1>2. CASE transcript' = transcript
    BY <1>1, <1>2
<1>3. ASSUME NEW i \in DOMAIN turns, transcript' = transcript \o Exchange(i)
      PROVE  /\ Len(transcript) \in Nat /\ Len(transcript') \in Nat
             /\ Len(transcript) <= Len(transcript')
             /\ \A k \in 1..Len(transcript) : transcript'[k] = transcript[k]
    <2> DEFINE t == transcript
               e == Exchange(i)
    <2>1. turns[i] \in Turns /\ i \in Nat
        BY DEF Types
    <2>2. turns[i].actions \in Seq(Actions) /\ <<>> \in Seq(Actions)
        BY <2>1 DEF Turns
    <2>3. Row(i, "user", <<>>) \in Rows /\ Row(i, "assistant", turns[i].actions) \in Rows
        BY <2>1, <2>2 DEF Row, Rows
    <2>4. e \in Seq(Rows) /\ t \in Seq(Rows)
        BY <1>1, <2>3 DEF Exchange
    <2>5. transcript' = t \o e
        BY <1>3
    <2> HIDE DEF e, t
    <2>6. /\ Len(t \o e) = Len(t) + Len(e)
          /\ \A k \in 1..(Len(t) + Len(e)) : (t \o e)[k] = IF k <= Len(t) THEN t[k] ELSE e[k - Len(t)]
        BY ONLY <2>4, ConcatProperties
    <2>7. Len(t) \in Nat /\ Len(e) \in Nat
        BY <2>4
    <2>8. \A k \in 1..Len(t) : k \in 1..(Len(t) + Len(e)) /\ k <= Len(t)
        BY <2>7
    <2> QED
        BY <2>5, <2>6, <2>7, <2>8 DEF t
<1>4. transcript' = transcript \/ \E i \in DOMAIN turns : transcript' = transcript \o Exchange(i)
    <2>1. ASSUME NEW i \in DOMAIN turns, ServerStep(i)
          PROVE  transcript' = transcript \/ transcript' = transcript \o Exchange(i)
        <3>1. CASE ActTrade(i)
            BY <3>1 DEF ActTrade
        <3>2. CASE ~ActTrade(i)
            BY <2>1, <3>2 DEF ServerStep, LoadContext, Unavailable, AnswerMalformed, Answer,
                   ActWatchlist, ActEnd, Value, Persist, Raise
        <3> QED
            BY <3>1, <3>2
    <2> QED
        BY <2>1 DEF Next, Type, Send, ReceiveAnswer, LoseConnection, Crash, vars
<1> QED
    BY <1>2, <1>3, <1>4

LEMMA PromptsStep ==
    ASSUME Types, Conversation, Prompts, [Next]_vars
    PROVE  Prompts'
<1>1. /\ Len(transcript) \in Nat /\ Len(transcript') \in Nat
      /\ Len(transcript) <= Len(transcript')
      /\ \A k \in 1..Len(transcript) : transcript'[k] = transcript[k]
    BY TranscriptGrows
<1>2. ASSUME NEW i \in DOMAIN turns, turns'[i] = turns[i], turns'[i].at = "asking"
      PROVE  FromTranscript(i)'
    <2>1. FromTranscript(i)
        BY <1>2 DEF Prompts
    <2> QED
        BY <1>1, <1>2, <2>1, PromptKept
<1>3. CASE Type \/ ReceiveAnswer \/ LoseConnection \/ UNCHANGED vars
    <2>1. turns' = turns
        BY <1>3 DEF Type, ReceiveAnswer, LoseConnection, vars
    <2> QED
        BY <1>2, <2>1 DEF Prompts
<1>4. CASE Send
    <2>1. PICK n : n = Len(turns) + 1
        OBVIOUS
    <2>2. /\ DOMAIN turns' = DOMAIN turns \cup {n} /\ turns'[n].at # "asking"
          /\ \A i \in DOMAIN turns : turns'[i] = turns[i]
        BY <1>4, <2>1, SendMoves DEF Request
    <2> QED
        BY <1>2, <2>2 DEF Prompts
<1>5. ASSUME NEW i \in DOMAIN turns, ServerStep(i)
      PROVE  Prompts'
    <2>1. Others(i)
        BY <1>5, ServerMoves
    <2>2. turns'[i].at = "asking" => LoadContext(i)
        <3>0. turns \in Seq(Turns)
            BY DEF Types
        <3>1. CASE Unavailable(i) \/ AnswerMalformed(i)
            BY <3>0, <3>1, LeaveMoves DEF Unavailable, AnswerMalformed, Stages
        <3>2. CASE \E reply \in Replies : Answer(i, reply)
            BY <3>2, AnswerMoves
        <3>3. CASE ActTrade(i)
            BY <3>3, TradeCases, ReportMoves DEF Traded
        <3>4. CASE ActWatchlist(i)
            BY <3>4, ChangeCases, ReportMoves DEF Changed
        <3>5. CASE ActEnd(i)
            BY <3>5, EndMoves
        <3>6. CASE Value(i) \/ Persist(i) \/ Raise(i)
            BY <3>0, <3>6, GotoMoves DEF Value, Persist, Raise, Stages
        <3> QED
            BY <1>5, <3>1, <3>2, <3>3, <3>4, <3>5, <3>6 DEF ServerStep
    <2>3. turns'[i].at = "asking" => FromTranscript(i)'
        BY <2>2, PromptLoaded
    <2> QED
        BY <1>2, <2>1, <2>3 DEF Others, Prompts
<1>6. CASE Crash
    <2>1. DOMAIN turns' = DOMAIN turns
        BY <1>6, CrashMoves
    <2>2. \A i \in DOMAIN turns : turns'[i].at # "asking"
        BY <1>6, CrashMoves DEF Active
    <2> QED
        BY <2>1, <2>2 DEF Prompts
<1> QED
    BY <1>3, <1>4, <1>5, <1>6 DEF Next

\* The replay of a truthful row marks as done as many trades as it may claim.
LEMMA ReplayCounts ==
    ASSUME NEW row \in Rows, Truthful(row), row.role = "assistant"
    PROVE  Cardinality({n \in DOMAIN Replayed(row).outcomes :
                            /\ Replayed(row).outcomes[n].done
                            /\ Replayed(row).outcomes[n].what \in {"buy", "sell"}})
               = Confirmed(row)
<1> DEFINE actions == row.actions
           o == Replayed(row).outcomes
           D == {k \in DOMAIN actions : IsFill(actions[k])}
           E == {n \in DOMAIN o : o[n].done /\ o[n].what \in {"buy", "sell"}}
<1>1. actions \in Seq(Actions)
    BY DEF Rows
<1>2. /\ DOMAIN o = DOMAIN actions
      /\ \A k \in DOMAIN actions : o[k].what = actions[k].what /\ o[k].done = (actions[k].why = "ok")
    BY DEF Replayed
<1>3. E = D
    BY <1>2 DEF IsFill
<1>4. OkTrades(actions) = Picked(actions, D) /\ D \cap (1..Len(actions)) = D
    BY <1>1 DEF OkTrades
<1> HIDE DEF D, E
<1>5. Len(Picked(actions, D)) = Cardinality(D)
    BY <1>1, <1>4, PickedTyped
<1>6. Cardinality(E) = Confirmed(row)
    BY <1>3, <1>4, <1>5 DEF Truthful
<1> QED
    BY <1>6 DEF E

\* For every limit on the history: a prompt replays the newest whole exchanges stored
\* when it was made, whatever is stored meanwhile, and marks as done what was filled.
THEOREM PromptsAreTrue == Spec => []PromptTellsTheTruth
<1>1. Types /\ Conversation /\ Prompts => PromptTellsTheTruth
    <2> SUFFICES ASSUME Types, Conversation, NEW i \in DOMAIN turns, FromTranscript(i)
                 PROVE  LET replayed == turns[i].history
                            first    == turns[i].stored - Len(replayed)
                        IN  /\ Len(replayed) \in {turns[i].stored, MaxHistory}
                            /\ \A k \in DOMAIN replayed :
                                  /\ replayed[k].turn = transcript[first + k].turn
                                  /\ replayed[k].role = IF k % 2 = 1 THEN "user" ELSE "assistant"
                                  /\ replayed[k].role = "assistant" =>
                                        Cardinality({n \in DOMAIN replayed[k].outcomes :
                                                        /\ replayed[k].outcomes[n].done
                                                        /\ replayed[k].outcomes[n].what
                                                               \in {"buy", "sell"}})
                                            = Confirmed(transcript[first + k])
        BY DEF Prompts, PromptTellsTheTruth
    <2> DEFINE h == turns[i].history
               n == Len(h)
               m == turns[i].stored
    <2>1. turns[i] \in Turns /\ transcript \in Seq(Rows)
        BY DEF Types
    <2>2. h \in Seq(Replays) /\ m \in Nat
        BY <2>1 DEF Turns
    <2>3. n \in Nat /\ DOMAIN h = 1..n /\ Len(transcript) \in Nat /\ DOMAIN transcript = 1..Len(transcript)
        BY <2>1, <2>2
    <2>4. n \in {m, MaxHistory} /\ n <= m /\ n % 2 = 0 /\ m % 2 = 0 /\ m <= Len(transcript)
          /\ \A k \in 1..n : h[k] = Replayed(transcript[m - n + k])
        BY DEF FromTranscript
    <2> HIDE DEF h, n, m
    <2>5. ASSUME NEW k \in 1..n
          PROVE  /\ h[k].turn = transcript[m - n + k].turn
                 /\ h[k].role = IF k % 2 = 1 THEN "user" ELSE "assistant"
                 /\ h[k].role = "assistant" =>
                       Cardinality({x \in DOMAIN h[k].outcomes :
                                       /\ h[k].outcomes[x].done
                                       /\ h[k].outcomes[x].what \in {"buy", "sell"}})
                           = Confirmed(transcript[m - n + k])
        <3> DEFINE p == m - n + k
        <3>1. p \in 1..Len(transcript) /\ p % 2 = k % 2
            <4>1. m - n + k \in 1..Len(transcript)
                BY <2>2, <2>3, <2>4, Window
            <4>2. k \in Int
                BY <2>3
            <4>3. (m - n + k) % 2 = k % 2
                BY <2>2, <2>3, <2>4, <4>2, SameParity
            <4> QED
                BY <4>1, <4>3
        <3>2. PICK row : row = transcript[p]
            OBVIOUS
        <3>3. row \in Rows /\ InPlace(transcript, p) /\ Truthful(row)
            BY <2>1, <2>3, <3>1, <3>2 DEF Conversation, RowOK
        <3>4. h[k] = Replayed(row)
            BY <2>4, <3>2
        <3>5. h[k].turn = row.turn /\ h[k].role = row.role
            BY <3>4 DEF Replayed
        <3>6. row.role = IF k % 2 = 1 THEN "user" ELSE "assistant"
            <4> HIDE DEF p
            <4> QED
                BY <3>1, <3>2, <3>3 DEF InPlace
        <3>7. row.role = "assistant" =>
                  Cardinality({x \in DOMAIN h[k].outcomes :
                                  /\ h[k].outcomes[x].done
                                  /\ h[k].outcomes[x].what \in {"buy", "sell"}})
                      = Confirmed(row)
            BY <3>3, <3>4, ReplayCounts
        <3> QED
            BY <3>2, <3>5, <3>6, <3>7
    <2> QED
        BY <2>3, <2>4, <2>5 DEF h, n, m
<1>2. Types /\ Reporting /\ Conversation /\ Prompts /\ [Next]_vars
          => (Types /\ Reporting /\ Conversation /\ Prompts)'
    BY TypesStep, ReportingStep, ConversationStep, PromptsStep
<1> QED
    BY <1>1, <1>2, TypesInit, ReportingInit, ConversationInit, PromptsInit, PTL DEF Spec

-----------------------------------------------------------------------------
(* The prices of a turn's own trades *)

AddedBy(actions) ==
    {actions[k].ticker : k \in {j \in DOMAIN actions : actions[j].what = "add" /\ actions[j].why = "ok"}}
UnpricedIn(actions) ==
    {actions[k].ticker : k \in {j \in DOMAIN actions : actions[j].why = "unpriced"}}

\* A turn that has its additions before it, and one that is at its trades.
Adding(turn) ==
    \/ turn.at \in {"loading", "asking"}
    \/ turn.at = "acting" /\ turn.todo # <<>> /\ Head(turn.todo).what = "add"
Trading(turn) ==
    turn.at = "acting" /\ turn.todo # <<>> /\ Head(turn.todo).what \in {"buy", "sell"}

\* What the turn counts on: as long as it adds, that its tickers are watched or held, so
\* that no reconcile drops them, and then, with no reconcile to come, that they are streamed.
Needs(turn) == turn.tracked \cup AddedBy(turn.actions)
Supplied(i) ==
    /\ Adding(turns[i]) => Needs(turns[i]) \subseteq Tracked(watch) /\ UnpricedIn(turns[i].actions) = {}
    /\ Trading(turns[i]) => Needs(turns[i]) \subseteq streamed
    /\ UnpricedIn(turns[i].actions) \cap Needs(turns[i]) = {}

HeldIsStreamed == Tracked(watch) \subseteq streamed
Alone ==
    \A i, j \in DOMAIN turns : i # j /\ Active(i) /\ Active(j) => i \in overlapped /\ j \in overlapped
Supply == HeldIsStreamed /\ Alone /\ \A i \in DOMAIN turns : i \notin overlapped => Supplied(i)

LEMMA SupplyInit == Init => Supply
<1> SUFFICES ASSUME Init
             PROVE  Supply
    OBVIOUS
<1>1. DOMAIN turns = {}
    BY DEF Init
<1>2. Tracked(watch) \subseteq streamed
    BY DEF Init, Tracked
<1> QED
    BY <1>1, <1>2 DEF Supply, HeldIsStreamed, Alone

LEMMA AppendTickers ==
    ASSUME NEW actions \in Seq(Actions), NEW a \in Actions
    PROVE  /\ AddedBy(Append(actions, a)) =
                  AddedBy(actions) \cup (IF a.what = "add" /\ a.why = "ok" THEN {a.ticker} ELSE {})
           /\ UnpricedIn(Append(actions, a)) =
                  UnpricedIn(actions) \cup (IF a.why = "unpriced" THEN {a.ticker} ELSE {})
<1> DEFINE z == Append(actions, a)
           n == Len(actions)
<1>1. /\ n \in Nat /\ DOMAIN actions = 1..n /\ DOMAIN z = 1..(n + 1) /\ z[n + 1] = a
      /\ \A k \in 1..n : z[k] = actions[k]
    OBVIOUS
<1> HIDE DEF z, n
<1>2. \A k : k \in 1..(n + 1) <=> (k \in 1..n \/ k = n + 1)
    BY <1>1
<1>3. n + 1 \notin 1..n
    BY <1>1
<1>4. AddedBy(z) = AddedBy(actions) \cup (IF a.what = "add" /\ a.why = "ok" THEN {a.ticker} ELSE {})
    BY <1>1, <1>2, <1>3 DEF AddedBy
<1>5. UnpricedIn(z) = UnpricedIn(actions) \cup (IF a.why = "unpriced" THEN {a.ticker} ELSE {})
    BY <1>1, <1>2, <1>3 DEF UnpricedIn
<1> QED
    BY <1>4, <1>5 DEF z

LEMMA RejectionTickers ==
    ASSUME NEW actions \in Seq(Actions), NEW more \in Seq(Actions),
           \A k \in DOMAIN more : more[k].what = "rejected" /\ more[k].why = "schema"
    PROVE  /\ AddedBy(actions \o more) = AddedBy(actions)
           /\ UnpricedIn(actions \o more) = UnpricedIn(actions)
<1> DEFINE z == actions \o more
           n == Len(actions)
           m == Len(more)
<1>1. /\ z \in Seq(Actions) /\ Len(z) = n + m
      /\ \A k \in 1..(n + m) : z[k] = IF k <= n THEN actions[k] ELSE more[k - n]
    BY ConcatProperties
<1>2. n \in Nat /\ m \in Nat /\ DOMAIN actions = 1..n /\ DOMAIN more = 1..m
    OBVIOUS
<1> HIDE DEF z, n, m
<1>3. DOMAIN z = 1..(n + m)
    BY <1>1
<1>4. \A k \in 1..n : k \in 1..(n + m) /\ z[k] = actions[k]
    BY <1>1, <1>2
<1>5. \A k \in 1..(n + m) : k \in 1..n \/ (z[k].what = "rejected" /\ z[k].why = "schema")
    <2> SUFFICES ASSUME NEW k \in 1..(n + m), k \notin 1..n
                 PROVE  z[k].what = "rejected" /\ z[k].why = "schema"
        OBVIOUS
    <2>1. ~(k <= n) /\ k - n \in 1..m
        BY <1>2
    <2> QED
        BY <1>1, <1>2, <2>1
<1>6. AddedBy(z) = AddedBy(actions)
    BY <1>2, <1>3, <1>4, <1>5 DEF AddedBy
<1>7. UnpricedIn(z) = UnpricedIn(actions)
    BY <1>2, <1>3, <1>4, <1>5 DEF UnpricedIn
<1> QED
    BY <1>6, <1>7 DEF z

\* Additions come first, then the trades.
LEMMA NextKind ==
    ASSUME NEW todo \in Seq(Asked(Kinds)), NEW done, WithinCap(todo, done), todo # <<>>,
           Tail(todo) # <<>>
    PROVE  /\ Head(Tail(todo)).what = "add" => Head(todo).what = "add"
           /\ Head(Tail(todo)).what \in {"buy", "sell"} => Head(todo).what \in {"add", "buy", "sell"}
<1>1. PICK a \in Nat, b \in Nat : Blocks(todo, a, b)
    BY DEF WithinCap
<1> DEFINE c == IF a > 0 THEN a - 1 ELSE 0
           d == IF b > 0 THEN b - 1 ELSE 0
           t == Tail(todo)
<1>2. /\ Blocks(t, c, d)
      /\ Head(todo).what = "add" <=> a > 0
      /\ Head(todo).what \in {"buy", "sell"} <=> (a = 0 /\ b > 0)
    BY <1>1, BlocksTail
<1>3. t \in Seq(Asked(Kinds)) /\ t # <<>>
    OBVIOUS
<1>4. (c > 0 => a > 0) /\ (d > 0 => b > 0)
    OBVIOUS
<1> HIDE DEF c, d, t
<1>5. /\ Head(t).what = "add" <=> c > 0
      /\ Head(t).what \in {"buy", "sell"} <=> (c = 0 /\ d > 0)
    BY <1>2, <1>3, BlocksTail
<1> QED
    BY <1>1, <1>2, <1>4, <1>5 DEF t

\* A turn that is over, or does nothing with the account now.
LEMMA SuppliedIdle ==
    ASSUME NEW i, Supplied(i), turns'[i].actions = turns[i].actions,
           turns'[i].tracked = turns[i].tracked,
           ~Adding(turns'[i]) /\ ~Trading(turns'[i])
    PROVE  Supplied(i)'
BY DEF Supplied, Needs

LEMMA SuppliedTrade ==
    ASSUME Types, Reporting, NEW i \in DOMAIN turns, Supplied(i),
           NEW why \in {"ok", "refused", "unpriced"}, Traded(i, why)
    PROVE  Supplied(i)'
<1> DEFINE todo == turns[i].todo
           actions == turns[i].actions
           a == Reported(i, why)
<1>1. /\ turns'[i].at = "acting" /\ turns'[i].todo = Tail(todo) /\ a \in Actions
      /\ turns'[i].actions = Append(actions, a) /\ turns'[i].tracked = turns[i].tracked
    BY ReportMoves DEF Traded, KeepsRequest
<1>2. turns[i] \in Turns
    BY DEF Types
<1>3. todo \in Seq(Asked(Kinds)) /\ actions \in Seq(Actions) /\ todo # <<>>
    BY <1>2 DEF Turns, Traded
<1>4. Trading(turns[i]) /\ Head(todo).what \in {"buy", "sell"} /\ Head(todo).what # "add"
    BY DEF Traded, Trading
<1>5. Needs(turns[i]) \subseteq streamed
    BY <1>4 DEF Supplied
<1>6. /\ a.what # "add" /\ a.why = why
      /\ a.why = "unpriced" => a.ticker \notin streamed
    BY <1>4 DEF Traded, NotFilled, Reported
<1> HIDE DEF a
<1>7. Needs(turns'[i]) = Needs(turns[i])
    BY <1>1, <1>3, <1>6, AppendTickers DEF Needs
<1>8. UnpricedIn(turns'[i].actions) \subseteq
          UnpricedIn(actions) \cup (IF a.why = "unpriced" THEN {a.ticker} ELSE {})
    BY <1>1, <1>3, AppendTickers
<1>9. UnpricedIn(turns'[i].actions) \cap Needs(turns'[i]) = {}
    BY <1>5, <1>6, <1>7, <1>8 DEF Supplied
<1>10. ~Adding(turns'[i])
    <2>1. WithinCap(todo, Len(OkTrades(actions)))
        BY DEF Reporting, Honest
    <2>2. Tail(todo) # <<>> => Head(Tail(todo)).what # "add"
        BY <1>3, <1>4, <2>1, NextKind
    <2> QED
        BY <1>1, <2>2 DEF Adding
<1>11. streamed' = streamed
    BY DEF Traded
<1> QED
    BY <1>5, <1>7, <1>9, <1>10, <1>11 DEF Supplied

LEMMA SuppliedChange ==
    ASSUME Types, Reporting, Supply, NEW i \in DOMAIN turns, Supplied(i),
           NEW why \in {"ok", "refused"}, Changed(i, why)
    PROVE  Supplied(i)'
<1> DEFINE todo == turns[i].todo
           actions == turns[i].actions
           a == Reported(i, why)
           t == Canonical[Head(todo).symbol]
<1>1. /\ turns'[i].at = "acting" /\ turns'[i].todo = Tail(todo) /\ a \in Actions
      /\ turns'[i].actions = Append(actions, a) /\ turns'[i].tracked = turns[i].tracked
    BY ReportMoves DEF Changed, KeepsRequest
<1>2. turns[i] \in Turns
    BY DEF Types
<1>3. todo \in Seq(Asked(Kinds)) /\ actions \in Seq(Actions) /\ todo # <<>>
    BY <1>2 DEF Turns, Changed
<1>4. a.what = Head(todo).what /\ a.why = why /\ a.ticker = t /\ why # "unpriced"
    BY DEF Reported
<1>5. Head(todo).what \in {"add", "remove"} /\ turns[i].at = "acting" /\ shares' = shares
    BY DEF Changed
<1>6. WithinCap(todo, Len(OkTrades(actions)))
    BY DEF Reporting, Honest
<1> HIDE DEF a
<1>7. UnpricedIn(turns'[i].actions) = UnpricedIn(actions)
    BY <1>1, <1>3, <1>4, AppendTickers
<1>8. CASE Head(todo).what = "remove"
    <2>1. Needs(turns'[i]) = Needs(turns[i])
        BY <1>1, <1>3, <1>4, <1>8, AppendTickers DEF Needs
    <2>2. Tail(todo) # <<>> => /\ Head(Tail(todo)).what # "add"
                               /\ Head(Tail(todo)).what \notin {"buy", "sell"}
        BY <1>3, <1>6, <1>8, NextKind
    <2>3. ~Adding(turns'[i]) /\ ~Trading(turns'[i])
        BY <1>1, <2>2 DEF Adding, Trading
    <2> QED
        BY <1>7, <2>1, <2>3 DEF Supplied
<1>9. CASE Head(todo).what = "add"
    <2>1. Needs(turns[i]) \subseteq Tracked(watch) /\ UnpricedIn(actions) = {}
        <3>1. Adding(turns[i])
            BY <1>3, <1>5, <1>9 DEF Adding
        <3> QED
            BY <3>1 DEF Supplied
    <2>2. Needs(turns'[i]) \subseteq Needs(turns[i]) \cup (IF why = "ok" THEN {t} ELSE {})
        BY <1>1, <1>3, <1>4, AppendTickers DEF Needs
    <2> HIDE DEF t
    <2>3. /\ Tracked(watch) \cup (IF why = "ok" THEN {t} ELSE {}) \subseteq Tracked(watch')
          /\ streamed' = Tracked(watch') \/ (streamed' = streamed /\ watch' = watch)
        BY <1>9 DEF Changed, Tracked, t
    <2>4. Tracked(watch') = Tracked(watch)'
        BY <1>5 DEF Tracked
    <2>5. Needs(turns'[i]) \subseteq Tracked(watch)'
        BY <2>1, <2>2, <2>3, <2>4
    <2>6. Needs(turns'[i]) \subseteq streamed'
        BY <2>3, <2>4, <2>5 DEF Supply, HeldIsStreamed
    <2> QED
        BY <1>7, <2>1, <2>5, <2>6 DEF Supplied
<1> QED
    BY <1>5, <1>8, <1>9

LEMMA HeldStep ==
    ASSUME Types, HeldIsStreamed, [Next]_vars
    PROVE  HeldIsStreamed'
<1>1. ASSUME UNCHANGED <<shares, watch, streamed>>
      PROVE  HeldIsStreamed'
    BY <1>1 DEF HeldIsStreamed, Tracked
<1>2. ASSUME NEW i \in DOMAIN turns, ServerStep(i)
      PROVE  HeldIsStreamed'
    <2>1. CASE ActTrade(i)
        <3>1. PICK why \in {"ok", "refused", "unpriced"} : Traded(i, why)
            BY <2>1, TradeCases
        <3> QED
            BY <3>1 DEF Traded, Filled, NotFilled, HeldIsStreamed, Tracked
    <2>2. CASE ActWatchlist(i)
        <3>1. PICK why \in {"ok", "refused"} : Changed(i, why)
            BY <2>2, ChangeCases
        <3> QED
            BY <3>1 DEF Changed, HeldIsStreamed, Tracked
    <2>3. CASE ~ActTrade(i) /\ ~ActWatchlist(i)
        BY <1>1, <1>2, <2>3 DEF ServerStep, LoadContext, Unavailable, AnswerMalformed, Answer,
           ActEnd, Value, Persist, Raise, account
    <2> QED
        BY <2>1, <2>2, <2>3
<1>3. CASE Crash
    BY <1>3 DEF Crash, HeldIsStreamed, Tracked
<1>4. CASE Type \/ Send \/ ReceiveAnswer \/ LoseConnection \/ UNCHANGED vars
    BY <1>1, <1>4 DEF Type, Send, ReceiveAnswer, LoseConnection, vars, account
<1> QED
    BY <1>2, <1>3, <1>4 DEF Next

LEMMA SupplyServer ==
    ASSUME Types, Reporting, Supply, NEW i \in DOMAIN turns, ServerStep(i)
    PROVE  Supply'
<1>1. Others(i) /\ KeepsRequest(i) /\ Advances(i) /\ overlapped' = overlapped
    BY ServerMoves
<1>2. HeldIsStreamed'
    BY HeldStep DEF Supply, Next
<1>3. Active(i)
    BY <1>1 DEF Advances, Active
<1>4. \A j \in DOMAIN turns : Active(j)' => Active(j)
    BY <1>1, <1>3 DEF Others, Active
<1>5. Alone'
    BY <1>1, <1>4 DEF Supply, Alone, Others
<1>6. ASSUME NEW j \in DOMAIN turns, j # i, j \notin overlapped
      PROVE  Supplied(j)'
    <2>1. ~Active(j) /\ Supplied(j) /\ turns'[j] = turns[j]
        BY <1>1, <1>3, <1>6 DEF Supply, Alone, Others
    <2>2. ~Adding(turns'[j]) /\ ~Trading(turns'[j])
        BY <2>1 DEF Active, Adding, Trading
    <2> QED
        BY <2>1, <2>2, SuppliedIdle
<1>7. ASSUME i \notin overlapped
      PROVE  Supplied(i)'
    <2>0. Supplied(i) /\ turns \in Seq(Turns) /\ turns[i] \in Turns
        BY <1>7 DEF Supply, Types
    <2>1. CASE LoadContext(i)
        <3>1. KeepsWork(i) /\ turns'[i].at = "asking" /\ turns[i].at = "loading"
              /\ UNCHANGED <<watch, shares>>
            BY <2>1, LoadMoves DEF LoadContext, account
        <3>2. Adding(turns[i]) /\ ~Trading(turns'[i]) /\ Needs(turns'[i]) = Needs(turns[i])
              /\ UnpricedIn(turns'[i].actions) = UnpricedIn(turns[i].actions)
            BY <3>1 DEF Adding, Trading, Needs, KeepsWork, KeepsRequest, KeepsActions
        <3>3. Tracked(watch)' = Tracked(watch)
            BY <3>1 DEF Tracked
        <3> QED
            BY <2>0, <3>2, <3>3 DEF Supplied
    <2>2. CASE Unavailable(i) \/ AnswerMalformed(i)
        BY <2>0, <2>2, LeaveMoves, SuppliedIdle
           DEF Unavailable, AnswerMalformed, Stages, KeepsWork, KeepsRequest, KeepsActions,
               Adding, Trading
    <2>3. CASE \E reply \in Replies : Answer(i, reply)
        <3>1. PICK reply \in Replies : Answer(i, reply)
            BY <2>3
        <3>2. /\ turns'[i].actions = turns[i].actions /\ turns[i].at = "asking"
              /\ UNCHANGED <<watch, shares, streamed>>
            BY <3>1, AnswerMoves DEF Answer, account
        <3>3. Adding(turns[i]) /\ Needs(turns'[i]) = Needs(turns[i])
            BY <1>1, <3>2 DEF Adding, Needs, KeepsRequest
        <3>4. Tracked(watch)' = Tracked(watch)
            BY <3>2 DEF Tracked
        <3> QED
            BY <2>0, <3>2, <3>3, <3>4 DEF Supplied, Supply, HeldIsStreamed
    <2>4. CASE ActTrade(i)
        BY <2>0, <2>4, TradeCases, SuppliedTrade
    <2>5. CASE ActWatchlist(i)
        BY <2>0, <2>5, ChangeCases, SuppliedChange
    <2>6. CASE ActEnd(i)
        <3> DEFINE more == Rejections(i)
        <3>1. /\ turns'[i].at = "valuing" /\ turns'[i].actions = turns[i].actions \o more
              /\ turns'[i].tracked = turns[i].tracked
            BY <2>6, EndMoves DEF KeepsRequest
        <3>2. /\ more \in Seq(Actions)
              /\ \A k \in DOMAIN more : more[k].what = "rejected" /\ more[k].why = "schema"
            <4>1. /\ more \in Seq(Actions)
                  /\ \A k \in DOMAIN more :
                        more[k] = [what |-> "rejected", ticker |-> "", why |-> "schema"]
                BY RejectionsTyped
            <4> HIDE DEF more
            <4>2. ASSUME NEW k \in DOMAIN more
                  PROVE  more[k].what = "rejected" /\ more[k].why = "schema"
                <5>1. more[k] = [what |-> "rejected", ticker |-> "", why |-> "schema"]
                    BY <4>1
                <5>2. /\ [what |-> "rejected", ticker |-> "", why |-> "schema"].what = "rejected"
                      /\ [what |-> "rejected", ticker |-> "", why |-> "schema"].why = "schema"
                    OBVIOUS
                <5> QED
                    BY ONLY <5>1, <5>2, Zenon
            <4> QED
                BY <4>1, <4>2
        <3>3. turns[i].actions \in Seq(Actions)
            BY <2>0 DEF Turns
        <3> HIDE DEF more
        <3>4. /\ AddedBy(turns'[i].actions) = AddedBy(turns[i].actions)
              /\ UnpricedIn(turns'[i].actions) = UnpricedIn(turns[i].actions)
            BY <3>1, <3>2, <3>3, RejectionTickers
        <3>5. ~Adding(turns'[i]) /\ ~Trading(turns'[i]) /\ Needs(turns'[i]) = Needs(turns[i])
            BY <3>1, <3>4 DEF Adding, Trading, Needs
        <3> QED
            BY <2>0, <3>4, <3>5 DEF Supplied
    <2>7. CASE Value(i) \/ Persist(i) \/ Raise(i)
        <3>1. /\ KeepsWork(i) /\ turns'[i].at \in {"persisting", "replied", "error"}
            BY <2>0, <2>7, GotoMoves DEF Value, Persist, Raise, Stages
        <3> QED
            BY <2>0, <3>1, SuppliedIdle DEF KeepsWork, KeepsRequest, KeepsActions, Adding, Trading
    <2> QED
        BY <2>1, <2>2, <2>3, <2>4, <2>5, <2>6, <2>7 DEF ServerStep
<1> QED
    BY <1>1, <1>2, <1>5, <1>6, <1>7 DEF Supply, Others

LEMMA SupplySend ==
    ASSUME Types, Supply, Send
    PROVE  Supply'
<1>0. PICK n : n = Len(turns) + 1
    OBVIOUS
<1>1. /\ DOMAIN turns' = DOMAIN turns \cup {n} /\ n \notin DOMAIN turns
      /\ turns'[n] = Request /\ \A i \in DOMAIN turns : turns'[i] = turns[i]
    BY <1>0, SendMoves
<1>2. UNCHANGED <<shares, watch, streamed>>
    BY DEF Send, account
<1>3. /\ overlapped \subseteq overlapped'
      /\ \A i \in DOMAIN turns : Active(i) => i \in overlapped' /\ n \in overlapped'
    BY <1>0 DEF Send
<1>4. \A i \in DOMAIN turns : Active(i)' <=> Active(i)
    BY <1>1 DEF Active
<1>5. HeldIsStreamed' /\ Tracked(watch)' = Tracked(watch)
    BY <1>2 DEF Supply, HeldIsStreamed, Tracked
<1>6. Alone'
    BY <1>1, <1>3, <1>4 DEF Alone, Supply
<1>7. ASSUME NEW i \in DOMAIN turns, i \notin overlapped'
      PROVE  Supplied(i)'
    <2>1. ~Active(i) /\ Supplied(i) /\ turns'[i] = turns[i]
        BY <1>1, <1>3, <1>7 DEF Supply
    <2>2. ~Adding(turns'[i]) /\ ~Trading(turns'[i])
        BY <2>1 DEF Active, Adding, Trading
    <2> QED
        BY <2>1, <2>2, SuppliedIdle
<1>8. Supplied(n)'
    <2>1. /\ Request.at = "loading" /\ Request.actions = <<>> /\ Request.tracked = Tracked(watch)
        BY DEF Request
    <2>2. AddedBy(<<>>) = {} /\ UnpricedIn(<<>>) = {}
        <3>1. DOMAIN <<>> = {}
            OBVIOUS
        <3> QED
            BY <3>1 DEF AddedBy, UnpricedIn
    <2>3. Needs(Request) = Tracked(watch) /\ ~Trading(Request)
        BY <2>1, <2>2 DEF Needs, Trading
    <2> QED
        BY <1>1, <1>5, <2>1, <2>2, <2>3 DEF Supplied
<1> QED
    BY <1>1, <1>5, <1>6, <1>7, <1>8 DEF Supply

LEMMA SupplyStep ==
    ASSUME Types, Reporting, Supply, [Next]_vars
    PROVE  Supply'
<1>1. CASE Type \/ ReceiveAnswer \/ LoseConnection \/ UNCHANGED vars
    <2>1. UNCHANGED <<turns, shares, watch, streamed, overlapped>>
        BY <1>1 DEF Type, ReceiveAnswer, LoseConnection, vars, account
    <2> QED
        BY <2>1 DEF Supply, HeldIsStreamed, Alone, Active, Supplied, Tracked
<1>2. CASE Crash
    <2>1. /\ DOMAIN turns' = DOMAIN turns /\ overlapped' = overlapped
          /\ \A i \in DOMAIN turns : KeepsWork(i) /\ ~Active(i)'
        BY <1>2, CrashMoves DEF Crash
    <2>2. HeldIsStreamed'
        BY <1>2, HeldStep DEF Supply, Next
    <2>3. ASSUME NEW i \in DOMAIN turns, i \notin overlapped
          PROVE  Supplied(i)'
        <3>1. ~Adding(turns'[i]) /\ ~Trading(turns'[i])
            BY <2>1 DEF Active, Adding, Trading
        <3> QED
            BY <2>1, <2>3, <3>1, SuppliedIdle DEF Supply, KeepsWork, KeepsRequest, KeepsActions
    <2> QED
        BY <2>1, <2>2, <2>3 DEF Supply, Alone
<1>3. CASE \E i \in DOMAIN turns : ServerStep(i)
    BY <1>3, SupplyServer
<1> QED
    BY <1>1, <1>2, <1>3, SupplySend DEF Next

\* For every set of tickers and any number of turns: a turn that runs alone has a price
\* for whatever was watched or held when it began and for what it has added itself.
THEOREM TradesArePriced == Spec => []TradesKeepTheirPrice
<1>1. Types /\ Supply => TradesKeepTheirPrice
    <2> SUFFICES ASSUME Types, NEW i \in DOMAIN turns, Supplied(i),
                        NEW k \in DOMAIN turns[i].actions, turns[i].actions[k].why = "unpriced"
                 PROVE  /\ turns[i].actions[k].ticker \notin turns[i].tracked
                        /\ \A j \in DOMAIN turns[i].actions :
                              turns[i].actions[j] # [what |-> "add",
                                                     ticker |-> turns[i].actions[k].ticker,
                                                     why |-> "ok"]
        BY DEF Supply, TradesKeepTheirPrice
    <2> DEFINE t == turns[i].actions[k].ticker
    <2>1. t \in UnpricedIn(turns[i].actions)
        BY DEF UnpricedIn
    <2>2. t \notin turns[i].tracked /\ t \notin AddedBy(turns[i].actions)
        BY <2>1 DEF Supplied, Needs
    <2> HIDE DEF t
    <2>3. ASSUME NEW j \in DOMAIN turns[i].actions,
                 turns[i].actions[j] = [what |-> "add", ticker |-> t, why |-> "ok"]
          PROVE  FALSE
        <3>1. /\ turns[i].actions[j].what = "add" /\ turns[i].actions[j].why = "ok"
              /\ turns[i].actions[j].ticker = t
            BY <2>3
        <3> QED
            BY <2>2, <3>1 DEF AddedBy
    <2> QED
        BY <2>2, <2>3 DEF t
<1>2. Types /\ Reporting /\ Supply /\ [Next]_vars => (Types /\ Reporting /\ Supply)'
    BY TypesStep, ReportingStep, SupplyStep
<1> QED
    BY <1>1, <1>2, TypesInit, ReportingInit, SupplyInit, PTL DEF Spec
=============================================================================
