-------------------------------- MODULE StatsProofs --------------------------------
(***************************************************************************)
(* The statistics of finished games, for any rooms, outcomes, limit of the   *)
(* store in memory, and number of games and repeated submissions: what the   *)
(* store holds after any sequence of results (the specification of the two   *)
(* repositories, CompletedGames), and what the rooms' subscribers, running   *)
(* side by side, record, add to aggregates and count of it (Stats).          *)
(***************************************************************************)
EXTENDS Stats, HistoryReads, SequenceTheorems, FiniteSetTheorems, WellFoundedInduction,
        NaturalsInduction, TLAPS

\* The repositories share the store, the tables and the list of results with Stats.
Repositories == INSTANCE CompletedGames

\* No game is twice among these results.
NoTwo(w) == \A i, j \in DOMAIN w : i # j => w[i].game_id # w[j].game_id

\* The store holds these results and nothing else, in this order.
Holds(st, w) ==
    /\ st.order = Ids(w)
    /\ DOMAIN st.games = {w[i].game_id : i \in DOMAIN w}
    /\ \A i \in DOMAIN w : st.games[w[i].game_id] = w[i]
-----------------------------------------------------------------------------
(* Sequences of results. *)

\* What LastOf returns.
LEMMA LastOfProperties ==
    ASSUME NEW S, NEW s \in Seq(S), NEW n \in Nat
    PROVE  /\ LastOf(s, n) \in Seq(S)
           /\ Len(LastOf(s, n)) = IF Len(s) <= n THEN Len(s) ELSE n
           /\ \A i \in 1 .. Len(LastOf(s, n)) :
                 LastOf(s, n)[i] = s[Len(s) - Len(LastOf(s, n)) + i]
<1>1. Len(s) \in Nat /\ \A i \in 1 .. Len(s) : s[i] \in S
  OBVIOUS
<1>2. CASE Len(s) <= n
  BY <1>1, <1>2 DEF LastOf
<1>3. CASE Len(s) > n
  <2> DEFINE m == Len(s) - n + 1
             k == Len(s)
             t == SubSeq(s, m, k)
  <2>1. m \in Int /\ k \in Int /\ m \in 1 .. k + 1 /\ k - m + 1 = n /\ m - 1 = Len(s) - n
    BY <1>1, <1>3
  <2>2. \A i \in m .. k : s[i] \in S
    BY <1>1, <2>1
  <2>3. LastOf(s, n) = t
    BY <1>1, <1>3 DEF LastOf
  <2> HIDE DEF m, k
  <2>4. /\ t \in Seq(S) /\ Len(t) = IF m <= k THEN k - m + 1 ELSE 0
        /\ \A i \in 1 .. k - m + 1 : t[i] = s[m + i - 1]
    BY <2>1, <2>2, SubSeqProperties
  <2>5. Len(t) = n
    BY <2>1, <2>4
  <2>6. \A i \in 1 .. n : m + i - 1 = Len(s) - n + i
    BY <2>1, <1>1
  <2>7. \A i \in 1 .. n : t[i] = s[Len(s) - n + i]
    BY <2>1, <2>4, <2>6
  <2> HIDE DEF t
  <2>8. QED
    BY <1>3, <2>3, <2>4, <2>5, <2>7
<1>4. QED
  BY <1>1, <1>2, <1>3

\* Once the window is full a new result pushes the oldest out.
LEMMA LastOfAppend ==
    ASSUME NEW S, NEW s \in Seq(S), NEW e \in S, NEW n \in Nat
    PROVE  /\ Len(LastOf(s, n)) <= n
           /\ Len(LastOf(s, n)) < n => LastOf(Append(s, e), n) = Append(LastOf(s, n), e)
           /\ Len(LastOf(s, n)) = n =>
                 LastOf(Append(s, e), n) = SubSeq(Append(LastOf(s, n), e), 2, n + 1)
<1> DEFINE w == LastOf(s, n)
           a == Append(w, e)
           s2 == Append(s, e)
<1>1. /\ w \in Seq(S) /\ Len(w) = IF Len(s) <= n THEN Len(s) ELSE n
      /\ \A i \in 1 .. Len(w) : w[i] = s[Len(s) - Len(w) + i]
  BY LastOfProperties
<1>2. /\ s2 \in Seq(S) /\ Len(s2) = Len(s) + 1 /\ s2[Len(s) + 1] = e
      /\ \A i \in 1 .. Len(s) : s2[i] = s[i]
  BY AppendProperties
<1> HIDE DEF s2
<1> DEFINE v == LastOf(s2, n)
<1>3. /\ v \in Seq(S) /\ Len(v) = IF Len(s2) <= n THEN Len(s2) ELSE n
      /\ \A i \in 1 .. Len(v) : v[i] = s2[Len(s2) - Len(v) + i]
  BY <1>2, LastOfProperties
<1>4. /\ a \in Seq(S) /\ Len(a) = Len(w) + 1 /\ a[Len(w) + 1] = e
      /\ \A i \in 1 .. Len(w) : a[i] = w[i]
  BY <1>1, AppendProperties
<1>5. Len(s) \in Nat /\ Len(w) \in Nat /\ Len(v) \in Nat /\ Len(a) \in Nat
  BY <1>1, <1>3, <1>4
<1> HIDE DEF w, a, v
<1>6. CASE Len(s) < n
  <2>1. Len(v) = Len(a) /\ Len(w) = Len(s)
    BY <1>1, <1>2, <1>3, <1>4, <1>5, <1>6
  <2>2. ASSUME NEW i \in 1 .. Len(v) PROVE v[i] = a[i]
    <3>1. Len(s2) - Len(v) + i = i /\ i \in 1 .. Len(s) + 1
      BY <1>2, <1>4, <1>5, <2>1
    <3>2. v[i] = s2[i]
      BY <1>3, <3>1
    <3>3. CASE i = Len(s) + 1
      BY <1>2, <1>4, <2>1, <3>2, <3>3
    <3>4. CASE i # Len(s) + 1
      <4>1. i \in 1 .. Len(s) /\ Len(s) - Len(w) + i = i
        BY <1>5, <2>1, <3>1, <3>4
      <4>2. QED
        BY <1>1, <1>2, <1>4, <2>1, <3>2, <4>1
    <3>5. QED
      BY <3>3, <3>4
  <2>3. v = a
    BY <1>3, <1>4, <2>1, <2>2, SeqEqual
  <2>4. QED
    BY <1>5, <1>6, <2>1, <2>3 DEF v, a, w, s2
<1>7. CASE Len(s) >= n
  <2> DEFINE k == Len(a)
             c == SubSeq(a, 2, k)
  <2>1. Len(w) = n /\ Len(v) = n /\ k = n + 1 /\ k \in Int /\ 2 \in Int
    BY <1>1, <1>2, <1>3, <1>4, <1>5, <1>7
  <2>2. \A i \in 2 .. k : a[i] \in S
    BY <1>4, <2>1
  <2> HIDE DEF k
  <2>3. /\ c \in Seq(S) /\ Len(c) = IF 2 <= k THEN k - 2 + 1 ELSE 0
        /\ \A i \in 1 .. k - 2 + 1 : c[i] = a[2 + i - 1]
    BY <2>1, <2>2, SubSeqProperties
  <2>4. Len(c) = n /\ \A i \in 1 .. n : c[i] = a[i + 1]
    BY <2>1, <2>3
  <2> HIDE DEF c
  <2>5. ASSUME NEW i \in 1 .. n PROVE v[i] = c[i]
    <3>0. i \in 1 .. Len(v) /\ Len(s2) - Len(v) + i = Len(s) + 1 - n + i
      BY <1>2, <1>5, <2>1
    <3>1. v[i] = s2[Len(s) + 1 - n + i]
      BY <1>3, <3>0
    <3>2. CASE i = n
      <4>1. v[i] = e
        BY <1>2, <1>5, <3>1, <3>2
      <4>2. QED
        BY <1>4, <2>1, <2>4, <3>2, <4>1
    <3>3. CASE i < n
      <4>1. Len(s) + 1 - n + i \in 1 .. Len(s) /\ i + 1 \in 1 .. Len(w)
            /\ Len(s) + 1 - n + i = Len(s) - Len(w) + (i + 1)
        BY <1>5, <1>7, <2>1, <3>3
      <4>2. v[i] = w[i + 1]
        BY <1>1, <1>2, <3>1, <4>1
      <4>3. QED
        BY <1>4, <2>4, <4>1, <4>2
    <3>4. QED
      BY <3>2, <3>3
  <2>6. v = c
    BY <1>3, <2>1, <2>3, <2>4, <2>5, SeqEqual
  <2>7. QED
    BY <1>5, <1>7, <2>1, <2>6 DEF v, a, w, s2, c
<1>8. QED
  BY <1>5, <1>6, <1>7

LEMMA IdsOfAppend ==
    ASSUME NEW S, NEW w \in Seq(S), NEW e \in S
    PROVE  /\ Append(Ids(w), e.game_id) = Ids(Append(w, e))
           /\ NoTwo(w) /\ (\A i \in DOMAIN w : w[i].game_id # e.game_id)
              => NoTwo(Append(w, e))
<1> DEFINE I == {x.game_id : x \in S}
           a == Append(w, e)
<1>1. /\ a \in Seq(S) /\ Len(a) = Len(w) + 1 /\ a[Len(w) + 1] = e
      /\ \A i \in 1 .. Len(w) : a[i] = w[i]
  BY AppendProperties
<1>2. DOMAIN w = 1 .. Len(w) /\ DOMAIN a = 1 .. Len(w) + 1 /\ Len(w) \in Nat
  BY <1>1
<1> HIDE DEF a
<1>3. Ids(w) \in Seq(I) /\ Len(Ids(w)) = Len(w)
      /\ \A i \in 1 .. Len(w) : Ids(w)[i] = w[i].game_id
  BY DEF Ids
<1>4. Ids(a) \in Seq(I) /\ Len(Ids(a)) = Len(w) + 1
      /\ \A i \in 1 .. Len(w) + 1 : Ids(a)[i] = a[i].game_id
  BY <1>1, <1>2 DEF Ids
<1> DEFINE b == Append(Ids(w), e.game_id)
<1>5. e.game_id \in I
  OBVIOUS
<1> HIDE DEF I
<1>6. b \in Seq(I) /\ Len(b) = Len(w) + 1 /\ b[Len(w) + 1] = e.game_id
      /\ \A i \in 1 .. Len(w) : b[i] = w[i].game_id
  BY <1>3, <1>5, AppendProperties
<1>7. \A i \in 1 .. Len(w) + 1 : i \in 1 .. Len(w) \/ i = Len(w) + 1
  BY <1>2
<1>8. \A i \in 1 .. Len(w) + 1 : b[i] = Ids(a)[i]
  BY <1>1, <1>4, <1>6, <1>7
<1> HIDE DEF b
<1>9. b = Ids(a)
  BY <1>4, <1>6, <1>8, SeqEqual
<1>10. NoTwo(w) /\ (\A i \in DOMAIN w : w[i].game_id # e.game_id) => NoTwo(a)
  BY <1>1, <1>2, <1>7 DEF NoTwo
<1>11. QED
  BY <1>9, <1>10 DEF a, b

\* As many games as results, when no game is twice among them.
LEMMA CountedByIds ==
    ASSUME NEW S, NEW w \in Seq(S), NoTwo(w)
    PROVE  LET ids == {w[i].game_id : i \in DOMAIN w}
           IN  IsFiniteSet(ids) /\ Cardinality(ids) = Len(w)
<1> DEFINE ids == {w[i].game_id : i \in DOMAIN w}
           f == [i \in 1 .. Len(w) |-> w[i].game_id]
<1>1. DOMAIN w = 1 .. Len(w) /\ Len(w) \in Nat
  OBVIOUS
<1>2. f \in Bijection(1 .. Len(w), ids)
  <2>1. f \in [1 .. Len(w) -> ids] /\ \A i \in 1 .. Len(w) : f[i] = w[i].game_id
    BY <1>1
  <2>2. \A x \in ids : \E i \in 1 .. Len(w) : f[i] = x
    BY <1>1
  <2>3. \A i, j \in 1 .. Len(w) : f[i] = f[j] => i = j
    BY <1>1 DEF NoTwo
  <2> HIDE DEF f, ids
  <2>4. DOMAIN f = 1 .. Len(w)
    BY <2>1
  <2>5. f \in Injection(1 .. Len(w), ids)
    BY <2>1, <2>3, <2>4 DEF Injection, IsInjective
  <2>6. f \in Surjection(1 .. Len(w), ids)
    BY <2>1, <2>2 DEF Surjection
  <2>7. QED
    BY <2>5, <2>6 DEF Bijection
<1> HIDE DEF f, ids
<1>3. ExistsBijection(1 .. Len(w), ids)
  BY <1>2 DEF ExistsBijection
<1>4. Cardinality(ids) = Len(w) /\ IsFiniteSet(ids)
  BY <1>1, <1>3, FS_CountingElements, FS_NatBijection
<1>5. QED
  BY <1>4 DEF ids
-----------------------------------------------------------------------------
(* The store in memory. *)

\* Recording a result that the store does not hold: the result is put last, and the
\* first one goes when there are too many; the eviction hits what the order names.
LEMMA StoredKeepsNewest ==
    ASSUME NEW S, NEW w \in Seq(S), NoTwo(w), Len(w) <= Limit, NEW st, Holds(st, w),
           NEW e \in S, ~IsStored(st, e.game_id)
    PROVE  /\ Len(w) < Limit =>
                 /\ Holds(Stored(st, e), Append(w, e))
                 /\ NoTwo(Append(w, e))
           /\ Len(w) = Limit =>
                 /\ Holds(Stored(st, e), SubSeq(Append(w, e), 2, Len(w) + 1))
                 /\ NoTwo(SubSeq(Append(w, e), 2, Len(w) + 1))
<1> DEFINE a == Append(w, e)
           games == Inserted(st.games, e)
           order == Append(st.order, e.game_id)
           excess == Cardinality(DOMAIN games) - Limit
           n == IF excess > 0 THEN excess ELSE 0
           evicted == {order[i] : i \in 1 .. n}
           kept == [id \in DOMAIN games \ evicted |-> games[id]]
<1>1. Stored(st, e) = [games |-> kept, order |-> SubSeq(order, n + 1, Len(order))]
  BY DEF Stored
<1>2. /\ a \in Seq(S) /\ Len(a) = Len(w) + 1 /\ a[Len(w) + 1] = e
      /\ \A i \in 1 .. Len(w) : a[i] = w[i]
  BY AppendProperties
<1>3. DOMAIN w = 1 .. Len(w) /\ DOMAIN a = 1 .. Len(w) + 1 /\ Len(w) \in Nat /\ Limit \in Nat
  BY <1>2, HistoryAssumption
<1>4. \A i \in DOMAIN w : w[i].game_id # e.game_id
  BY DEF Holds, IsStored
<1>5. NoTwo(a) /\ order = Ids(a)
  BY <1>4, IdsOfAppend DEF Holds
<1> HIDE DEF a
<1>6. DOMAIN games = {a[i].game_id : i \in DOMAIN a}
  BY <1>2, <1>3 DEF Holds, Inserted
<1>7. \A i \in DOMAIN a : games[a[i].game_id] = a[i]
  BY <1>2, <1>3, <1>4 DEF Holds, Inserted
<1>8. Cardinality(DOMAIN games) = Len(w) + 1
  BY <1>2, <1>5, <1>6, CountedByIds
<1>9. Len(order) = Len(w) + 1 /\ \A i \in 1 .. Len(w) + 1 : order[i] = a[i].game_id
  BY <1>3, <1>5 DEF Ids
<1>10. order \in Seq({x.game_id : x \in S})
  BY <1>2, <1>3, <1>5 DEF Ids
<1>11. n = IF Len(w) < Limit THEN 0 ELSE 1
  BY <1>3, <1>8
<1> HIDE DEF games, order, n, excess
<1>12. CASE Len(w) < Limit
  <2>1. n = 0 /\ 1 .. 0 = {}
    BY <1>11, <1>12
  <2>2. evicted = {}
    BY <2>1
  <2>3. SubSeq(order, n + 1, Len(order)) = Ids(a)
    BY <1>5, <1>10, <2>1, SubSeqFull
  <2> HIDE DEF evicted
  <2>4. DOMAIN kept = DOMAIN games /\ \A id \in DOMAIN games : kept[id] = games[id]
    BY <2>2
  <2> HIDE DEF kept
  <2>5. Holds(Stored(st, e), a)
    BY <1>1, <1>6, <1>7, <2>3, <2>4 DEF Holds
  <2>6. QED
    BY <1>5, <1>12, <2>5 DEF a
<1>13. CASE Len(w) = Limit
  <2>1. n = 1 /\ 1 .. 1 = {1}
    BY <1>3, <1>11, <1>13
  <2>2. evicted = {a[1].game_id}
    BY <1>3, <1>9, <2>1
  <2> HIDE DEF evicted
  <2> DEFINE k == Len(w) + 1
             b == SubSeq(a, 2, k)
             c == SubSeq(order, 2, k)
  <2>3. k \in Int /\ 2 \in Int /\ k - 2 + 1 = Len(w)
        /\ \A i \in 1 .. Len(w) : 2 + i - 1 = i + 1
    BY <1>3
  <2>4. (\A i \in 2 .. k : a[i] \in S) /\ \A i \in 2 .. k : order[i] \in {x.game_id : x \in S}
    BY <1>2, <1>3, <1>9
  <2> HIDE DEF k
  <2>5. /\ b \in Seq(S) /\ Len(b) = IF 2 <= k THEN k - 2 + 1 ELSE 0
        /\ \A i \in 1 .. k - 2 + 1 : b[i] = a[2 + i - 1]
    BY <2>3, <2>4, SubSeqProperties
  <2>6. /\ c \in Seq({x.game_id : x \in S}) /\ Len(c) = IF 2 <= k THEN k - 2 + 1 ELSE 0
        /\ \A i \in 1 .. k - 2 + 1 : c[i] = order[2 + i - 1]
    BY <2>3, <2>4, SubSeqProperties
  <2> HIDE DEF b, c
  <2>7. Len(b) = Len(w) /\ Len(c) = Len(w)
    BY <1>3, <2>3, <2>5, <2>6
  <2>8. DOMAIN b = 1 .. Len(w) /\ \A i \in 1 .. Len(w) : i + 1 \in DOMAIN a /\ b[i] = a[i + 1]
    BY <1>3, <2>3, <2>5, <2>7
  <2>9. \A i \in 1 .. Len(w) : c[i] = b[i].game_id
    BY <1>3, <1>9, <2>3, <2>6, <2>8
  <2>10. Ids(b) \in Seq({x.game_id : x \in S}) /\ Len(Ids(b)) = Len(w)
         /\ \A i \in 1 .. Len(w) : Ids(b)[i] = b[i].game_id
    BY <2>5, <2>7, <2>8 DEF Ids
  <2>11. c = Ids(b)
    BY <2>6, <2>7, <2>9, <2>10, SeqEqual
  <2>12. NoTwo(b)
    <3>1. ASSUME NEW i \in DOMAIN b, NEW j \in DOMAIN b, i # j
          PROVE  b[i].game_id # b[j].game_id
      <4>1. i + 1 # j + 1
        BY <1>3, <2>8, <3>1
      <4>2. QED
        BY <1>5, <2>8, <4>1 DEF NoTwo
    <3>2. QED
      BY <3>1 DEF NoTwo
  <2>13. DOMAIN kept = {b[i].game_id : i \in DOMAIN b}
    <3>1. ASSUME NEW i \in DOMAIN b
          PROVE  b[i].game_id \in DOMAIN games /\ b[i].game_id # a[1].game_id
      BY <1>3, <1>5, <1>6, <2>8, SMTT(30) DEF NoTwo
    <3>2. ASSUME NEW id \in DOMAIN games, id # a[1].game_id
          PROVE  id \in {b[i].game_id : i \in DOMAIN b}
      <4>1. PICK j \in DOMAIN a : id = a[j].game_id
        BY <1>6
      <4>2. j # 1
        BY <3>2, <4>1
      <4>3. j - 1 \in 1 .. Len(w) /\ (j - 1) + 1 = j
        BY <1>3, <4>2
      <4>4. b[j - 1] = a[j]
        BY <2>8, <4>3
      <4>5. QED
        BY <2>8, <4>1, <4>3, <4>4
    <3>3. QED
      BY <2>2, <3>1, <3>2
  <2>14. \A i \in DOMAIN b : kept[b[i].game_id] = b[i]
    BY <1>7, <2>8, <2>13
  <2> HIDE DEF kept
  <2>15. SubSeq(order, n + 1, Len(order)) = Ids(b)
    BY <1>9, <2>1, <2>11 DEF c, k
  <2>16. Holds(Stored(st, e), b)
    BY <1>1, <2>13, <2>14, <2>15 DEF Holds
  <2>17. QED
    BY <1>3, <1>13, <2>12, <2>16 DEF a, b, k
<1>14. QED
  BY <1>3, <1>12, <1>13
-----------------------------------------------------------------------------
(* The repositories, given any results. *)

\* What is recorded is what the store holds last, and no game is twice in it.
NewestHeld ==
    /\ Holds(store, LastOf(recorded, Limit))
    /\ NoTwo(LastOf(recorded, Limit))
    /\ RecordedOnce

LEMMA NewestHeldInitially ==
    ASSUME store = EmptyStore, recorded = <<>>
    PROVE  NewestHeld
<1>1. Limit \in Nat /\ Len(<<>>) = 0 /\ DOMAIN <<>> = {}
  BY HistoryAssumption
<1>2. LastOf(<<>>, Limit) = <<>>
  BY <1>1 DEF LastOf
<1>3. Ids(<<>>) = <<>>
  BY <1>1 DEF Ids
<1>4. QED
  BY <1>1, <1>2, <1>3 DEF NewestHeld, Holds, NoTwo, EmptyStore, RecordedOnce

\* A result that the store does not have is taken: if its game was taken before, at
\* least Limit results ago.
LEMMA NewResultIsHeld ==
    ASSUME NEW S, recorded \in Seq(S), NewestHeld, NEW e \in S,
           ~IsStored(store, e.game_id),
           store' = Stored(store, e), recorded' = Append(recorded, e)
    PROVE  NewestHeld'
<1> DEFINE w == LastOf(recorded, Limit)
<1>1. Limit \in Nat /\ Len(recorded) \in Nat
  BY HistoryAssumption
<1>2. /\ w \in Seq(S) /\ Len(w) = IF Len(recorded) <= Limit THEN Len(recorded) ELSE Limit
      /\ \A i \in 1 .. Len(w) : w[i] = recorded[Len(recorded) - Len(w) + i]
  BY <1>1, LastOfProperties
<1>3. Holds(store, w) /\ NoTwo(w)
  BY DEF NewestHeld
<1>4. /\ Len(w) <= Limit
      /\ Len(w) < Limit => LastOf(Append(recorded, e), Limit) = Append(w, e)
      /\ Len(w) = Limit =>
            LastOf(Append(recorded, e), Limit) = SubSeq(Append(w, e), 2, Limit + 1)
  BY <1>1, LastOfAppend
<1> HIDE DEF w
<1>5. Holds(store', LastOf(recorded', Limit)) /\ NoTwo(LastOf(recorded', Limit))
  <2>1. CASE Len(w) < Limit
    BY <1>2, <1>3, <1>4, <2>1, StoredKeepsNewest
  <2>2. CASE Len(w) = Limit
    BY <1>2, <1>3, <1>4, <2>2, StoredKeepsNewest
  <2>3. QED
    BY <1>1, <1>2, <1>4, <2>1, <2>2
<1>6. ASSUME NEW i \in DOMAIN recorded', NEW j \in DOMAIN recorded', i < j,
             recorded'[i].game_id = recorded'[j].game_id
      PROVE  j - i > Limit
  <2>1. /\ DOMAIN recorded' = 1 .. Len(recorded) + 1 /\ DOMAIN recorded = 1 .. Len(recorded)
        /\ recorded'[Len(recorded) + 1] = e
        /\ \A k \in 1 .. Len(recorded) : recorded'[k] = recorded[k]
    BY AppendProperties
  <2>2. CASE j # Len(recorded) + 1
    <3>1. i \in DOMAIN recorded /\ j \in DOMAIN recorded
      BY <1>1, <1>6, <2>1, <2>2
    <3>2. QED
      BY <1>6, <2>1, <3>1 DEF NewestHeld, RecordedOnce
  <2>3. CASE j = Len(recorded) + 1
    <3>1. i \in 1 .. Len(recorded) /\ recorded[i].game_id = e.game_id
      BY <1>1, <1>6, <2>1, <2>3
    <3>2. \A k \in 1 .. Len(w) : w[k].game_id # e.game_id
      BY <1>2, <1>3 DEF Holds, IsStored
    <3>3. ASSUME i > Len(recorded) - Len(w) PROVE FALSE
      <4> DEFINE k == i - (Len(recorded) - Len(w))
      <4>1. k \in 1 .. Len(w) /\ Len(recorded) - Len(w) + k = i
        BY <1>1, <1>2, <3>1, <3>3
      <4>2. w[k] = recorded[i]
        BY <1>2, <4>1
      <4>3. QED
        BY <3>1, <3>2, <4>1, <4>2
    <3>4. i <= Len(recorded) - Len(w)
      BY <1>1, <1>2, <3>1, <3>3
    <3>5. QED
      BY <1>1, <1>2, <2>3, <3>1, <3>4
  <2>4. QED
    BY <2>2, <2>3
<1>7. RecordedOnce'
  BY <1>6 DEF RecordedOnce
<1>8. QED
  BY <1>5, <1>7 DEF NewestHeld

\* The same operators by either name.
LEMMA SameStore ==
    /\ Repositories!EmptyStore = EmptyStore
    /\ \A st, id : Repositories!IsStored(st, id) <=> IsStored(st, id)
    /\ \A st, e : Repositories!Stored(st, e) = Stored(st, e)
<1>1. Repositories!EmptyStore = EmptyStore
  BY DEF Repositories!EmptyStore, EmptyStore
<1>2. \A st, id : Repositories!IsStored(st, id) <=> IsStored(st, id)
  BY DEF Repositories!IsStored, IsStored
<1>3. ASSUME NEW st, NEW e PROVE Repositories!Stored(st, e) = Stored(st, e)
  <2> DEFINE games == [id \in DOMAIN st.games \cup {e.game_id} |->
                          IF id = e.game_id THEN e ELSE st.games[id]]
             order == Append(st.order, e.game_id)
             n == IF Cardinality(DOMAIN games) - Limit > 0
                  THEN Cardinality(DOMAIN games) - Limit ELSE 0
             evicted == {order[i] : i \in 1 .. n}
             next == [games |-> [id \in DOMAIN games \ evicted |-> games[id]],
                      order |-> SubSeq(order, n + 1, Len(order))]
  <2>1. Stored(st, e) = next
    BY DEF Stored, Inserted
  <2>2. Repositories!Stored(st, e) = next
    <3>1. \A S : Repositories!Cardinality(S) = Cardinality(S)
      BY DEF Repositories!Cardinality, Cardinality
    <3>2. QED
      BY <3>1 DEF Repositories!Stored, Repositories!Inserted
  <2> HIDE DEF next
  <2>3. QED
    BY <2>1, <2>2
<1>4. QED
  BY <1>1, <1>2, <1>3

\* Repositories makes the same results,
LEMMA SameResult ==
    \A g, room, number, at, had_bots :
        Repositories!GameResult(g, room, number, at, had_bots)
        = GameResult(g, room, number, at, had_bots)
<1>1. \A S : Repositories!Cardinality(S) = Cardinality(S)
  BY DEF Repositories!Cardinality, Cardinality
<1>2. \A f : Repositories!Sum(f) = Sum(f)
  BY <1>1 DEF Repositories!Sum, Sum
<1>3. ASSUME NEW g, NEW i PROVE Repositories!PlayerResult(g, i) = PlayerResult(g, i)
  BY <1>1, <1>2 DEF Repositories!PlayerResult, PlayerResult, Repositories!TurnsOf, TurnsOf,
     Repositories!IsPlay, IsPlay, Repositories!WinLoss, WinLoss,
     Repositories!CardsRemaining, CardsRemaining, Repositories!RawScore, RawScore,
     Repositories!FinalScore, FinalScore
<1>4. QED
  BY <1>3 DEF Repositories!GameResult, GameResult

\* and keeps the same tables.
LEMMA SameTables ==
    /\ Repositories!EmptyTables = EmptyTables
    /\ \A t, id : Repositories!HasRow(t, id) <=> HasRow(t, id)
    /\ \A t, e : Repositories!WithRows(t, e) = WithRows(t, e)
<1>1. Repositories!EmptyTables = EmptyTables
  BY DEF Repositories!EmptyTables, EmptyTables
<1>2. \A t, id : Repositories!HasRow(t, id) <=> HasRow(t, id)
  BY DEF Repositories!HasRow, HasRow
<1>3. \A e : /\ Repositories!GameRow(e) = GameRow(e)
             /\ Repositories!PlayerRows(e) = PlayerRows(e)
             /\ Repositories!MoveRows(e) = MoveRows(e)
  BY DEF Repositories!GameRow, GameRow, Repositories!PlayerRows, PlayerRows,
     Repositories!MoveRows, MoveRows, Repositories!MoveRow, MoveRow
<1>4. \A t, e : Repositories!WithRows(t, e) = WithRows(t, e)
  BY <1>3 DEF Repositories!WithRows, WithRows
<1>5. QED
  BY <1>1, <1>2, <1>4

\* What may be handed in.
Handed ==
    {GameResult([id |-> id, players |-> o.players, winner |-> o.winner,
                              moves |-> o.moves], "room", 1, at, had_bots) :
        id \in 1 .. MaxGames, o \in Outcome, at \in Times,
        had_bots \in BOOLEAN}

\* A step hands in one result, of a time of its own, to both.
LEMMA RepositoriesStep ==
    ASSUME Repositories!Next
    PROVE  \E e \in Handed :
              /\ \A i \in DOMAIN given : given[i].completed_at # e.completed_at
              /\ given' = Append(given, e)
              /\ RecordInMemory(e) /\ RecordInPostgres(e)
<1>1. PICK id \in 1 .. MaxGames, o \in Outcome, had_bots \in BOOLEAN, at \in Times :
          /\ \A i \in DOMAIN given : given[i].completed_at # at
          /\ Repositories!Record(
                 Repositories!GameResult([id |-> id, players |-> o.players,
                     winner |-> o.winner, moves |-> o.moves], "room", 1, at, had_bots))
  BY DEF Repositories!Next, Repositories!Times, Times
<1> DEFINE g == [id |-> id, players |-> o.players, winner |-> o.winner, moves |-> o.moves]
           e == GameResult(g, "room", 1, at, had_bots)
<1>2. Repositories!Record(e)
  BY <1>1, SameResult
<1>3. e \in Handed
  BY DEF Handed
<1>4. e.completed_at = at
  BY DEF GameResult
<1> HIDE DEF e
<1>5. RecordInMemory(e) /\ RecordInPostgres(e) /\ given' = Append(given, e)
  BY <1>2, SameStore, SameTables DEF Repositories!Record, Repositories!RecordInMemory,
     Repositories!RecordInPostgres, RecordInMemory, RecordInPostgres
<1>6. QED
  BY <1>1, <1>3, <1>4, <1>5
-----------------------------------------------------------------------------
(* Rows in the order of their times. *)

\* Two sets that a function matches one to one have as many elements.
LEMMA Matched ==
    ASSUME NEW A, IsFiniteSet(A), NEW B, NEW h,
           \A a \in A : h[a] \in B,
           \A a, b \in A : h[a] = h[b] => a = b,
           \A b \in B : \E a \in A : h[a] = b
    PROVE  IsFiniteSet(B) /\ Cardinality(B) = Cardinality(A)
<1> DEFINE f == [a \in A |-> h[a]]
<1>1. f \in [A -> B] /\ DOMAIN f = A /\ \A a \in A : f[a] = h[a]
  OBVIOUS
<1> HIDE DEF f
<1>2. f \in Injection(A, B)
  BY <1>1 DEF Injection, IsInjective
<1>3. f \in Surjection(A, B)
  BY <1>1 DEF Surjection
<1>4. ExistsBijection(A, B)
  BY <1>2, <1>3 DEF ExistsBijection, Bijection
<1>5. QED
  BY <1>4, FS_Bijection

\* Rows with times of their own.
Timed(rows) ==
    /\ IsFiniteSet(rows)
    /\ \A x \in rows : x.completed_at \in Int
    /\ \A x, y \in rows : x.completed_at = y.completed_at => x = y

Place(rows, x) == Cardinality({y \in rows : y.completed_at < x.completed_at})

\* A sequence lists rows: all of them, one after the other in time.
Lists(s, rows) ==
    /\ s \in Seq(rows)
    /\ \A x \in rows : \E i \in 1 .. Len(s) : s[i] = x
    /\ \A i, j \in 1 .. Len(s) : i < j => s[i].completed_at < s[j].completed_at

\* Rows have places in the order of time, and no two the same.
LEMMA PlaceFacts ==
    ASSUME NEW rows, Timed(rows)
    PROVE  /\ Cardinality(rows) \in Nat
           /\ \A x \in rows : Place(rows, x) \in 0 .. Cardinality(rows) - 1
           /\ \A x, y \in rows :
                x.completed_at < y.completed_at => Place(rows, x) < Place(rows, y)
           /\ \A x, y \in rows : Place(rows, x) = Place(rows, y) => x = y
<1> DEFINE Before(x) == {y \in rows : y.completed_at < x.completed_at}
<1>1. IsFiniteSet(rows) /\ Cardinality(rows) \in Nat
  BY FS_CardinalityType DEF Timed
<1>2. ASSUME NEW x \in rows
      PROVE  /\ IsFiniteSet(Before(x)) /\ Cardinality(Before(x)) \in Nat
             /\ Place(rows, x) = Cardinality(Before(x))
             /\ Cardinality(Before(x)) < Cardinality(rows)
  <2>1. x.completed_at \in Int
    BY DEF Timed
  <2>2. Before(x) \subseteq rows /\ Before(x) # rows
    BY <2>1
  <2>3. Place(rows, x) = Cardinality(Before(x))
    BY DEF Place
  <2> HIDE DEF Before
  <2>4. QED
    BY <1>1, <2>2, <2>3, FS_Subset, FS_CardinalityType
<1>3. ASSUME NEW x \in rows, NEW y \in rows, x.completed_at < y.completed_at
      PROVE  Cardinality(Before(x)) < Cardinality(Before(y))
  <2>1. \A z \in rows : z.completed_at \in Int
    BY DEF Timed
  <2>2. Before(x) \subseteq Before(y) /\ x \in Before(y) /\ x \notin Before(x)
    BY <1>3, <2>1
  <2>3. IsFiniteSet(Before(y)) /\ Cardinality(Before(x)) \in Nat /\ Cardinality(Before(y)) \in Nat
    BY <1>2
  <2> HIDE DEF Before
  <2>4. QED
    BY <2>2, <2>3, FS_Subset
<1> HIDE DEF Before
<1>4. \A x \in rows : Place(rows, x) \in 0 .. Cardinality(rows) - 1
  BY <1>1, <1>2
<1>5. \A x, y \in rows :
          x.completed_at < y.completed_at => Place(rows, x) < Place(rows, y)
  BY <1>2, <1>3
<1>6. ASSUME NEW x \in rows, NEW y \in rows, Place(rows, x) = Place(rows, y)
      PROVE  x = y
  <2>1. ~(x.completed_at < y.completed_at) /\ ~(y.completed_at < x.completed_at)
    BY <1>4, <1>5, <1>6
  <2>2. x.completed_at \in Int /\ y.completed_at \in Int
    BY DEF Timed
  <2>3. x.completed_at = y.completed_at
    BY <2>1, <2>2
  <2>4. QED
    BY <2>3 DEF Timed
<1>7. QED
  BY <1>1, <1>4, <1>5, <1>6

\* Every place is taken: there are as many rows as places.
LEMMA PlacesAreTaken ==
    ASSUME NEW rows, Timed(rows), NEW k \in 0 .. Cardinality(rows) - 1
    PROVE  \E x \in rows : Place(rows, x) = k
<1> DEFINE places == {Place(rows, x) : x \in rows}
           h == [x \in rows |-> Place(rows, x)]
           n == Cardinality(rows)
<1>1. IsFiniteSet(rows) /\ n \in Nat
  BY PlaceFacts DEF Timed
<1>2. /\ \A x \in rows : h[x] \in places
      /\ \A x, y \in rows : h[x] = h[y] => x = y
      /\ \A k1 \in places : \E x \in rows : h[x] = k1
  BY PlaceFacts
<1>3. places \subseteq 0 .. n - 1
  BY PlaceFacts
<1>4. 0 \in Int /\ n - 1 \in Int
  BY <1>1
<1> HIDE DEF h, places
<1>5. IsFiniteSet(places) /\ Cardinality(places) = n
  BY <1>1, <1>2, Matched
<1> HIDE DEF n
<1>6. IsFiniteSet(0 .. n - 1) /\ Cardinality(0 .. n - 1) = n
  <2> DEFINE m == n - 1
  <2>1. m \in Int /\ 0 \in Int
    BY <1>1
  <2> HIDE DEF m
  <2>2. IsFiniteSet(0 .. m) /\ Cardinality(0 .. m) = IF 0 > m THEN 0 ELSE m - 0 + 1
    BY <2>1, FS_Interval
  <2>3. QED
    BY <1>1, <2>1, <2>2 DEF m
<1>7. places = 0 .. n - 1
  BY <1>3, <1>5, <1>6, FS_Subset
<1>8. QED
  BY <1>7 DEF places, n

\* What Oldest returns.
LEMMA OldestLists ==
    ASSUME NEW rows, Timed(rows)
    PROVE  /\ Lists(Oldest(rows), rows)
           /\ Len(Oldest(rows)) = Cardinality(rows)
<1> DEFINE n == Cardinality(rows)
           s == Oldest(rows)
<1>1. n \in Nat
  BY PlaceFacts
<1>2. s = [i \in 1 .. n |-> CHOOSE x \in rows : Place(rows, x) = i - 1]
  BY DEF Oldest, Place
<1>3. ASSUME NEW i \in 1 .. n PROVE s[i] \in rows /\ Place(rows, s[i]) = i - 1
  <2>1. i - 1 \in 0 .. n - 1
    BY <1>1
  <2>2. \E x \in rows : Place(rows, x) = i - 1
    BY <2>1, PlacesAreTaken
  <2>3. s[i] = CHOOSE x \in rows : Place(rows, x) = i - 1
    BY <1>2
  <2>4. QED
    BY <2>2, <2>3
<1>4. DOMAIN s = 1 .. n
  BY <1>2
<1> HIDE DEF s
<1>5. s \in Seq(rows) /\ Len(s) = n
  <2>1. s \in [1 .. n -> rows]
    BY <1>2, <1>3, <1>4
  <2>2. s \in Seq(rows)
    BY <1>1, <2>1, SeqDef
  <2>3. QED
    BY <1>1, <1>4, <2>2, LenProperties
<1>6. ASSUME NEW x \in rows PROVE \E i \in 1 .. n : s[i] = x
  <2>1. Place(rows, x) \in 0 .. n - 1
    BY PlaceFacts
  <2>2. Place(rows, x) + 1 \in 1 .. n /\ Place(rows, x) + 1 - 1 = Place(rows, x)
    BY <1>1, <2>1
  <2>3. s[Place(rows, x) + 1] = x
    BY <1>3, <2>2, PlaceFacts
  <2>4. QED
    BY <2>2, <2>3
<1>7. ASSUME NEW i \in 1 .. n, NEW j \in 1 .. n, i < j
      PROVE  s[i].completed_at < s[j].completed_at
  <2>1. /\ s[i] \in rows /\ s[j] \in rows
        /\ Place(rows, s[i]) < Place(rows, s[j])
    BY <1>3, <1>7
  <2>2. ~(s[j].completed_at < s[i].completed_at) /\ s[i].completed_at # s[j].completed_at
    <3>1. Place(rows, s[i]) \in Int /\ Place(rows, s[j]) \in Int
      BY <1>3, <1>1
    <3>2. ~(Place(rows, s[j]) < Place(rows, s[i])) /\ Place(rows, s[j]) # Place(rows, s[i])
      BY <2>1, <3>1
    <3>3. QED
      BY <2>1, <3>2, PlaceFacts DEF Timed
  <2>3. QED
    BY <2>1, <2>2 DEF Timed
<1>8. QED
  BY <1>5, <1>6, <1>7 DEF Lists, s

\* There is one way to list rows.
LEMMA OneOrder ==
    ASSUME NEW rows, Timed(rows), NEW s, Lists(s, rows)
    PROVE  s = Oldest(rows)
<1> DEFINE n == Len(s)
           r == Oldest(rows)
<1>1. /\ s \in Seq(rows) /\ n \in Nat /\ \A i \in 1 .. n : s[i] \in rows
      /\ \A x \in rows : \E i \in 1 .. n : s[i] = x
      /\ \A i, j \in 1 .. n : i < j => s[i].completed_at < s[j].completed_at
      /\ \A x \in rows : x.completed_at \in Int
  BY DEF Lists, Timed
<1>2. \A i, j \in 1 .. n : s[i] = s[j] => i = j
  <2>1. ASSUME NEW i \in 1 .. n, NEW j \in 1 .. n, i < j PROVE s[i] # s[j]
    <3>1. s[i].completed_at < s[j].completed_at
      BY <1>1, <2>1
    <3>2. s[i].completed_at \in Int /\ s[j].completed_at \in Int
      BY <1>1
    <3>3. s[i].completed_at # s[j].completed_at
      BY <3>1, <3>2
    <3>4. QED
      BY <3>3
  <2>2. QED
    BY <1>1, <2>1
<1>3. ASSUME NEW i \in 1 .. n PROVE Place(rows, s[i]) = i - 1
  <2> DEFINE before == {y \in rows : y.completed_at < s[i].completed_at}
             m == i - 1
  <2>1. m \in Int /\ 1 \in Int /\ m \in Nat
    BY <1>1
  <2>2. \A j \in 1 .. m : j \in 1 .. n /\ j < i
    BY <1>1
  <2>9. \A j \in 1 .. m : s[j] \in before
    BY <1>1, <2>2
  <2>3. \A y \in before : \E j \in 1 .. m : s[j] = y
    <3>1. ASSUME NEW y \in before PROVE \E j \in 1 .. m : s[j] = y
      <4>1. PICK j \in 1 .. n : s[j] = y
        BY <1>1
      <4>2. /\ s[j].completed_at < s[i].completed_at
            /\ s[i].completed_at \in Int /\ s[j].completed_at \in Int
        BY <1>1, <4>1
      <4>5. ~(s[i].completed_at < s[j].completed_at)
            /\ s[i].completed_at # s[j].completed_at
        BY <4>2
      <4>3. ~(i < j) /\ i # j
        BY <1>1, <4>1, <4>5
      <4>4. j \in 1 .. m
        BY <1>1, <4>3
      <4>6. QED
        BY <4>1, <4>4
    <3>2. QED
      BY <3>1
  <2>4. Place(rows, s[i]) = Cardinality(before)
    BY DEF Place
  <2> HIDE DEF before, m
  <2>5. IsFiniteSet(1 .. m) /\ Cardinality(1 .. m) = m
    <3>1. IsFiniteSet(1 .. m) /\ Cardinality(1 .. m) = IF 1 > m THEN 0 ELSE m - 1 + 1
      BY <2>1, FS_Interval
    <3>2. QED
      BY <2>1, <3>1
  <2>6. \A a, b \in 1 .. m : s[a] = s[b] => a = b
    BY <1>2, <2>2
  <2>7. Cardinality(before) = Cardinality(1 .. m)
    BY <2>9, <2>3, <2>5, <2>6, Matched
  <2>8. QED
    BY <2>4, <2>5, <2>7 DEF m
<1>4. Lists(r, rows)
  BY OldestLists
<1>5. n = Cardinality(rows)
  <2>1. IsFiniteSet(1 .. n) /\ Cardinality(1 .. n) = n
    <3> HIDE DEF n
    <3>1. 1 \in Int /\ n \in Int
      BY <1>1
    <3>2. IsFiniteSet(1 .. n) /\ Cardinality(1 .. n) = IF 1 > n THEN 0 ELSE n - 1 + 1
      BY <3>1, FS_Interval
    <3>3. QED
      BY <1>1, <3>2
  <2> HIDE DEF n
  <2>2. \A i \in 1 .. n : s[i] \in rows
    BY <1>1
  <2>3. \A x \in rows : \E i \in 1 .. n : s[i] = x
    BY <1>1
  <2>4. Cardinality(rows) = Cardinality(1 .. n)
    BY <1>2, <2>1, <2>2, <2>3, Matched
  <2>5. QED
    BY <2>1, <2>4
<1>6. r = [i \in 1 .. n |-> CHOOSE x \in rows : Place(rows, x) = i - 1]
  BY <1>5 DEF Oldest, Place
<1>7. ASSUME NEW i \in 1 .. n PROVE r[i] = s[i]
  <2>1. r[i] = CHOOSE x \in rows : Place(rows, x) = i - 1
    BY <1>6
  <2>2. r[i] \in rows /\ Place(rows, r[i]) = i - 1
    BY <1>1, <1>3, <2>1
  <2>3. QED
    BY <1>1, <1>3, <2>2, PlaceFacts
<1>8. r \in Seq(rows) /\ Len(r) = n
  BY <1>4, <1>5, OldestLists DEF Lists
<1> HIDE DEF r, n
<1>9. s = r
  <2>1. n = Len(s)
    BY DEF n
  <2>2. QED
  BY <1>1, <1>7, <1>8, <2>1, SeqEqual
<1>10. QED
  BY <1>9 DEF r
-----------------------------------------------------------------------------
(* Sums and reversed sequences. *)

\* Finitely many finite sets, side by side.
LEMMA PairsAreFinite ==
    ASSUME NEW D, IsFiniteSet(D), NEW T, \A i \in D : IsFiniteSet(T[i])
    PROVE  IsFiniteSet(UNION {{i} \X T[i] : i \in D})
<1> DEFINE Sets == {{i} \X T[i] : i \in D}
           f == [i \in D |-> {i} \X T[i]]
<1>1. \A i \in D : IsFiniteSet({i} \X T[i])
  BY FS_Product, FS_Singleton
<1>2. f \in Surjection(D, Sets)
  BY DEF Surjection
<1>3. \A s \in Sets : IsFiniteSet(s)
  BY <1>1
<1> HIDE DEF f, Sets
<1>4. IsFiniteSet(Sets)
  BY <1>2, FS_Surjection
<1>5. IsFiniteSet(UNION Sets)
  BY <1>3, <1>4, FS_UNION
<1>6. QED
  BY <1>5 DEF Sets

\* What is in them.
LEMMA PairsAre ==
    ASSUME NEW D, NEW T
    PROVE  LET P == UNION {{i} \X T[i] : i \in D}
           IN  /\ \A i \in D : \A k \in T[i] : <<i, k>> \in P
               /\ \A x \in P : \E i \in D : \E k \in T[i] : x = <<i, k>>
<1> DEFINE P == UNION {{i} \X T[i] : i \in D}
<1>1. ASSUME NEW i \in D, NEW k \in T[i] PROVE <<i, k>> \in P
  <2>1. <<i, k>> \in {i} \X T[i]
    OBVIOUS
  <2>2. QED
    BY <2>1
<1>2. ASSUME NEW x \in P PROVE \E i \in D : \E k \in T[i] : x = <<i, k>>
  <2>1. PICK i \in D : x \in {i} \X T[i]
    OBVIOUS
  <2>2. QED
    BY <2>1
<1>3. QED
  BY <1>1, <1>2

\* f is the size of every set, and h matches their elements with those of M.
Sizes(D, T, f) ==
    /\ DOMAIN f = D
    /\ \A i \in D : IsFiniteSet(T[i]) /\ f[i] = Cardinality(T[i])
Pairing(D, T, M, h) ==
    /\ \A i \in D : \A k \in T[i] : h[<<i, k>>] \in M
    /\ \A i, j \in D : \A k \in T[i], m \in T[j] :
          h[<<i, k>>] = h[<<j, m>>] => i = j /\ k = m
    /\ \A x \in M : \E i \in D : \E k \in T[i] : h[<<i, k>>] = x

\* A sum of the sizes of sets is the size of what their elements are matched with.
LEMMA SumOfSizes ==
    ASSUME NEW D, IsFiniteSet(D), NEW T, NEW f, Sizes(D, T, f),
           NEW M, NEW h, Pairing(D, T, M, h)
    PROVE  IsFiniteSet(M) /\ Sum(f) = Cardinality(M)
<1> DEFINE U == [i \in D |-> 1 .. f[i]]
           A == UNION {{i} \X U[i] : i \in D}
           P == UNION {{i} \X T[i] : i \in D}
           b == [i \in D |-> CHOOSE g : g \in Bijection(1 .. f[i], T[i])]
           h1 == [x \in A |-> <<x[1], b[x[1]][x[2]]>>]
<1>0. DOMAIN f = D /\ \A i \in D : IsFiniteSet(T[i]) /\ f[i] = Cardinality(T[i])
  BY DEF Sizes
<1>1. ASSUME NEW i \in D PROVE b[i] \in Bijection(1 .. f[i], T[i]) /\ f[i] \in Nat
  <2>1. IsFiniteSet(T[i]) /\ f[i] = Cardinality(T[i])
    BY <1>0
  <2>2. f[i] \in Nat /\ ExistsBijection(1 .. f[i], T[i])
    BY <2>1, FS_CardinalityType
  <2>3. \E g : g \in Bijection(1 .. f[i], T[i])
    BY <2>2 DEF ExistsBijection
  <2>4. b[i] = CHOOSE g : g \in Bijection(1 .. f[i], T[i])
    OBVIOUS
  <2> HIDE DEF b
  <2>5. QED
    BY <2>2, <2>3, <2>4
<1>2. ASSUME NEW i \in D
      PROVE  /\ \A j \in U[i] : b[i][j] \in T[i]
             /\ \A j, m \in U[i] : b[i][j] = b[i][m] => j = m
             /\ \A k \in T[i] : \E j \in U[i] : b[i][j] = k
  <2>1. U[i] = 1 .. f[i]
    OBVIOUS
  <2> HIDE DEF b, U
  <2>2. QED
    BY <1>1, <2>1 DEF Bijection, Injection, IsInjective, Surjection
<1>3. IsFiniteSet(A) /\ IsFiniteSet(P)
  <2>1. \A i \in D : U[i] = 1 .. f[i]
    OBVIOUS
  <2>2. ASSUME NEW i \in D PROVE IsFiniteSet(U[i])
    <3>1. f[i] \in Int /\ 1 \in Int
      <4> HIDE DEF U, b
      <4>1. QED
        BY <1>1
    <3>2. QED
      BY <2>1, <3>1, FS_Interval
  <2> HIDE DEF U
  <2>3. IsFiniteSet(A)
    BY <2>2, PairsAreFinite
  <2>4. IsFiniteSet(P)
    BY <1>0, PairsAreFinite
  <2>5. QED
    BY <2>3, <2>4
<1>4. Sum(f) = Cardinality(A)
  <2>1. A = UNION {{i} \X (1 .. f[i]) : i \in DOMAIN f}
    BY <1>0
  <2>2. QED
    BY <2>1 DEF Sum
<1>5. /\ \A i \in D : \A j \in U[i] : <<i, j>> \in A
      /\ \A x \in A : \E i \in D : \E j \in U[i] : x = <<i, j>>
      /\ \A i \in D : \A k \in T[i] : <<i, k>> \in P
      /\ \A x \in P : \E i \in D : \E k \in T[i] : x = <<i, k>>
  <2> HIDE DEF U, b
  <2>1. QED
    BY PairsAre
<1> HIDE DEF b, U, A
<1>6. \A i \in D : \A j \in U[i] : h1[<<i, j>>] = <<i, b[i][j]>>
  BY <1>5
<1> HIDE DEF h1, P
<1>7. Cardinality(P) = Cardinality(A)
  <2>1. ASSUME NEW x \in A PROVE h1[x] \in P
    BY <1>2, <1>5, <1>6
  <2>2. ASSUME NEW x \in A, NEW y \in A, h1[x] = h1[y] PROVE x = y
    <3>1. PICK i \in D : \E j \in U[i] : x = <<i, j>>
      BY <1>5
    <3>2. PICK j \in U[i] : x = <<i, j>>
      BY <3>1
    <3>3. PICK k \in D : \E m \in U[k] : y = <<k, m>>
      BY <1>5
    <3>4. PICK m \in U[k] : y = <<k, m>>
      BY <3>3
    <3>5. <<i, b[i][j]>> = <<k, b[k][m]>>
      BY <1>6, <2>2, <3>2, <3>4
    <3>6. i = k /\ b[i][j] = b[i][m]
      BY <3>5
    <3>7. j = m
      BY <1>2, <3>2, <3>4, <3>6
    <3>8. QED
      BY <3>2, <3>4, <3>6, <3>7
  <2>3. ASSUME NEW y \in P PROVE \E x \in A : h1[x] = y
    <3>1. PICK i \in D : \E k \in T[i] : y = <<i, k>>
      BY <1>5
    <3>2. PICK k \in T[i] : y = <<i, k>>
      BY <3>1
    <3>3. PICK j \in U[i] : b[i][j] = k
      BY <1>2, <3>2
    <3>4. <<i, j>> \in A /\ h1[<<i, j>>] = y
      BY <1>5, <1>6, <3>2, <3>3
    <3>5. QED
      BY <3>4
  <2>4. QED
    BY <1>3, <2>1, <2>2, <2>3, Matched
<1>8. IsFiniteSet(M) /\ Cardinality(M) = Cardinality(P)
  <2>1. ASSUME NEW x \in P PROVE h[x] \in M
    BY <1>5 DEF Pairing
  <2>2. ASSUME NEW x \in P, NEW y \in P, h[x] = h[y] PROVE x = y
    <3>1. PICK i \in D : \E k \in T[i] : x = <<i, k>>
      BY <1>5
    <3>2. PICK k \in T[i] : x = <<i, k>>
      BY <3>1
    <3>3. PICK j \in D : \E m \in T[j] : y = <<j, m>>
      BY <1>5
    <3>4. PICK m \in T[j] : y = <<j, m>>
      BY <3>3
    <3>5. i = j /\ k = m
      BY <2>2, <3>2, <3>4 DEF Pairing
    <3>6. QED
      BY <3>2, <3>4, <3>5
  <2>3. ASSUME NEW y \in M PROVE \E x \in P : h[x] = y
    <3>1. PICK i \in D : \E k \in T[i] : h[<<i, k>>] = y
      BY DEF Pairing
    <3>2. QED
      BY <1>5, <3>1
  <2>4. QED
    BY <1>3, <2>1, <2>2, <2>3, Matched
<1>9. QED
  BY <1>4, <1>7, <1>8

\* The places of a sequence from its end.
LEMMA FromTheEnd ==
    ASSUME NEW n \in Nat
    PROVE  /\ \A i \in 1 .. n : n - i + 1 \in 1 .. n /\ n - (n - i + 1) + 1 = i
           /\ \A i, j \in 1 .. n : n - i + 1 = n - j + 1 => i = j
OBVIOUS

\* What Reverse returns.
LEMMA ReverseFacts ==
    ASSUME NEW S, NEW s \in Seq(S)
    PROVE  /\ Reverse(s) \in Seq(S) /\ Len(Reverse(s)) = Len(s)
           /\ \A i \in 1 .. Len(s) : Reverse(s)[i] = s[Len(s) - i + 1]
           /\ Reverse(Reverse(s)) = s
<1> DEFINE n == Len(s)
           r == Reverse(s)
<1>1. n \in Nat /\ DOMAIN s = 1 .. n /\ \A i \in 1 .. n : s[i] \in S
  OBVIOUS
<1>2. r = [i \in 1 .. n |-> s[n - i + 1]]
  BY <1>1 DEF Reverse
<1>3. r \in Seq(S) /\ Len(r) = n
  <2>1. r \in [1 .. n -> S]
    BY <1>1, <1>2, FromTheEnd
  <2>2. r \in Seq(S)
    BY <1>1, <2>1, SeqDef
  <2>3. DOMAIN r = 1 .. n
    BY <1>2
  <2> HIDE DEF r
  <2>4. QED
    BY <1>1, <2>2, <2>3, LenProperties
<1>4. \A i \in 1 .. n : r[i] = s[n - i + 1]
  BY <1>2
<1>5. Reverse(r) = [i \in 1 .. n |-> r[n - i + 1]]
  BY <1>3 DEF Reverse
<1> HIDE DEF r
<1>6. \A i \in 1 .. n : Reverse(r)[i] = s[i]
  BY <1>1, <1>4, <1>5, FromTheEnd
<1>7. Reverse(r) = s
  <2>1. DOMAIN Reverse(r) = 1 .. n
    BY <1>5
  <2>2. Reverse(r) = [i \in 1 .. n |-> Reverse(r)[i]]
    BY <1>5
  <2>3. s = [i \in 1 .. n |-> s[i]]
    BY <1>1
  <2>4. QED
    BY <1>6, <2>2, <2>3
<1>8. QED
  BY <1>3, <1>4, <1>7 DEF r

\* A rate does not depend on the order.
LEMMA RateReversed ==
    ASSUME NEW w \in Seq(BOOLEAN)
    PROVE  Rate(Reverse(w)) = Rate(w)
<1> DEFINE n == Len(w)
           r == Reverse(w)
           A == {i \in DOMAIN w : w[i]}
           B == {i \in DOMAIN r : r[i]}
           h == [i \in 1 .. n |-> n - i + 1]
<1>1. n \in Nat /\ DOMAIN w = 1 .. n
  OBVIOUS
<1>2. Len(r) = n /\ DOMAIN r = 1 .. n /\ \A i \in 1 .. n : r[i] = w[n - i + 1]
  BY ReverseFacts
<1>3. IsFiniteSet(A)
  <2>1. IsFiniteSet(1 .. n)
    <3>1. 1 \in Int /\ n \in Int
      BY <1>1
    <3> HIDE DEF n
    <3>2. QED
      BY <3>1, FS_Interval
  <2>2. A \subseteq 1 .. n
    BY <1>1
  <2> HIDE DEF A
  <2>3. QED
    BY <2>1, <2>2, FS_Subset
<1>4. \A i \in 1 .. n : h[i] = n - i + 1 /\ h[i] \in 1 .. n
  BY <1>1, FromTheEnd
<1> HIDE DEF h, r, n
<1>5. \A i \in A : h[i] \in B
  <2>1. ASSUME NEW i \in A PROVE h[i] \in B
    <3>1. i \in 1 .. n /\ w[i]
      BY <1>1
    <3>2. h[i] \in DOMAIN r /\ n - h[i] + 1 = i
      BY <1>1, <1>2, <1>4, <3>1, FromTheEnd
    <3>3. r[h[i]] = w[i]
      BY <1>2, <3>2
    <3>4. QED
      BY <3>1, <3>2, <3>3
  <2>2. QED
    BY <2>1
<1>6. \A i, j \in A : h[i] = h[j] => i = j
  BY <1>1, <1>4, FromTheEnd
<1>7. \A j \in B : \E i \in A : h[i] = j
  <2>1. ASSUME NEW j \in B PROVE \E i \in A : h[i] = j
    <3>1. j \in 1 .. n /\ r[j]
      BY <1>2
    <3>2. h[j] \in 1 .. n /\ h[h[j]] = j
      BY <1>1, <1>4, <3>1, FromTheEnd
    <3>3. w[h[j]]
      BY <1>2, <1>4, <3>1
    <3>4. h[j] \in A
      BY <1>1, <3>2, <3>3
    <3>5. QED
      BY <3>2, <3>4
  <2>2. QED
    BY <2>1
<1>8. Trues(w) = Cardinality(A) /\ Trues(r) = Cardinality(B)
  BY DEF Trues
<1> HIDE DEF A, B
<1>9. Cardinality(B) = Cardinality(A)
  BY <1>3, <1>5, <1>6, <1>7, Matched
<1>10. QED
  BY <1>2, <1>8, <1>9 DEF Rate, r, n

\* Nor does a sum.
LEMMA SumReversed ==
    ASSUME NEW n \in Nat, NEW f \in [1 .. n -> Nat], NEW g,
           DOMAIN g = 1 .. n, \A i \in 1 .. n : g[i] = f[n - i + 1]
    PROVE  Sum(g) = Sum(f)
<1> DEFINE D == 1 .. n
           T == [i \in D |-> 1 .. g[i]]
           M == UNION {{i} \X (1 .. f[i]) : i \in DOMAIN f}
           A == UNION {{i} \X T[i] : i \in D}
           h == [x \in A |-> <<n - x[1] + 1, x[2]>>]
<1>1. IsFiniteSet(D)
  <2>1. 1 \in Int /\ n \in Int
    OBVIOUS
  <2>2. QED
    BY <2>1, FS_Interval
<1>2. \A i \in D : n - i + 1 \in D /\ g[i] \in Nat /\ T[i] = 1 .. g[i]
  BY FromTheEnd
<1>3. ASSUME NEW i \in D PROVE IsFiniteSet(T[i]) /\ g[i] = Cardinality(T[i])
  <2>1. 1 \in Int /\ g[i] \in Int /\ g[i] \in Nat
    BY <1>2
  <2>2. IsFiniteSet(1 .. g[i]) /\ Cardinality(1 .. g[i]) = IF 1 > g[i] THEN 0 ELSE g[i] - 1 + 1
    BY <2>1, FS_Interval
  <2>3. QED
    BY <1>2, <2>1, <2>2
<1>4. \A i \in D : \A k \in T[i] : <<i, k>> \in A
  <2> HIDE DEF T, D
  <2>1. QED
    BY PairsAre
<1>5. \A i \in D : \A k \in T[i] : h[<<i, k>>] = <<n - i + 1, k>>
  <2> HIDE DEF T, D, A
  <2>1. QED
    BY <1>4
<1>6. /\ \A i \in D : \A k \in 1 .. f[i] : <<i, k>> \in M
      /\ \A x \in M : \E i \in D : \E k \in 1 .. f[i] : x = <<i, k>>
  <2> DEFINE U == [i \in D |-> 1 .. f[i]]
             B == UNION {{i} \X U[i] : i \in D}
  <2>1. M = B /\ \A i \in D : U[i] = 1 .. f[i]
    OBVIOUS
  <2>2. /\ \A i \in D : \A k \in U[i] : <<i, k>> \in B
        /\ \A x \in B : \E i \in D : \E k \in U[i] : x = <<i, k>>
    <3> HIDE DEF U, D
    <3>1. QED
      BY PairsAre
  <2> HIDE DEF U, D, B, M
  <2>3. QED
    BY <2>1, <2>2
<1>8. Sum(f) = Cardinality(M)
  BY DEF Sum
<1> HIDE DEF h, A, T, M
<1>9. ASSUME NEW i \in D, NEW k \in T[i] PROVE h[<<i, k>>] \in M
  <2>1. n - i + 1 \in D /\ k \in 1 .. f[n - i + 1]
    BY <1>2
  <2>2. QED
    BY <1>5, <1>6, <2>1
<1>10. ASSUME NEW i \in D, NEW j \in D, NEW k \in T[i], NEW m \in T[j],
              h[<<i, k>>] = h[<<j, m>>]
       PROVE  i = j /\ k = m
  <2>1. <<n - i + 1, k>> = <<n - j + 1, m>>
    BY <1>5, <1>10
  <2>2. n - i + 1 = n - j + 1 /\ k = m
    BY <2>1
  <2>3. QED
    BY <2>2, FromTheEnd
<1>11. ASSUME NEW x \in M PROVE \E i \in D : \E k \in T[i] : h[<<i, k>>] = x
  <2>1. PICK i \in D : \E k \in 1 .. f[i] : x = <<i, k>>
    BY <1>6
  <2>2. PICK k \in 1 .. f[i] : x = <<i, k>>
    BY <2>1
  <2> DEFINE j == n - i + 1
  <2>3. j \in D /\ n - j + 1 = i
    BY FromTheEnd
  <2> HIDE DEF j
  <2>4. T[j] = 1 .. f[i]
    BY <1>2, <2>3
  <2>5. h[<<j, k>>] = x
    BY <1>5, <2>2, <2>3, <2>4
  <2>6. QED
    BY <2>3, <2>4, <2>5
<1> HIDE DEF D
<1>12. DOMAIN g = D
  BY DEF D
<1>13. Sum(g) = Cardinality(M)
  <2>1. Sizes(D, T, g)
    BY <1>3, <1>12 DEF Sizes
  <2>2. Pairing(D, T, M, h)
    BY <1>9, <1>10, <1>11 DEF Pairing
  <2>3. QED
    BY <1>1, <2>1, <2>2, SumOfSizes
<1>14. QED
  BY <1>8, <1>13
-----------------------------------------------------------------------------
(* Results, and the rows of them in the tables. *)

\* A result as the statistics make it of a finished game.
IsResult(e) ==
    /\ e.completed_at \in Nat /\ e.had_bots \in BOOLEAN
    /\ \A x, y \in e.players : x.uuid = y.uuid => x = y
    /\ \A x \in e.players : x.won = (x.uuid = e.winner_uuid) /\ x.passes \in Nat
    /\ e.moves \in Seq([player : Uuids(e), cards : Nat])

\* Results of different games, completed at different times.
Games(G) ==
    /\ Timed(G)
    /\ \A e \in G : IsResult(e)
    /\ \A x, y \in G : x.game_id = y.game_id => x = y

\* What is handed in is such a result.
LEMMA HandedAreResults ==
    ASSUME NEW e \in Handed
    PROVE  IsResult(e) /\ e.completed_at \in Times
<1>1. PICK id \in 1 .. MaxGames, o \in Outcome, at \in Times, had_bots \in BOOLEAN :
          e = GameResult([id |-> id, players |-> o.players, winner |-> o.winner,
                          moves |-> o.moves], "room", 1, at, had_bots)
  BY DEF Handed
<1> DEFINE g == [id |-> id, players |-> o.players, winner |-> o.winner, moves |-> o.moves]
<1>2. g.players = o.players /\ g.winner = o.winner /\ g.moves = o.moves
  OBVIOUS
<1>3. e = GameResult(g, "room", 1, at, had_bots)
  BY <1>1
<1> HIDE DEF g
<1>4. /\ e.completed_at = at /\ e.had_bots = had_bots /\ e.winner_uuid = o.winner
      /\ e.players = {PlayerResult(g, i) : i \in DOMAIN o.players} /\ e.moves = o.moves
  BY <1>2, <1>3 DEF GameResult
<1>5. at \in Nat
  BY ReadsAssumption DEF Times
<1>6. o.moves \in Seq([player : {o.players[i].uuid : i \in DOMAIN o.players}, cards : Nat])
  BY OutcomeAssumption
<1>7. \A i \in DOMAIN o.players :
          /\ PlayerResult(g, i).uuid = o.players[i].uuid
          /\ PlayerResult(g, i).won = (o.players[i].uuid = o.winner)
          /\ PlayerResult(g, i).passes =
                Cardinality(TurnsOf(g, o.players[i].uuid)
                            \ {k \in TurnsOf(g, o.players[i].uuid) : IsPlay(g.moves[k])})
  BY <1>2 DEF PlayerResult, WinLoss
<1>8. ASSUME NEW T, T \subseteq DOMAIN o.moves PROVE Cardinality(T) \in Nat
  <2>1. DOMAIN o.moves = 1 .. Len(o.moves) /\ Len(o.moves) \in Int /\ 1 \in Int
    BY <1>6
  <2>2. IsFiniteSet(DOMAIN o.moves)
    BY <2>1, FS_Interval
  <2>3. QED
    BY <1>8, <2>2, FS_Subset, FS_CardinalityType
<1>9. \A i \in DOMAIN o.players : PlayerResult(g, i).passes \in Nat
  <2>1. \A p : TurnsOf(g, p) \subseteq DOMAIN o.moves
    BY <1>2 DEF TurnsOf
  <2>2. QED
    BY <1>7, <1>8, <2>1
<1>10. \A i, j \in DOMAIN o.players : o.players[i].uuid = o.players[j].uuid => i = j
  BY OutcomeAssumption
<1>14. \A x \in e.players : \E i \in DOMAIN o.players : x = PlayerResult(g, i)
  BY <1>4
<1>15. \A i \in DOMAIN o.players : PlayerResult(g, i).uuid = o.players[i].uuid
  BY <1>7
<1>11. ASSUME NEW x \in e.players, NEW y \in e.players, x.uuid = y.uuid PROVE x = y
  <2>1. PICK i \in DOMAIN o.players : x = PlayerResult(g, i)
    BY <1>14
  <2>2. PICK j \in DOMAIN o.players : y = PlayerResult(g, j)
    BY <1>14
  <2>3. i = j
    BY <1>10, <1>11, <1>15, <2>1, <2>2
  <2>4. QED
    BY <2>1, <2>2, <2>3
<1>12. ASSUME NEW x \in e.players
       PROVE  x.won = (x.uuid = e.winner_uuid) /\ x.passes \in Nat
  <2>1. PICK i \in DOMAIN o.players : x = PlayerResult(g, i)
    BY <1>14
  <2>2. x.won = (o.players[i].uuid = o.winner)
    BY <1>7, <2>1
  <2>3. x.uuid = o.players[i].uuid /\ e.winner_uuid = o.winner
    BY <1>4, <1>15, <2>1
  <2>4. x.passes \in Nat
    BY <1>9, <2>1
  <2>5. x.won = (x.uuid = e.winner_uuid)
    BY <2>2, <2>3, Zenon
  <2>6. QED
    BY <2>4, <2>5
<1>13. Uuids(e) = {o.players[i].uuid : i \in DOMAIN o.players}
  BY <1>4, <1>14, <1>15 DEF Uuids
<1>16. QED
  BY <1>4, <1>5, <1>6, <1>11, <1>12, <1>13 DEF IsResult

\* A result has one row for each of its players.
LEMMA OwnPlayer ==
    ASSUME NEW e, IsResult(e), NEW p
    PROVE  /\ \A x \in e.players : x.uuid = p => x = ResultOf(e, p)
           /\ p \in Uuids(e) =>
                 /\ ResultOf(e, p) \in e.players /\ ResultOf(e, p).uuid = p
                 /\ ResultOf(e, p).won = (e.winner_uuid = p)
                 /\ ResultOf(e, p).passes \in Nat
<1>1. \A x \in e.players : x.uuid = p => x = ResultOf(e, p)
  BY DEF IsResult, ResultOf
<1>2. ASSUME p \in Uuids(e)
      PROVE  ResultOf(e, p) \in e.players /\ ResultOf(e, p).uuid = p
  <2>1. PICK x \in e.players : x.uuid = p
    BY <1>2 DEF Uuids
  <2>2. x = ResultOf(e, p)
    BY <1>1, <2>1
  <2>3. QED
    BY <2>1, <2>2
<1>3. QED
  BY <1>1, <1>2 DEF IsResult

\* A player's games, and the row of a player in a game.
Mine(G, p) == {g \in G : p \in Uuids(g)}
OwnRow(g, p) == [game_id |-> g.game_id, player |-> ResultOf(g, p)]

\* What the tables of some results answer.
LEMMA RowsFacts ==
    ASSUME NEW G, Games(G)
    PROVE  LET T == RowsOf(G) IN
           /\ \A g \in G : GameOf(T, g.game_id) = GameRow(g)
           /\ \A g \in G : PlayersOf(T, g.game_id) = g.players
           /\ \A id : (\A g \in G : g.game_id # id) => PlayersOf(T, id) = {}
           /\ \A p : {row \in T.players : row.player.uuid = p}
                     = {OwnRow(g, p) : g \in Mine(G, p)}
<1> DEFINE T == RowsOf(G)
<1>1. T.games = {GameRow(x) : x \in G}
  BY DEF RowsOf
<1>2. \A g : GameRow(g).game_id = g.game_id
  BY DEF GameRow
<1>3. T.players = UNION {PlayerRows(x) : x \in G}
  BY DEF RowsOf
<1> HIDE DEF T
<1>4. /\ \A row \in T.players : \E g \in G : \E x \in g.players :
                row = [game_id |-> g.game_id, player |-> x]
      /\ \A g \in G : \A x \in g.players : [game_id |-> g.game_id, player |-> x] \in T.players
  <2>1. ASSUME NEW row \in T.players
        PROVE  \E g \in G : \E x \in g.players : row = [game_id |-> g.game_id, player |-> x]
    <3>1. PICK g \in G : row \in PlayerRows(g)
      BY <1>3
    <3>2. QED
      BY <3>1 DEF PlayerRows
  <2>2. ASSUME NEW g \in G, NEW x \in g.players
        PROVE  [game_id |-> g.game_id, player |-> x] \in T.players
    <3>1. [game_id |-> g.game_id, player |-> x] \in PlayerRows(g)
      BY DEF PlayerRows
    <3>2. QED
      BY <1>3, <3>1
  <2>3. QED
    BY <2>1, <2>2
<1>5. ASSUME NEW g \in G PROVE GameOf(T, g.game_id) = GameRow(g)
  <2>1. GameRow(g) \in T.games /\ GameRow(g).game_id = g.game_id
    BY <1>1, <1>2
  <2>2. ASSUME NEW row \in T.games, row.game_id = g.game_id PROVE row = GameRow(g)
    <3>1. PICK x \in G : row = GameRow(x)
      BY <1>1
    <3>2. x = g
      BY <1>2, <2>2, <3>1 DEF Games
    <3>3. QED
      BY <3>1, <3>2
  <2>3. QED
    BY <2>1, <2>2 DEF GameOf
<1>6. ASSUME NEW g \in G PROVE PlayersOf(T, g.game_id) = g.players
  <2> DEFINE mine == {x \in T.players : x.game_id = g.game_id}
  <2>1. ASSUME NEW row \in mine PROVE row.player \in g.players
    <3>1. PICK h \in G : \E x \in h.players : row = [game_id |-> h.game_id, player |-> x]
      BY <1>4
    <3>2. h = g
      BY <3>1 DEF Games
    <3>3. QED
      BY <3>1, <3>2
  <2>2. ASSUME NEW x \in g.players PROVE \E row \in mine : row.player = x
    <3>1. [game_id |-> g.game_id, player |-> x] \in mine
      BY <1>4
    <3>2. QED
      BY <3>1
  <2>3. PlayersOf(T, g.game_id) = {row.player : row \in mine}
    BY DEF PlayersOf
  <2> HIDE DEF mine
  <2>4. QED
    BY <2>1, <2>2, <2>3
<1>7. ASSUME NEW id, \A g \in G : g.game_id # id PROVE PlayersOf(T, id) = {}
  <2>1. {x \in T.players : x.game_id = id} = {}
    BY <1>4, <1>7
  <2>2. QED
    BY <2>1 DEF PlayersOf
<1>8. ASSUME NEW p
      PROVE  {row \in T.players : row.player.uuid = p} = {OwnRow(g, p) : g \in Mine(G, p)}
  <2>1. ASSUME NEW row \in T.players, row.player.uuid = p
        PROVE  \E g \in Mine(G, p) : row = OwnRow(g, p)
    <3>1. PICK g \in G : \E x \in g.players : row = [game_id |-> g.game_id, player |-> x]
      BY <1>4
    <3>2. PICK x \in g.players : row = [game_id |-> g.game_id, player |-> x]
      BY <3>1
    <3>3. x.uuid = p
      BY <2>1, <3>2
    <3>4. x = ResultOf(g, p) /\ p \in Uuids(g)
      BY <3>3, OwnPlayer DEF Uuids, Games
    <3>5. QED
      BY <3>2, <3>4 DEF OwnRow, Mine
  <2>2. ASSUME NEW g \in Mine(G, p)
        PROVE  OwnRow(g, p) \in T.players /\ OwnRow(g, p).player.uuid = p
    <3>1. g \in G /\ ResultOf(g, p) \in g.players /\ ResultOf(g, p).uuid = p
      BY OwnPlayer DEF Mine, Games
    <3>2. QED
      BY <1>4, <3>1 DEF OwnRow
  <2>3. QED
    BY <2>1, <2>2
<1>9. QED
  BY <1>5, <1>6, <1>7, <1>8 DEF T

\* Rows made of others, of the same times, come in the same order.
LEMMA MappedRows ==
    ASSUME NEW A, Timed(A), NEW h, NEW B,
           \A a \in A : h[a] \in B /\ h[a].completed_at = a.completed_at,
           \A b \in B : \E a \in A : h[a] = b
    PROVE  /\ Timed(B) /\ Len(Oldest(B)) = Len(Oldest(A))
           /\ \A i \in 1 .. Len(Oldest(A)) : Oldest(B)[i] = h[Oldest(A)[i]]
<1> DEFINE s == Oldest(A)
           n == Len(s)
           t == [i \in 1 .. n |-> h[s[i]]]
<1>1. Lists(s, A) /\ n \in Nat
  BY OldestLists DEF Lists
<1>2. /\ \A i \in 1 .. n : s[i] \in A
      /\ \A a \in A : \E i \in 1 .. n : s[i] = a
      /\ \A i, j \in 1 .. n : i < j => s[i].completed_at < s[j].completed_at
  BY <1>1 DEF Lists
<1>3. Timed(B)
  <2>1. IsFiniteSet(B)
    <3> DEFINE f == [a \in A |-> h[a]]
    <3>1. f \in Surjection(A, B)
      BY DEF Surjection
    <3> HIDE DEF f
    <3>2. IsFiniteSet(A)
      BY DEF Timed
    <3>3. QED
      BY <3>1, <3>2, FS_Surjection
  <2>2. \A b \in B : \E a \in A : h[a] = b /\ b.completed_at = a.completed_at
    OBVIOUS
  <2>3. QED
    BY <2>1, <2>2 DEF Timed
<1>4. t \in Seq(B) /\ Len(t) = n
  <2>1. t \in [1 .. n -> B]
    BY <1>2
  <2>2. t \in Seq(B) /\ DOMAIN t = 1 .. n
    BY <1>1, <2>1, SeqDef
  <2> HIDE DEF t
  <2>3. QED
    BY <1>1, <2>2, LenProperties
<1>5. \A i \in 1 .. n : t[i] = h[s[i]]
  OBVIOUS
<1> HIDE DEF t, n, s
<1>6. \A b \in B : \E i \in 1 .. n : t[i] = b
  BY <1>2, <1>5
<1>7. \A i, j \in 1 .. n : i < j => t[i].completed_at < t[j].completed_at
  BY <1>2, <1>5
<1>8. Lists(t, B)
  BY <1>4, <1>6, <1>7 DEF Lists
<1>9. t = Oldest(B)
  BY <1>3, <1>8, OneOrder
<1>10. QED
  BY <1>3, <1>4, <1>5, <1>9 DEF s, n

\* A player's row of a game as the profile reads it.
HistoryRow(g, p) ==
    [won |-> ResultOf(g, p).won, passes |-> ResultOf(g, p).passes,
     completed_at |-> g.completed_at, had_bots |-> g.had_bots]

\* Any of these games are such games.
LEMMA SomeGames ==
    ASSUME NEW G, Games(G), NEW S \in SUBSET G
    PROVE  Games(S)
<1>1. IsFiniteSet(S)
  BY FS_Subset DEF Games, Timed
<1>2. QED
  BY <1>1 DEF Games, Timed

\* The rows of a player's games, newest first.
LEMMA HistoryInOrder ==
    ASSUME NEW G, Games(G), NEW p, NEW f \in Filter
    PROVE  LET S == Selected(Mine(G, p), f)
               O == Oldest(S)
               n == Len(O)
               N == HistoryRows(RowsOf(G), p, f)
           IN  /\ Games(S) /\ Lists(O, S) /\ n \in Nat /\ n = Cardinality(S)
               /\ DOMAIN N = 1 .. n /\ Len(N) = n /\ (N = <<>> <=> n = 0)
               /\ \A i \in 1 .. n :
                     /\ N[i].won = (O[n - i + 1].winner_uuid = p)
                     /\ N[i].passes = ResultOf(O[n - i + 1], p).passes
<1> DEFINE S == Selected(Mine(G, p), f)
           O == Oldest(S)
           n == Len(O)
           T == RowsOf(G)
           mine == {row \in T.players : row.player.uuid = p}
           Row(row) == [won |-> row.player.won, passes |-> row.player.passes,
                        completed_at |-> GameOf(T, row.game_id).completed_at,
                        had_bots |-> GameOf(T, row.game_id).had_bots]
           h == [g \in S |-> HistoryRow(g, p)]
           B == {h[g] : g \in S}
           N == HistoryRows(T, p, f)
<1>1. S \subseteq Mine(G, p) /\ S \subseteq G
  BY DEF Selected, Mine
<1>2. Games(S)
  <2> HIDE DEF S
  <2>1. QED
    BY <1>1, SomeGames
<1>3. mine = {OwnRow(g, p) : g \in Mine(G, p)}
  BY RowsFacts
<1>4. ASSUME NEW g \in Mine(G, p) PROVE Row(OwnRow(g, p)) = HistoryRow(g, p)
  <2>1. OwnRow(g, p).player = ResultOf(g, p) /\ OwnRow(g, p).game_id = g.game_id
    BY DEF OwnRow
  <2>2. GameOf(T, g.game_id) = GameRow(g)
    BY RowsFacts DEF Mine
  <2>3. GameRow(g).completed_at = g.completed_at /\ GameRow(g).had_bots = g.had_bots
    BY DEF GameRow
  <2> HIDE DEF T
  <2>4. QED
    BY <2>1, <2>2, <2>3 DEF HistoryRow
<1>5. \A g : HistoryRow(g, p).had_bots = g.had_bots
             /\ HistoryRow(g, p).completed_at = g.completed_at
             /\ HistoryRow(g, p).won = ResultOf(g, p).won
             /\ HistoryRow(g, p).passes = ResultOf(g, p).passes
  BY DEF HistoryRow
<1>6. N = Newest({row \in {Row(row) : row \in mine} : Matches(f, row.had_bots)})
  BY DEF HistoryRows
<1>7. \A g \in S : h[g] = HistoryRow(g, p)
  OBVIOUS
<1>8. {row \in {Row(row) : row \in mine} : Matches(f, row.had_bots)} = B
  <2> HIDE DEF Row, mine, h, T
  <2>1. {Row(row) : row \in mine} = {HistoryRow(g, p) : g \in Mine(G, p)}
    BY <1>3, <1>4
  <2>2. ASSUME NEW x, x \in {HistoryRow(g, p) : g \in Mine(G, p)}, Matches(f, x.had_bots)
        PROVE  x \in B
    <3>1. PICK g \in Mine(G, p) : x = HistoryRow(g, p)
      BY <2>2
    <3>2. g \in S
      BY <1>5, <2>2, <3>1 DEF Selected
    <3> HIDE DEF S
    <3>3. QED
      BY <1>7, <3>1, <3>2
  <2>3. ASSUME NEW x \in B
        PROVE  x \in {HistoryRow(g, p) : g \in Mine(G, p)} /\ Matches(f, x.had_bots)
    <3>1. PICK g \in S : x = HistoryRow(g, p)
      <4> HIDE DEF S
      <4>1. QED
        BY <1>7
    <3>2. g \in Mine(G, p) /\ Matches(f, g.had_bots)
      BY DEF Selected
    <3>3. QED
      BY <1>5, <3>1, <3>2
  <2> HIDE DEF B
  <2>4. QED
    BY <2>1, <2>2, <2>3
<1> HIDE DEF h, S
<1>9. /\ Timed(B) /\ Len(Oldest(B)) = n
      /\ \A i \in 1 .. n : Oldest(B)[i] = h[O[i]]
  <2>1. \A b \in B : \E g \in S : h[g] = b
    OBVIOUS
  <2>2. \A g \in S : h[g] \in B /\ h[g].completed_at = g.completed_at
    BY <1>5, <1>7
  <2>3. Timed(S)
    BY <1>2 DEF Games
  <2> HIDE DEF B
  <2>4. QED
    BY <2>1, <2>2, <2>3, MappedRows
<1>10. Lists(O, S) /\ n \in Nat /\ n = Cardinality(S) /\ \A i \in 1 .. n : O[i] \in S
  BY <1>2, OldestLists DEF Games, Lists
<1>11. N = Reverse(Oldest(B)) /\ Oldest(B) \in Seq(B)
  BY <1>6, <1>8, <1>9, OldestLists DEF Newest, Lists
<1> HIDE DEF N, B, T, O
<1>12. N \in Seq(B) /\ Len(N) = n /\ \A i \in 1 .. n : N[i] = Oldest(B)[n - i + 1]
  BY <1>9, <1>11, ReverseFacts
<1> HIDE DEF n
<1>13. ASSUME NEW i \in 1 .. n
       PROVE  /\ N[i].won = (O[n - i + 1].winner_uuid = p)
              /\ N[i].passes = ResultOf(O[n - i + 1], p).passes
  <2> DEFINE k == n - i + 1
  <2>1. k \in 1 .. n
    BY <1>10, FromTheEnd
  <2>2. N[i] = Oldest(B)[k]
    BY <1>12
  <2> HIDE DEF k
  <2>3. N[i] = HistoryRow(O[k], p)
    BY <1>7, <1>9, <1>10, <2>1, <2>2
  <2>4. O[k] \in G /\ p \in Uuids(O[k])
    BY <1>1, <1>10, <2>1 DEF Mine
  <2>5. ResultOf(O[k], p).won = (O[k].winner_uuid = p)
    BY <2>4, OwnPlayer DEF Games
  <2>6. QED
    BY <1>5, <2>3, <2>5 DEF k
<1>14. N = <<>> <=> n = 0
  BY <1>12, EmptySeq
<1>15. QED
  BY <1>2, <1>10, <1>12, <1>13, <1>14 DEF S, O, n, N, T

\* How often a player won, newest first, is the reverse of oldest first.
LEMMA WinsInOrder ==
    ASSUME NEW G, Games(G), NEW p, NEW f \in Filter
    PROVE  LET wins == WinsIn(Oldest(Selected(Mine(G, p), f)), p)
               rows == HistoryRows(RowsOf(G), p, f)
           IN  wins \in Seq(BOOLEAN) /\ Won(rows) = Reverse(wins)
<1> DEFINE O == Oldest(Selected(Mine(G, p), f))
           n == Len(O)
           N == HistoryRows(RowsOf(G), p, f)
           wins == WinsIn(O, p)
<1>1. /\ n \in Nat /\ O \in Seq(Selected(Mine(G, p), f)) /\ DOMAIN N = 1 .. n
      /\ \A i \in 1 .. n : N[i].won = (O[n - i + 1].winner_uuid = p)
  BY HistoryInOrder DEF Lists
<1>2. DOMAIN O = 1 .. n
  BY <1>1
<1> HIDE DEF N, O, n
<1>3. wins = [i \in 1 .. n |-> O[i].winner_uuid = p]
  BY <1>2 DEF WinsIn
<1>4. wins \in Seq(BOOLEAN) /\ Len(wins) = n
  <2>1. wins \in [1 .. n -> BOOLEAN] /\ DOMAIN wins = 1 .. n
    BY <1>3
  <2> HIDE DEF wins
  <2>2. wins \in Seq(BOOLEAN)
    BY <1>1, <2>1, SeqDef
  <2>3. QED
    BY <1>1, <2>1, <2>2, LenProperties
<1>5. Won(N) = [i \in 1 .. n |-> O[n - i + 1].winner_uuid = p]
  BY <1>1 DEF Won
<1>6. Reverse(wins) = [i \in 1 .. n |-> wins[n - i + 1]]
  BY <1>4 DEF Reverse
<1>7. \A i \in 1 .. n : wins[n - i + 1] = (O[n - i + 1].winner_uuid = p)
  BY <1>1, <1>3, FromTheEnd
<1>8. Won(N) = Reverse(wins)
  BY <1>5, <1>6, <1>7
<1>9. QED
  BY <1>4, <1>8 DEF N, O
-----------------------------------------------------------------------------
(* What is read of the same results from the store and from the tables. *)

\* A player's passes in some games, summed in either order.
LEMMA PassesAgree ==
    ASSUME NEW G, Games(G), NEW p, NEW f \in Filter
    PROVE  LET O == Oldest(Selected(Mine(G, p), f))
               N == HistoryRows(RowsOf(G), p, f)
           IN  Sum([i \in DOMAIN O |-> ResultOf(O[i], p).passes])
               = Sum([i \in DOMAIN N |-> N[i].passes])
<1> DEFINE S == Selected(Mine(G, p), f)
           O == Oldest(S)
           n == Len(O)
           N == HistoryRows(RowsOf(G), p, f)
           F == [i \in DOMAIN O |-> ResultOf(O[i], p).passes]
           R == [i \in DOMAIN N |-> N[i].passes]
<1>1. /\ n \in Nat /\ O \in Seq(S) /\ DOMAIN N = 1 .. n
      /\ \A i \in 1 .. n : N[i].passes = ResultOf(O[n - i + 1], p).passes
  BY HistoryInOrder DEF Lists
<1>2. DOMAIN O = 1 .. n /\ \A i \in 1 .. n : O[i] \in S
  BY <1>1
<1>3. \A g \in S : ResultOf(g, p).passes \in Nat
  BY OwnPlayer DEF Selected, Mine, Games
<1> HIDE DEF S, O, N, n
<1>4. F \in [1 .. n -> Nat] /\ \A i \in 1 .. n : F[i] = ResultOf(O[i], p).passes
  BY <1>2, <1>3
<1>5. DOMAIN R = 1 .. n /\ \A i \in 1 .. n : R[i] = N[i].passes
  BY <1>1
<1> HIDE DEF F, R
<1>6. \A i \in 1 .. n : R[i] = F[n - i + 1]
  BY <1>1, <1>4, <1>5, FromTheEnd
<1>7. Sum(R) = Sum(F)
  BY <1>1, <1>4, <1>5, <1>6, SumReversed
<1>8. QED
  BY <1>7 DEF R, F, N, O, S

\* A player's plays of a length: counted game by game, or as rows of all games.
LEMMA PlaysAgree ==
    ASSUME NEW G, Games(G), NEW p, NEW f \in Filter, NEW m \in Lengths
    PROVE  LET O == Oldest(Selected(Mine(G, p), f)) IN
           Sum([i \in DOMAIN O |-> PlayTypeBreakdown(O[i], p)[m]])
           = MovesOfLength(RowsOf(G), p, f, m)
<1> DEFINE S == Selected(Mine(G, p), f)
           O == Oldest(S)
           D == DOMAIN O
           F == [i \in D |-> PlayTypeBreakdown(O[i], p)[m]]
           Plays(g) == {k \in DOMAIN g.moves : g.moves[k].player = p /\ g.moves[k].cards = m}
           P == [i \in D |-> Plays(O[i])]
           T == RowsOf(G)
           M == {mv \in T.moves : /\ mv.player = p /\ mv.cards = m
                                  /\ Matches(f, GameOf(T, mv.game_id).had_bots)}
           h == [x \in UNION {{i} \X P[i] : i \in D} |-> MoveRow(O[x[1]], x[2])]
<1>1. O \in Seq(S) /\ Lists(O, S) /\ Len(O) \in Nat /\ Games(S)
  BY HistoryInOrder DEF Lists
<1>2. /\ D = 1 .. Len(O) /\ \A i \in D : O[i] \in S
      /\ \A g \in S : \E i \in D : O[i] = g
      /\ \A i, j \in D : O[i] = O[j] => i = j
  <2>1. D = 1 .. Len(O) /\ \A i \in D : O[i] \in S
    BY <1>1
  <2>2. \A g \in S : \E i \in D : O[i] = g
    BY <1>1, <2>1 DEF Lists
  <2>3. \A i, j \in D : i < j => O[i].completed_at < O[j].completed_at
    BY <1>1, <2>1 DEF Lists
  <2>4. \A i \in D : O[i].completed_at \in Int
    BY <1>1, <2>1 DEF Games, Timed
  <2>5. ASSUME NEW i \in D, NEW j \in D, i < j PROVE O[i] # O[j]
    BY <2>3, <2>4, <2>5
  <2>6. \A i, j \in D : i = j \/ i < j \/ j < i
    BY <1>1, <2>1
  <2> HIDE DEF D, O
  <2>7. QED
    BY <2>1, <2>2, <2>5, <2>6
<1>3. S \subseteq G /\ \A g \in G : g \in S <=> p \in Uuids(g) /\ Matches(f, g.had_bots)
  BY DEF Selected, Mine
<1>4. IsFiniteSet(D)
  <2>1. 1 \in Int /\ Len(O) \in Int
    BY <1>1
  <2>2. IsFiniteSet(1 .. Len(O))
    BY <2>1, FS_Interval
  <2>3. QED
    BY <1>2, <2>2
<1>5. \A g : IsResult(g) => IsFiniteSet(Plays(g))
  <2>1. ASSUME NEW g, IsResult(g) PROVE IsFiniteSet(Plays(g))
    <3>1. g.moves \in Seq([player : Uuids(g), cards : Nat])
      BY <2>1 DEF IsResult
    <3>2. DOMAIN g.moves = 1 .. Len(g.moves) /\ Len(g.moves) \in Int /\ 1 \in Int
      BY <3>1
    <3>3. IsFiniteSet(DOMAIN g.moves)
      BY <3>2, FS_Interval
    <3>4. QED
      BY <3>3, FS_Subset
  <2>2. QED
    BY <2>1
<1>6. \A g : PlayTypeBreakdown(g, p)[m] = Cardinality(Plays(g))
  BY DEF PlayTypeBreakdown, PlaysOfLength
<1>7. /\ \A row \in T.moves : \E g \in G : \E k \in DOMAIN g.moves : row = MoveRow(g, k)
      /\ \A g \in G : \A k \in DOMAIN g.moves : MoveRow(g, k) \in T.moves
  <2>1. T.moves = UNION {MoveRows(x) : x \in G}
    BY DEF RowsOf
  <2> HIDE DEF T
  <2>2. \A g : MoveRows(g) = {MoveRow(g, k) : k \in DOMAIN g.moves}
    BY DEF MoveRows
  <2>3. QED
    BY <2>1, <2>2
<1>8. \A g, k : /\ MoveRow(g, k).game_id = g.game_id /\ MoveRow(g, k).sequence = k
                /\ MoveRow(g, k).player = g.moves[k].player
                /\ MoveRow(g, k).cards = g.moves[k].cards
  BY DEF MoveRow
<1>9. \A g \in G : GameOf(T, g.game_id).had_bots = g.had_bots
  <2>1. \A g \in G : GameOf(T, g.game_id) = GameRow(g)
    BY RowsFacts
  <2>2. \A g : GameRow(g).had_bots = g.had_bots
    BY DEF GameRow
  <2> HIDE DEF T
  <2>3. QED
    BY <2>1, <2>2
<1>10. Sizes(D, P, F)
  <2> HIDE DEF S, O, D
  <2>1. \A i \in D : IsResult(O[i])
    BY <1>1, <1>2 DEF Games
  <2>2. \A i \in D : P[i] = Plays(O[i]) /\ F[i] = Cardinality(Plays(O[i]))
    BY <1>6
  <2>3. DOMAIN F = D
    OBVIOUS
  <2> HIDE DEF P, F, Plays
  <2>4. QED
    BY <1>5, <2>1, <2>2, <2>3 DEF Sizes
<1>11. \A i \in D : \A k : k \in P[i] <=>
           k \in DOMAIN O[i].moves /\ O[i].moves[k].player = p /\ O[i].moves[k].cards = m
  <2> HIDE DEF S, O, D
  <2>1. QED
    OBVIOUS
<1>12. \A row : row \in M <=> /\ row \in T.moves /\ row.player = p /\ row.cards = m
                              /\ Matches(f, GameOf(T, row.game_id).had_bots)
  OBVIOUS
<1>13. \A i \in D : \A k \in P[i] : h[<<i, k>>] = MoveRow(O[i], k)
  <2> HIDE DEF P, D, O
  <2>1. \A i \in D : \A k \in P[i] : <<i, k>> \in UNION {{j} \X P[j] : j \in D}
    BY PairsAre
  <2>2. QED
    BY <2>1
<1> HIDE DEF h, M, P, D, O, T, S, Plays
<1>14. Pairing(D, P, M, h)
  <2>1. ASSUME NEW i \in D, NEW k \in P[i] PROVE h[<<i, k>>] \in M
    <3> DEFINE g == O[i]
    <3>1. g \in S /\ g \in G /\ k \in DOMAIN g.moves /\ g.moves[k].player = p
          /\ g.moves[k].cards = m
      BY <1>2, <1>3, <1>11
    <3>2. h[<<i, k>>] = MoveRow(g, k)
      BY <1>13
    <3> HIDE DEF g
    <3>3. MoveRow(g, k) \in T.moves /\ Matches(f, GameOf(T, g.game_id).had_bots)
      BY <1>3, <1>7, <1>9, <3>1
    <3>4. QED
      BY <1>8, <1>12, <3>1, <3>2, <3>3
  <2>2. ASSUME NEW i \in D, NEW j \in D, NEW k \in P[i], NEW l \in P[j],
               h[<<i, k>>] = h[<<j, l>>]
        PROVE  i = j /\ k = l
    <3>1. MoveRow(O[i], k) = MoveRow(O[j], l)
      BY <1>13, <2>2
    <3>2. O[i].game_id = O[j].game_id /\ k = l
      BY <1>8, <3>1
    <3>3. O[i] = O[j]
      BY <1>1, <1>2, <3>2 DEF Games
    <3>4. QED
      BY <1>2, <3>2, <3>3
  <2>3. ASSUME NEW row \in M PROVE \E i \in D : \E k \in P[i] : h[<<i, k>>] = row
    <3>1. /\ row \in T.moves /\ row.player = p /\ row.cards = m
          /\ Matches(f, GameOf(T, row.game_id).had_bots)
      BY <1>12
    <3>2. PICK g \in G : \E k \in DOMAIN g.moves : row = MoveRow(g, k)
      BY <1>7, <3>1
    <3>3. PICK k \in DOMAIN g.moves : row = MoveRow(g, k)
      BY <3>2
    <3>4. g.moves[k].player = p /\ g.moves[k].cards = m /\ Matches(f, g.had_bots)
      BY <1>8, <1>9, <3>1, <3>3
    <3>5. p \in Uuids(g)
      <4>1. g.moves \in Seq([player : Uuids(g), cards : Nat])
        BY DEF Games, IsResult
      <4>2. \A U : g.moves \in Seq(U) => g.moves[k] \in U
        BY <3>3
      <4>3. g.moves[k] \in [player : Uuids(g), cards : Nat]
        BY <4>1, <4>2
      <4>4. QED
        BY <3>4, <4>3
    <3>6. PICK i \in D : O[i] = g
      BY <1>2, <1>3, <3>4, <3>5
    <3>7. k \in P[i]
      BY <1>11, <3>3, <3>4, <3>6
    <3>8. QED
      BY <1>13, <3>3, <3>6, <3>7
  <2>4. QED
    BY <2>1, <2>2, <2>3 DEF Pairing
<1>15. Sum(F) = Cardinality(M)
  BY <1>4, <1>10, <1>14, SumOfSizes
<1>16. QED
  BY <1>15 DEF F, M, D, O, T, S, MovesOfLength

\* Over the same games both repositories make the same profile.
LEMMA ProfilesAgree ==
    ASSUME NEW G, Games(G), NEW st, NEW p, StoredOf(st, p) = Mine(G, p), NEW f \in Filter
    PROVE  MemoryProfile(st, p, f) = PostgresProfile(RowsOf(G), p, f)
<1> DEFINE all == Mine(G, p)
           T == RowsOf(G)
           Wins(k) == WinsIn(Oldest(Selected(all, k)), p)
           Rows(k) == HistoryRows(T, p, k)
           O == Oldest(Selected(all, f))
<1>1. "all" \in Filter /\ "human_only" \in Filter /\ "with_bots" \in Filter
  BY DEF Filter
<1>2. ASSUME NEW k \in Filter
      PROVE  /\ Wins(k) \in Seq(BOOLEAN) /\ Won(Rows(k)) = Reverse(Wins(k))
             /\ Rate(Won(Rows(k))) = Rate(Wins(k))
  <2>1. Wins(k) \in Seq(BOOLEAN) /\ Won(Rows(k)) = Reverse(Wins(k))
    BY WinsInOrder
  <2> HIDE DEF Wins, Rows
  <2>2. QED
    BY <2>1, RateReversed
<1>3. Reverse(Won(Rows(f))) = Wins(f)
  <2> HIDE DEF Wins, Rows
  <2>1. QED
    BY <1>2, ReverseFacts
<1>4. Rows("all") = <<>> <=> all = {}
  <2>1. Selected(all, "all") = all
    BY DEF Selected, Matches
  <2>2. /\ Rows("all") = <<>> <=> Len(Oldest(all)) = 0
        /\ Len(Oldest(all)) = Cardinality(all) /\ Games(all)
    BY <1>1, <2>1, HistoryInOrder
  <2>3. IsFiniteSet(all)
    BY <2>2 DEF Games, Timed
  <2> HIDE DEF all
  <2>4. QED
    BY <2>2, <2>3, FS_EmptySet
<1>5. MemoryPlayStyle(O, p)
      = [passes |-> Sum([i \in DOMAIN Rows(f) |-> Rows(f)[i].passes]),
         plays |-> [n \in Lengths |-> MovesOfLength(T, p, f, n)]]
  <2>1. Sum([i \in DOMAIN O |-> ResultOf(O[i], p).passes])
        = Sum([i \in DOMAIN Rows(f) |-> Rows(f)[i].passes])
    BY PassesAgree
  <2>2. \A n \in Lengths : Sum([i \in DOMAIN O |-> PlayTypeBreakdown(O[i], p)[n]])
                           = MovesOfLength(T, p, f, n)
    BY PlaysAgree
  <2> HIDE DEF O, Rows, T
  <2>3. QED
    BY <2>1, <2>2 DEF MemoryPlayStyle
<1>6. MemoryProfile(st, p, f) =
        IF all = {} THEN NoProfile
        ELSE [summary |-> Rate(Wins(f)), streaks |-> Streaks(Wins(f)),
              style |-> MemoryPlayStyle(O, p),
              human_only |-> Rate(Wins("human_only")),
              with_bots |-> Rate(Wins("with_bots")),
              short |-> Rate(Window(Reverse(Wins(f)), ShortForm)),
              long |-> Rate(Window(Reverse(Wins(f)), LongForm))]
  BY DEF MemoryProfile
<1>7. PostgresProfile(T, p, f) =
        IF Rows("all") = <<>> THEN NoProfile
        ELSE [summary |-> Rate(Won(Rows(f))), streaks |-> Streaks(Reverse(Won(Rows(f)))),
              style |-> [passes |-> Sum([i \in DOMAIN Rows(f) |-> Rows(f)[i].passes]),
                         plays |-> [n \in Lengths |-> MovesOfLength(T, p, f, n)]],
              human_only |-> Rate(Won(Rows("human_only"))),
              with_bots |-> Rate(Won(Rows("with_bots"))),
              short |-> Rate(Window(Won(Rows(f)), ShortForm)),
              long |-> Rate(Window(Won(Rows(f)), LongForm))]
  BY DEF PostgresProfile
<1> HIDE DEF Wins, Rows, O, all, T
<1>8. QED
  BY <1>1, <1>2, <1>3, <1>4, <1>5, <1>6, <1>7 DEF T

\* A player's games before a time, as they are listed.
RecentGames(G, p, before, f) ==
    {g \in Mine(G, p) : g.completed_at < before /\ Matches(f, g.had_bots)}
RecentSummaries(G, p, before, f) == {MemorySummary(g, p) : g \in RecentGames(G, p, before, f)}

\* What the store lists as recent,
LEMMA RecentFromStore ==
    ASSUME NEW G, NEW st, NEW p, StoredOf(st, p) = Mine(G, p),
           NEW limit, NEW before, NEW f
    PROVE  MemoryRecent(st, p, limit, before, f)
           = Page(Newest(RecentSummaries(G, p, before, f)), limit)
BY DEF MemoryRecent, RecentSummaries, RecentGames

\* and what the tables list, are the same summaries.
LEMMA RecentFromTables ==
    ASSUME NEW G, Games(G), NEW p, NEW limit, NEW before, NEW f
    PROVE  PostgresRecent(RowsOf(G), p, limit, before, f)
           = Page(Newest(RecentSummaries(G, p, before, f)), limit)
<1> DEFINE T == RowsOf(G)
           mine == {row \in T.players : row.player.uuid = p}
           relevant == {row \in mine :
                           /\ GameOf(T, row.game_id).completed_at < before
                           /\ Matches(f, GameOf(T, row.game_id).had_bots)}
<1>1. mine = {OwnRow(g, p) : g \in Mine(G, p)}
  BY RowsFacts
<1>2. ASSUME NEW g \in Mine(G, p)
      PROVE  /\ OwnRow(g, p).game_id = g.game_id /\ OwnRow(g, p).player = ResultOf(g, p)
             /\ GameOf(T, g.game_id) = GameRow(g) /\ PlayersOf(T, g.game_id) = g.players
             /\ GameRow(g).completed_at = g.completed_at /\ GameRow(g).had_bots = g.had_bots
             /\ GameRow(g).winner_uuid = g.winner_uuid
  <2>1. OwnRow(g, p).game_id = g.game_id /\ OwnRow(g, p).player = ResultOf(g, p)
    BY DEF OwnRow
  <2>2. GameOf(T, g.game_id) = GameRow(g) /\ PlayersOf(T, g.game_id) = g.players
    BY RowsFacts DEF Mine
  <2>3. /\ GameRow(g).completed_at = g.completed_at /\ GameRow(g).had_bots = g.had_bots
        /\ GameRow(g).winner_uuid = g.winner_uuid
    BY DEF GameRow
  <2> HIDE DEF T
  <2>4. QED
    BY <2>1, <2>2, <2>3
<1>3. PostgresRecent(T, p, limit, before, f)
      = Page(Newest({PostgresSummary(T, row, p) : row \in relevant}), limit)
  BY DEF PostgresRecent
<1> HIDE DEF T, mine
<1>4. ASSUME NEW g \in Mine(G, p)
      PROVE  PostgresSummary(T, OwnRow(g, p), p) = MemorySummary(g, p)
  BY <1>2 DEF PostgresSummary, MemorySummary
<1>5. \A row \in relevant : \E g \in RecentGames(G, p, before, f) : row = OwnRow(g, p)
  BY <1>1, <1>2 DEF RecentGames
<1>6. \A g \in RecentGames(G, p, before, f) : OwnRow(g, p) \in relevant
  BY <1>1, <1>2 DEF RecentGames
<1>7. \A g \in RecentGames(G, p, before, f) : g \in Mine(G, p)
  BY DEF RecentGames
<1> HIDE DEF relevant
<1>8. {PostgresSummary(T, row, p) : row \in relevant} = RecentSummaries(G, p, before, f)
  BY <1>4, <1>5, <1>6, <1>7 DEF RecentSummaries
<1>9. QED
  BY <1>3, <1>8 DEF T

\* The moves of a game come back as they were stored.
LEMMA MovesComeBack ==
    ASSUME NEW G, Games(G), NEW g \in G
    PROVE  PostgresMoves(RowsOf(G), g.game_id) = g.moves
<1> DEFINE T == RowsOf(G)
           n == Len(g.moves)
           rows == {mv \in T.moves : mv.game_id = g.game_id}
           Before(mv) == {x \in rows : x.sequence < mv.sequence}
           Nth(i) == CHOOSE mv \in rows : Cardinality(Before(mv)) = i - 1
           h == [k \in 1 .. n |-> MoveRow(g, k)]
<1>1. g.moves \in Seq([player : Uuids(g), cards : Nat])
  BY DEF Games, IsResult
<1>2. n \in Nat /\ DOMAIN g.moves = 1 .. n
  BY <1>1
<1>3. \A k \in 1 .. n : g.moves[k] = [player |-> g.moves[k].player, cards |-> g.moves[k].cards]
  <2>1. \A U : g.moves \in Seq(U) => \A k \in 1 .. n : g.moves[k] \in U
    BY <1>2
  <2>2. \A k \in 1 .. n : g.moves[k] \in [player : Uuids(g), cards : Nat]
    BY <1>1, <2>1
  <2> HIDE DEF n
  <2>3. QED
    BY <2>2
<1>4. \A k : /\ MoveRow(g, k).game_id = g.game_id /\ MoveRow(g, k).sequence = k
             /\ MoveRow(g, k).player = g.moves[k].player
             /\ MoveRow(g, k).cards = g.moves[k].cards
  BY DEF MoveRow
<1>5. T.moves = UNION {MoveRows(x) : x \in G}
  BY DEF RowsOf
<1>6. \A x \in G : \A mv \in MoveRows(x) : mv.game_id = x.game_id
  BY DEF MoveRows, MoveRow
<1>7. MoveRows(g) = {MoveRow(g, k) : k \in 1 .. n}
  BY <1>2 DEF MoveRows
<1> HIDE DEF T
<1>8. rows = {MoveRow(g, k) : k \in 1 .. n}
  <2>1. \A mv \in rows : mv \in MoveRows(g)
    BY <1>5, <1>6 DEF Games
  <2>2. \A mv \in MoveRows(g) : mv \in rows
    BY <1>5, <1>6
  <2> HIDE DEF rows
  <2>3. QED
    BY <1>7, <2>1, <2>2
<1>9. \A k \in 1 .. n : h[k] = MoveRow(g, k)
  OBVIOUS
<1> HIDE DEF rows, h
<1>10. \A a, b \in 1 .. n : h[a] = h[b] => a = b
  BY <1>4, <1>9
<1>11. Cardinality(rows) = n
  <2>1. IsFiniteSet(1 .. n) /\ Cardinality(1 .. n) = n
    <3>1. 1 \in Int /\ n \in Int
      BY <1>2
    <3> HIDE DEF n
    <3>2. IsFiniteSet(1 .. n) /\ Cardinality(1 .. n) = IF 1 > n THEN 0 ELSE n - 1 + 1
      BY <3>1, FS_Interval
    <3>3. QED
      BY <1>2, <3>2
  <2> HIDE DEF n
  <2>2. \A a \in 1 .. n : h[a] \in rows
    BY <1>8, <1>9
  <2>3. \A b \in rows : \E a \in 1 .. n : h[a] = b
    BY <1>8, <1>9
  <2>4. Cardinality(rows) = Cardinality(1 .. n)
    BY <1>10, <2>1, <2>2, <2>3, Matched
  <2>5. QED
    BY <2>1, <2>4
<1>12. ASSUME NEW k \in 1 .. n PROVE Cardinality(Before(MoveRow(g, k))) = k - 1
  <2> DEFINE m == k - 1
             B == Before(MoveRow(g, k))
  <2> HIDE DEF n
  <2>1. m \in Nat /\ m \in Int /\ 1 \in Int /\ \A j \in 1 .. m : j \in 1 .. n /\ j < k
    BY <1>2
  <2>2. \A x \in B : x \in rows /\ x.sequence < k
    BY <1>4
  <2>3. \A x \in rows : x.sequence < k => x \in B
    BY <1>4
  <2>4. \A j \in 1 .. n : j < k => j \in 1 .. m
    BY <1>2
  <2> HIDE DEF m, B
  <2>5. IsFiniteSet(1 .. m) /\ Cardinality(1 .. m) = m
    <3>1. IsFiniteSet(1 .. m) /\ Cardinality(1 .. m) = IF 1 > m THEN 0 ELSE m - 1 + 1
      BY <2>1, FS_Interval
    <3>2. QED
      BY <2>1, <3>1
  <2>6. \A j \in 1 .. m : h[j] \in B
    BY <1>4, <1>8, <1>9, <2>1, <2>3
  <2>7. \A x \in B : \E j \in 1 .. m : h[j] = x
    BY <1>4, <1>8, <1>9, <2>2, <2>4
  <2>8. \A a, b \in 1 .. m : h[a] = h[b] => a = b
    BY <1>10, <2>1
  <2>9. Cardinality(B) = Cardinality(1 .. m)
    BY <2>5, <2>6, <2>7, <2>8, Matched
  <2>10. QED
    BY <2>5, <2>9 DEF m, B
<1>13. PostgresMoves(T, g.game_id)
       = [i \in 1 .. Cardinality(rows) |-> [player |-> Nth(i).player, cards |-> Nth(i).cards]]
  BY DEF PostgresMoves, rows
<1> HIDE DEF Before
<1>14. ASSUME NEW i \in 1 .. n PROVE Nth(i) = MoveRow(g, i)
  <2> HIDE DEF n
  <2>1. MoveRow(g, i) \in rows /\ Cardinality(Before(MoveRow(g, i))) = i - 1
    BY <1>8, <1>12
  <2>2. ASSUME NEW mv \in rows, Cardinality(Before(mv)) = i - 1 PROVE mv = MoveRow(g, i)
    <3>1. PICK k \in 1 .. n : mv = MoveRow(g, k)
      BY <1>8
    <3>2. k - 1 = i - 1
      BY <1>12, <2>2, <3>1
    <3>3. k = i
      BY <1>2, <3>2
    <3>4. QED
      BY <3>1, <3>3
  <2>3. QED
    BY <2>1, <2>2
<1> HIDE DEF Nth, n
<1>15. \A i \in 1 .. n : [player |-> Nth(i).player, cards |-> Nth(i).cards] = g.moves[i]
  BY <1>3, <1>4, <1>14
<1>16. g.moves = [i \in 1 .. n |-> g.moves[i]]
  BY <1>1, <1>2
<1>17. QED
  BY <1>11, <1>13, <1>15, <1>16 DEF T

\* A game is read in the same detail from either.
LEMMA DetailsAgree ==
    ASSUME NEW st, NEW G, Games(G), NEW id, NEW p,
           \A i \in DOMAIN st.games : st.games[i] \in G /\ st.games[i].game_id = i,
           \A g \in G : g.game_id \in DOMAIN st.games
    PROVE  MemoryDetail(st, p, id) = PostgresDetail(RowsOf(G), p, id)
<1> DEFINE T == RowsOf(G)
<1>1. CASE id \notin DOMAIN st.games
  <2>1. MemoryDetail(st, p, id) = NoDetail
    BY <1>1 DEF MemoryDetail, IsStored
  <2>2. PlayersOf(T, id) = {}
    BY <1>1, RowsFacts
  <2> HIDE DEF T
  <2>3. PostgresDetail(T, p, id) = NoDetail
    BY <2>2 DEF PostgresDetail
  <2>4. QED
    BY <2>1, <2>3 DEF T
<1>2. CASE id \in DOMAIN st.games
  <2> DEFINE g == st.games[id]
  <2>1. g \in G /\ g.game_id = id
    BY <1>2
  <2>2. PlayersOf(T, id) = g.players /\ GameOf(T, id) = GameRow(g)
    BY <2>1, RowsFacts
  <2>3. PostgresMoves(T, id) = g.moves
    BY <2>1, MovesComeBack
  <2>4. p \in Uuids(g) <=> \E x \in g.players : x.uuid = p
    BY DEF Uuids
  <2> HIDE DEF T
  <2>5. GameRow(g) = [game_id |-> id, room_id |-> g.room_id, game_number |-> g.game_number,
                      winner_uuid |-> g.winner_uuid, completed_at |-> g.completed_at,
                      had_bots |-> g.had_bots]
    BY <2>1 DEF GameRow
  <2>6. MemoryDetail(st, p, id) =
          IF p \notin Uuids(g) THEN NoDetail
          ELSE [game |-> GameRow(g), players |-> g.players, moves |-> g.moves]
    BY <1>2, <2>5 DEF MemoryDetail, IsStored
  <2>7. PostgresDetail(T, p, id) =
          IF p \notin Uuids(g) THEN NoDetail
          ELSE [game |-> GameRow(g), players |-> g.players, moves |-> g.moves]
    BY <2>2, <2>3, <2>4 DEF PostgresDetail
  <2>8. QED
    BY <2>6, <2>7 DEF T
<1>3. QED
  BY <1>1, <1>2
-----------------------------------------------------------------------------
(* What the repositories hold. *)

\* Every result handed in is of a time of its own, and what was recorded is among them.
GivenOnce ==
    /\ given \in Seq(Handed) /\ recorded \in Seq(Handed)
    /\ \A i, j \in DOMAIN given : given[i].completed_at = given[j].completed_at => i = j
    /\ \A i, j \in DOMAIN recorded :
          recorded[i].completed_at = recorded[j].completed_at => i = j
    /\ \A i \in DOMAIN recorded : \E k \in DOMAIN given : recorded[i] = given[k]

\* The tables hold the first result of every game.
FirstsAreRows ==
    /\ tables = RowsOf(Firsts)
    /\ \A i \in DOMAIN given : \E x \in Firsts : x.game_id = given[i].game_id

\* The inductive invariant of the repositories.
RepositoriesInv == GivenOnce /\ NewestHeld /\ FirstsAreRows

\* Nothing is held, nothing is given.
LEMMA InitialRepositories ==
    ASSUME Repositories!Init
    PROVE  RepositoriesInv
<1>1. given = <<>> /\ recorded = <<>> /\ tables = EmptyTables /\ store = EmptyStore
      /\ DOMAIN <<>> = {}
  BY SameStore, SameTables DEF Repositories!Init
<1>2. GivenOnce
  BY <1>1 DEF GivenOnce
<1>3. Firsts = {}
  BY <1>1 DEF Firsts
<1>4. RowsOf({}) = EmptyTables
  BY DEF RowsOf, EmptyTables
<1>5. QED
  BY <1>1, <1>2, <1>3, <1>4, NewestHeldInitially DEF RepositoriesInv, FirstsAreRows

\* The union of sets and one more.
LEMMA UnionOneMore ==
    ASSUME NEW P, NEW r
    PROVE  UNION (P \cup {r}) = (UNION P) \cup r
OBVIOUS

\* To add the rows of a result is to have the rows of one more result.
LEMMA RowsOfOneMore ==
    ASSUME NEW G, NEW e
    PROVE  RowsOf(G \cup {e}) = WithRows(RowsOf(G), e)
<1>1. {GameRow(x) : x \in G \cup {e}} = {GameRow(x) : x \in G} \cup {GameRow(e)}
  OBVIOUS
<1>2. UNION {PlayerRows(x) : x \in G \cup {e}}
      = (UNION {PlayerRows(x) : x \in G}) \cup PlayerRows(e)
  <2>1. {PlayerRows(x) : x \in G \cup {e}} = {PlayerRows(x) : x \in G} \cup {PlayerRows(e)}
    OBVIOUS
  <2>2. QED
    BY <2>1, UnionOneMore
<1>3. UNION {MoveRows(x) : x \in G \cup {e}}
      = (UNION {MoveRows(x) : x \in G}) \cup MoveRows(e)
  <2>1. {MoveRows(x) : x \in G \cup {e}} = {MoveRows(x) : x \in G} \cup {MoveRows(e)}
    OBVIOUS
  <2>2. QED
    BY <2>1, UnionOneMore
<1>4. QED
  BY <1>1, <1>2, <1>3 DEF RowsOf, WithRows

\* What a result adds to the firsts of their games: itself, if its game is new.
LEMMA FirstsOfAppend ==
    ASSUME given \in Seq(Handed), NEW e \in Handed, given' = Append(given, e)
    PROVE  /\ (\E i \in DOMAIN given : given[i].game_id = e.game_id) => Firsts' = Firsts
           /\ (\A i \in DOMAIN given : given[i].game_id # e.game_id) => Firsts' = Firsts \cup {e}
<1> DEFINE n == Len(given)
           First(k) == \A j \in 1 .. k - 1 : given[j].game_id # given[k].game_id
           FirstThen(k) == \A j \in 1 .. k - 1 : given'[j].game_id # given'[k].game_id
<1>1. /\ n \in Nat /\ DOMAIN given = 1 .. n /\ DOMAIN given' = 1 .. n + 1
      /\ given'[n + 1] = e /\ \A i \in 1 .. n : given'[i] = given[i]
  BY AppendProperties
<1>2. Firsts = {given[i] : i \in {k \in 1 .. n : First(k)}}
  BY <1>1 DEF Firsts
<1>3. Firsts' = {given'[i] : i \in {k \in 1 .. n + 1 : FirstThen(k)}}
  BY <1>1 DEF Firsts
<1> HIDE DEF n
<1>4. \A k \in 1 .. n : FirstThen(k) <=> First(k)
  <2>1. \A k \in 1 .. n : k \in 1 .. n /\ \A j \in 1 .. k - 1 : j \in 1 .. n
    BY <1>1
  <2>2. QED
    BY <1>1, <2>1
<1>5. FirstThen(n + 1) <=> \A i \in 1 .. n : given[i].game_id # e.game_id
  <2>1. n + 1 - 1 = n
    BY <1>1
  <2>2. QED
    BY <1>1, <2>1
<1>6. \A i \in 1 .. n + 1 : i \in 1 .. n \/ i = n + 1
  BY <1>1
<1>7. n + 1 \in 1 .. n + 1 /\ \A i \in 1 .. n : i \in 1 .. n + 1
  BY <1>1
<1> HIDE DEF First, FirstThen
<1>8. ASSUME FirstThen(n + 1) PROVE Firsts' = Firsts \cup {e}
  <2>1. \A x \in Firsts' : x \in Firsts \/ x = e
    BY <1>1, <1>2, <1>3, <1>4, <1>6
  <2>2. \A x \in Firsts : x \in Firsts'
    BY <1>1, <1>2, <1>3, <1>4, <1>7
  <2>3. e \in Firsts'
    BY <1>1, <1>3, <1>7, <1>8
  <2>4. QED
    BY <2>1, <2>2, <2>3
<1>9. ASSUME ~FirstThen(n + 1) PROVE Firsts' = Firsts
  <2>1. \A x \in Firsts' : x \in Firsts
    BY <1>1, <1>2, <1>3, <1>4, <1>6, <1>9
  <2>2. \A x \in Firsts : x \in Firsts'
    BY <1>1, <1>2, <1>3, <1>4, <1>7
  <2>3. QED
    BY <2>1, <2>2
<1>10. QED
  BY <1>1, <1>5, <1>8, <1>9

\* Every result that is handed in keeps the invariant.
LEMMA RepositoriesSteps ==
    ASSUME RepositoriesInv, [Repositories!Next]_(Repositories!vars)
    PROVE  RepositoriesInv'
<1>1. CASE UNCHANGED Repositories!vars
  <2>1. UNCHANGED <<store, tables, recorded, given>>
    BY <1>1 DEF Repositories!vars
  <2>2. Firsts' = Firsts
    BY <2>1 DEF Firsts
  <2>3. QED
    BY <2>1, <2>2 DEF RepositoriesInv, GivenOnce, NewestHeld, RecordedOnce, FirstsAreRows
<1>2. CASE Repositories!Next
  <2>1. PICK e \in Handed :
            /\ \A i \in DOMAIN given : given[i].completed_at # e.completed_at
            /\ given' = Append(given, e)
            /\ RecordInMemory(e) /\ RecordInPostgres(e)
    BY <1>2, RepositoriesStep
  <2>2. given \in Seq(Handed) /\ recorded \in Seq(Handed)
    BY DEF RepositoriesInv, GivenOnce
  <2>3. /\ given' \in Seq(Handed) /\ DOMAIN given = 1 .. Len(given)
        /\ DOMAIN given' = 1 .. Len(given) + 1 /\ Len(given) \in Nat
        /\ given'[Len(given) + 1] = e
        /\ \A i \in 1 .. Len(given) : given'[i] = given[i]
    BY <2>1, <2>2, AppendProperties
  <2>4. \A i \in DOMAIN given' : i \in DOMAIN given \/ i = Len(given) + 1
    BY <2>3
  <2>5. \A i, j \in DOMAIN given' : given'[i].completed_at = given'[j].completed_at => i = j
    BY <2>1, <2>3, <2>4 DEF RepositoriesInv, GivenOnce
  <2>6. ASSUME IsStored(store, e.game_id) PROVE GivenOnce' /\ NewestHeld'
    <3>1. UNCHANGED <<store, recorded>>
      BY <2>1, <2>6 DEF RecordInMemory
    <3>2. \A i \in DOMAIN recorded : \E k \in DOMAIN given' : recorded[i] = given'[k]
      <4>1. \A k \in DOMAIN given : k \in DOMAIN given' /\ given'[k] = given[k]
        BY <2>3
      <4>2. QED
        BY <4>1 DEF RepositoriesInv, GivenOnce
    <3>3. GivenOnce'
      BY <2>2, <2>3, <2>5, <3>1, <3>2 DEF RepositoriesInv, GivenOnce
    <3>4. NewestHeld'
      BY <3>1 DEF RepositoriesInv, NewestHeld, RecordedOnce
    <3>5. QED
      BY <3>3, <3>4
  <2>7. ASSUME ~IsStored(store, e.game_id) PROVE GivenOnce' /\ NewestHeld'
    <3>1. store' = Stored(store, e) /\ recorded' = Append(recorded, e)
      BY <2>1, <2>7 DEF RecordInMemory
    <3>2. /\ recorded' \in Seq(Handed) /\ DOMAIN recorded = 1 .. Len(recorded)
          /\ DOMAIN recorded' = 1 .. Len(recorded) + 1 /\ Len(recorded) \in Nat
          /\ recorded'[Len(recorded) + 1] = e
          /\ \A i \in 1 .. Len(recorded) : recorded'[i] = recorded[i]
      BY <2>2, <3>1, AppendProperties
    <3>3. \A i \in DOMAIN recorded' : i \in DOMAIN recorded \/ i = Len(recorded) + 1
      BY <3>2
    <3>4. \A i \in DOMAIN recorded : recorded[i].completed_at # e.completed_at
      BY <2>1 DEF RepositoriesInv, GivenOnce
    <3>5. \A i, j \in DOMAIN recorded' :
              recorded'[i].completed_at = recorded'[j].completed_at => i = j
      BY <3>2, <3>3, <3>4 DEF RepositoriesInv, GivenOnce
    <3>6. \A i \in DOMAIN recorded' : \E k \in DOMAIN given' : recorded'[i] = given'[k]
      <4>1. \A k \in DOMAIN given : k \in DOMAIN given' /\ given'[k] = given[k]
        BY <2>3
      <4>2. Len(given) + 1 \in DOMAIN given'
        BY <2>3
      <4>3. \A i \in DOMAIN recorded : \E k \in DOMAIN given' : recorded[i] = given'[k]
        BY <4>1 DEF RepositoriesInv, GivenOnce
      <4>4. QED
        BY <2>3, <3>2, <3>3, <4>2, <4>3
    <3>7. GivenOnce'
      BY <2>3, <2>5, <3>2, <3>5, <3>6 DEF GivenOnce
    <3>8. NewestHeld'
      BY <2>2, <2>7, <3>1, NewResultIsHeld DEF RepositoriesInv
    <3>9. QED
      BY <3>7, <3>8
  <2>8. FirstsAreRows'
    <3>1. HasRow(tables, e.game_id) <=> \E i \in DOMAIN given : given[i].game_id = e.game_id
      <4>1. tables.games = {GameRow(x) : x \in Firsts}
        BY DEF RepositoriesInv, FirstsAreRows, RowsOf
      <4>2. \A x : GameRow(x).game_id = x.game_id
        BY DEF GameRow
      <4>3. HasRow(tables, e.game_id) <=> \E x \in Firsts : x.game_id = e.game_id
        BY <4>1, <4>2 DEF HasRow
      <4>4. \A x \in Firsts : \E i \in DOMAIN given : x = given[i]
        BY DEF Firsts
      <4>5. QED
        BY <4>3, <4>4 DEF RepositoriesInv, FirstsAreRows
    <3>2. CASE \E i \in DOMAIN given : given[i].game_id = e.game_id
      <4>1. tables' = tables /\ Firsts' = Firsts
        BY <2>1, <2>2, <3>1, <3>2, FirstsOfAppend DEF RecordInPostgres
      <4>2. \A i \in DOMAIN given' : \E k \in DOMAIN given : given'[i].game_id = given[k].game_id
        BY <2>3, <2>4, <3>2
      <4>3. QED
        BY <4>1, <4>2 DEF RepositoriesInv, FirstsAreRows
    <3>3. CASE \A i \in DOMAIN given : given[i].game_id # e.game_id
      <4>1. tables' = WithRows(tables, e) /\ Firsts' = Firsts \cup {e}
        BY <2>1, <2>2, <3>1, <3>3, FirstsOfAppend DEF RecordInPostgres
      <4>2. tables' = RowsOf(Firsts')
        BY <4>1, RowsOfOneMore DEF RepositoriesInv, FirstsAreRows
      <4>3. ASSUME NEW i \in DOMAIN given' PROVE \E x \in Firsts' : x.game_id = given'[i].game_id
        BY <2>3, <2>4, <4>1 DEF RepositoriesInv, FirstsAreRows
      <4>4. QED
        BY <4>2, <4>3 DEF FirstsAreRows
    <3>4. QED
      BY <3>2, <3>3
  <2>9. QED
    BY <2>6, <2>7, <2>8 DEF RepositoriesInv
<1>3. QED
  BY <1>1, <1>2

\* The results that the store holds.
Kept == {store.games[id] : id \in DOMAIN store.games}

\* What either repository holds are results of different games.
LEMMA HeldGames ==
    ASSUME RepositoriesInv
    PROVE  /\ Games(Kept) /\ Games(Firsts)
           /\ Kept = {LastOf(recorded, Limit)[i] : i \in DOMAIN LastOf(recorded, Limit)}
           /\ \A i \in DOMAIN store.games : store.games[i] \in Kept /\ store.games[i].game_id = i
           /\ \A g \in Kept : g.game_id \in DOMAIN store.games
           /\ \A p : StoredOf(store, p) = Mine(Kept, p)
           /\ \A g \in Kept \cup Firsts : g.completed_at \in Times
<1> DEFINE w == LastOf(recorded, Limit)
           n == Len(recorded)
<1>1. given \in Seq(Handed) /\ recorded \in Seq(Handed) /\ Limit \in Nat
  BY HistoryAssumption DEF RepositoriesInv, GivenOnce
<1>2. /\ w \in Seq(Handed) /\ Len(w) = IF n <= Limit THEN n ELSE Limit
      /\ \A i \in 1 .. Len(w) : w[i] = recorded[n - Len(w) + i]
  BY <1>1, LastOfProperties
<1>3. Holds(store, w) /\ NoTwo(w)
  BY DEF RepositoriesInv, NewestHeld
<1> HIDE DEF w
<1>4. n \in Nat /\ DOMAIN recorded = 1 .. n /\ DOMAIN w = 1 .. Len(w) /\ Len(w) \in Nat
  BY <1>1, <1>2
<1>5. Kept = {w[i] : i \in DOMAIN w}
  <2>1. DOMAIN store.games = {w[i].game_id : i \in DOMAIN w}
        /\ \A i \in DOMAIN w : store.games[w[i].game_id] = w[i]
    BY <1>3 DEF Holds
  <2>2. QED
    BY <2>1 DEF Kept
<1>6. /\ \A i \in DOMAIN store.games : store.games[i] \in Kept /\ store.games[i].game_id = i
      /\ \A g \in Kept : g.game_id \in DOMAIN store.games
  <2>1. DOMAIN store.games = {w[i].game_id : i \in DOMAIN w}
        /\ \A i \in DOMAIN w : store.games[w[i].game_id] = w[i]
    BY <1>3 DEF Holds
  <2>2. QED
    BY <1>5, <2>1 DEF Kept
<1>7. \A p : StoredOf(store, p) = Mine(Kept, p)
  BY DEF StoredOf, Mine, Kept
<1>8. \A i, j \in DOMAIN w : w[i].completed_at = w[j].completed_at => i = j
  <2>1. ASSUME NEW i \in DOMAIN w, NEW j \in DOMAIN w, w[i].completed_at = w[j].completed_at
        PROVE  i = j
    <3>1. n - Len(w) + i \in DOMAIN recorded /\ n - Len(w) + j \in DOMAIN recorded
      BY <1>1, <1>2, <1>4
    <3>2. n - Len(w) + i = n - Len(w) + j
      BY <1>2, <1>4, <2>1, <3>1 DEF RepositoriesInv, GivenOnce
    <3>3. QED
      BY <1>4, <3>2
  <2>2. QED
    BY <2>1
<1>9. ASSUME NEW s, s \in Seq(Handed),
             \A i, j \in DOMAIN s : s[i].completed_at = s[j].completed_at => i = j,
             NEW G, \A g \in G : \E i \in DOMAIN s : g = s[i],
             \A x, y \in G : x.game_id = y.game_id => x = y
      PROVE  Games(G) /\ \A g \in G : g.completed_at \in Times
  <2>1. DOMAIN s = 1 .. Len(s) /\ Len(s) \in Int /\ 1 \in Int /\ \A i \in DOMAIN s : s[i] \in Handed
    BY <1>9
  <2>2. \A g \in G : IsResult(g) /\ g.completed_at \in Times
    BY <1>9, <2>1, HandedAreResults
  <2>3. \A x, y \in G : x.completed_at = y.completed_at => x = y
    BY <1>9
  <2>4. IsFiniteSet(G)
    <3> DEFINE All == {s[i] : i \in DOMAIN s}
               f == [i \in DOMAIN s |-> s[i]]
    <3>1. f \in Surjection(DOMAIN s, All)
      BY DEF Surjection
    <3>2. G \subseteq All
      BY <1>9
    <3> HIDE DEF f, All
    <3>3. IsFiniteSet(DOMAIN s)
      BY <2>1, FS_Interval
    <3>4. IsFiniteSet(All)
      BY <3>1, <3>3, FS_Surjection
    <3>5. QED
      BY <3>2, <3>4, FS_Subset
  <2>5. \A t \in Times : t \in Int
    BY DEF Times
  <2>6. QED
    BY <1>9, <2>2, <2>3, <2>4, <2>5 DEF Games, Timed
<1>10. Games(Kept) /\ \A g \in Kept : g.completed_at \in Times
  <2>1. \A x, y \in Kept : x.game_id = y.game_id => x = y
    BY <1>6 DEF Kept
  <2>2. \A g \in Kept : \E i \in DOMAIN w : g = w[i]
    BY <1>5
  <2>3. QED
    BY <1>2, <1>8, <1>9, <2>1, <2>2
<1>11. Games(Firsts) /\ \A g \in Firsts : g.completed_at \in Times
  <2> DEFINE First(k) == \A j \in 1 .. k - 1 : given[j].game_id # given[k].game_id
  <2>1. Firsts = {given[i] : i \in {k \in DOMAIN given : First(k)}}
    BY DEF Firsts
  <2>2. \A i, j \in DOMAIN given : i < j => i \in 1 .. j - 1
    BY <1>1
  <2>3. \A i, j \in DOMAIN given :
            First(i) /\ First(j) /\ given[i].game_id = given[j].game_id => ~(i < j)
    BY <2>2
  <2>4. \A i, j \in DOMAIN given : i < j \/ j < i \/ i = j
    BY <1>1
  <2>5. \A g \in Firsts : \E i \in DOMAIN given : g = given[i] /\ First(i)
    BY <2>1
  <2> HIDE DEF First
  <2>6. \A x, y \in Firsts : x.game_id = y.game_id => x = y
    <3>1. ASSUME NEW x \in Firsts, NEW y \in Firsts, x.game_id = y.game_id PROVE x = y
      <4>1. PICK i \in DOMAIN given : x = given[i] /\ First(i)
        BY <2>5
      <4>2. PICK j \in DOMAIN given : y = given[j] /\ First(j)
        BY <2>5
      <4>3. ~(i < j) /\ ~(j < i)
        BY <2>3, <3>1, <4>1, <4>2
      <4>4. QED
        BY <2>4, <4>1, <4>2, <4>3
    <3>2. QED
      BY <3>1
  <2>7. \A g \in Firsts : \E i \in DOMAIN given : g = given[i]
    BY <2>5
  <2>8. \A i, j \in DOMAIN given : given[i].completed_at = given[j].completed_at => i = j
    BY DEF RepositoriesInv, GivenOnce
  <2>9. QED
    BY <1>1, <1>9, <2>6, <2>7, <2>8
<1>12. QED
  BY <1>5, <1>6, <1>7, <1>10, <1>11 DEF w

\* What is held is read alike.
LEMMA RepositoriesAlike == RepositoriesInv => RepositoriesAgree
<1> SUFFICES ASSUME RepositoriesInv, NEW p \in Reader, NEW f \in Filter
             PROVE  /\ MemoryProfile(store, p, f) = PostgresProfile(Retained, p, f)
                    /\ MemoryRecent(store, p, Limit, Now, f)
                       = PostgresRecent(Retained, p, Limit, Now, f)
                    /\ \A id \in {recorded[i].game_id : i \in DOMAIN recorded} :
                          MemoryDetail(store, p, id) = PostgresDetail(Retained, p, id)
  BY DEF RepositoriesAgree
<1>1. /\ Games(Kept) /\ StoredOf(store, p) = Mine(Kept, p)
      /\ \A i \in DOMAIN store.games : store.games[i] \in Kept /\ store.games[i].game_id = i
      /\ \A g \in Kept : g.game_id \in DOMAIN store.games
  BY HeldGames
<1>2. Retained = RowsOf(Kept)
  BY DEF Retained, Kept
<1>3. MemoryProfile(store, p, f) = PostgresProfile(RowsOf(Kept), p, f)
  BY <1>1, ProfilesAgree
<1>4. MemoryRecent(store, p, Limit, Now, f) = PostgresRecent(RowsOf(Kept), p, Limit, Now, f)
  BY <1>1, RecentFromStore, RecentFromTables
<1>5. \A id : MemoryDetail(store, p, id) = PostgresDetail(RowsOf(Kept), p, id)
  BY <1>1, DetailsAgree
<1>6. QED
  BY <1>2, <1>3, <1>4, <1>5
-----------------------------------------------------------------------------
(* Page after page. *)

\* The rows of before a time.
Before(S, b) == {x \in S : x.completed_at < b}

\* Any of these rows are such rows.
LEMMA SomeOfTimed ==
    ASSUME NEW S, Timed(S), NEW T \in SUBSET S
    PROVE  Timed(T)
<1>1. IsFiniteSet(T)
  BY FS_Subset DEF Timed
<1>2. QED
  BY <1>1 DEF Timed

\* What Newest returns.
LEMMA NewestLists ==
    ASSUME NEW R, Timed(R)
    PROVE  /\ Newest(R) \in Seq(R) /\ Len(Newest(R)) = Cardinality(R) /\ Cardinality(R) \in Nat
           /\ \A i \in 1 .. Cardinality(R) :
                 Newest(R)[i] = Oldest(R)[Cardinality(R) - i + 1]
<1>1. Oldest(R) \in Seq(R) /\ Len(Oldest(R)) = Cardinality(R)
  BY OldestLists DEF Lists
<1>2. Cardinality(R) \in Nat
  BY <1>1
<1> DEFINE s == Oldest(R)
<1> HIDE DEF s
<1>3. s \in Seq(R) /\ Len(s) = Cardinality(R)
  BY <1>1 DEF s
<1>4. /\ Reverse(s) \in Seq(R) /\ Len(Reverse(s)) = Len(s)
      /\ \A i \in 1 .. Len(s) : Reverse(s)[i] = s[Len(s) - i + 1]
  BY <1>3, ReverseFacts
<1>5. Newest(R) = Reverse(s)
  BY DEF Newest, s
<1>6. QED
  BY <1>2, <1>3, <1>4, <1>5 DEF s

\* A page is the games up to a time, and what is before that time follows it.
LEMMA PageStep ==
    ASSUME NEW R, Timed(R), R # {}, NEW limit \in Nat, limit >= 1
    PROVE  LET page == Page(Newest(R), limit) IN
           /\ \E x \in R : page.next_before = x.completed_at
           /\ page.games \in Seq(R)
           /\ Newest(R) = page.games \o Newest(Before(R, page.next_before))
<1> DEFINE N == Newest(R)
           s == Oldest(R)
           n == Cardinality(R)
           m == IF limit < n THEN limit ELSE n
           k == n - m
           w == Window(N, limit)
           t == w[m].completed_at
           T == Before(R, t)
           q == [i \in 1 .. k |-> s[i]]
<1>1. /\ N \in Seq(R) /\ Len(N) = n /\ n \in Nat
      /\ \A i \in 1 .. n : N[i] = s[n - i + 1]
  BY NewestLists
<1>2. n # 0
  BY FS_EmptySet DEF Timed
<1>3. Lists(s, R) /\ s \in Seq(R) /\ Len(s) = n
  BY OldestLists DEF Lists
<1>4. /\ \A i \in 1 .. n : s[i] \in R
      /\ \A x \in R : \E i \in 1 .. n : s[i] = x
      /\ \A i, j \in 1 .. n : i < j => s[i].completed_at < s[j].completed_at
      /\ \A x \in R : x.completed_at \in Int
  BY <1>3 DEF Lists, Timed
<1> HIDE DEF n, s, N
<1>5. m \in Nat /\ m >= 1 /\ m <= n /\ k \in Nat /\ k < n /\ n = m + k
  BY <1>1, <1>2
<1>6. w = SubSeq(N, 1, m)
  BY <1>1 DEF Window
<1> HIDE DEF m, k
<1>7. /\ w \in Seq(R) /\ Len(w) = m
      /\ \A i \in 1 .. m : w[i] = N[i]
  <2>1. \A i \in 1 .. m : i \in 1 .. Len(N)
    BY <1>1, <1>5
  <2>2. w \in Seq(R)
    BY <1>1, <1>5, <1>6, <2>1, SubSeqProperties
  <2>3. Len(w) = m /\ \A i \in 1 .. m : w[i] = N[i]
    BY <1>1, <1>5, <1>6, <2>1, SubSeqProperties
  <2>4. QED
    BY <2>2, <2>3
<1>8. Page(N, limit) = [games |-> w, next_before |-> t]
  <2>1. w # <<>>
    BY <1>5, <1>7
  <2>2. QED
    BY <1>7, <2>1 DEF Page
<1> HIDE DEF w
<1>9. w[m] = s[k + 1] /\ k + 1 \in 1 .. n /\ w[m] \in R
  <2>1. m \in 1 .. m /\ m \in 1 .. n /\ n - m + 1 = k + 1 /\ k + 1 \in 1 .. n
    BY <1>1, <1>5
  <2>2. w[m] = s[n - m + 1]
    BY <1>1, <1>7, <2>1
  <2>3. QED
    BY <1>4, <2>1, <2>2
<1>10. Timed(T)
  BY SomeOfTimed DEF Before
<1>11. \A i \in 1 .. k : i \in 1 .. n /\ i < k + 1 /\ q[i] = s[i]
  BY <1>1, <1>5
<1>12. \A i \in 1 .. k : q[i] \in T
  BY <1>4, <1>9, <1>11 DEF Before
<1>13. q \in Seq(T) /\ Len(q) = k
  <2>1. q \in [1 .. k -> T] /\ DOMAIN q = 1 .. k
    BY <1>12
  <2> HIDE DEF q, T
  <2>2. q \in Seq(T)
    BY <1>5, <2>1, SeqDef
  <2>3. QED
    BY <1>5, <2>1, <2>2, LenProperties
<1>14. ASSUME NEW x \in T PROVE \E i \in 1 .. k : q[i] = x
  <2>1. x \in R /\ x.completed_at < t
    BY DEF Before
  <2>2. PICK i \in 1 .. n : s[i] = x
    BY <1>4, <2>1
  <2>3. t = s[k + 1].completed_at
    BY <1>9
  <2>4. ~(t < x.completed_at) /\ t # x.completed_at
    BY <1>4, <1>9, <2>1
  <2>5. ~(k + 1 < i) /\ i # k + 1
    BY <1>4, <1>9, <2>2, <2>3, <2>4
  <2>6. i \in 1 .. k
    BY <1>1, <1>5, <2>5
  <2>7. QED
    BY <1>11, <2>2, <2>6
<1>15. \A i, j \in 1 .. k : i < j => q[i].completed_at < q[j].completed_at
  BY <1>4, <1>11
<1> HIDE DEF q, t, T
<1>16. q = Oldest(T)
  <2>1. Lists(q, T)
    BY <1>13, <1>14, <1>15 DEF Lists
  <2>2. QED
    BY <1>10, <2>1, OneOrder
<1>17. /\ Newest(T) \in Seq(T) /\ Len(Newest(T)) = k
       /\ \A i \in 1 .. k : Newest(T)[i] = s[k - i + 1]
  <2>1. Cardinality(T) = k
    BY <1>10, <1>13, <1>16, OldestLists
  <2>2. \A i \in 1 .. k : k - i + 1 \in 1 .. k
    BY <1>5
  <2>3. /\ Newest(T) \in Seq(T) /\ Len(Newest(T)) = k
        /\ \A i \in 1 .. k : Newest(T)[i] = Oldest(T)[k - i + 1]
    BY <1>10, <2>1, NewestLists
  <2>4. QED
    BY <1>11, <1>16, <2>2, <2>3
<1>18. N = w \o Newest(T)
  <2> DEFINE v == Newest(T)
             c == w \o v
  <2>1. v \in Seq(R) /\ Len(v) = k
    <3>1. T \subseteq R
      BY DEF T, Before
    <3>2. QED
      BY <1>17, <3>1
  <2>2. /\ \A i \in 1 .. k : v[i] = s[k - i + 1]
        /\ \A i \in 1 .. m : w[i] = s[n - i + 1]
    <3>1. \A i \in 1 .. m : i \in 1 .. n
      BY <1>1, <1>5
    <3>2. QED
      BY <1>1, <1>7, <1>17, <3>1
  <2> HIDE DEF v
  <2>3. c \in Seq(R) /\ Len(c) = n
        /\ \A i \in 1 .. n : c[i] = IF i <= m THEN w[i] ELSE v[i - m]
    <3>1. /\ c \in Seq(R) /\ Len(c) = m + k
          /\ \A i \in 1 .. m + k : c[i] = IF i <= m THEN w[i] ELSE v[i - m]
      BY <1>7, <2>1, ConcatProperties
    <3>2. QED
      BY <1>5, <3>1
  <2> HIDE DEF c
  <2>4. ASSUME NEW i \in 1 .. n PROVE N[i] = c[i]
    <3>1. CASE i <= m
      <4>1. i \in 1 .. m
        BY <1>1, <1>5, <3>1
      <4>2. c[i] = w[i]
        BY <2>3, <3>1
      <4>3. QED
        BY <1>1, <2>2, <4>1, <4>2
    <3>2. CASE ~(i <= m)
      <4>1. i - m \in 1 .. k /\ k - (i - m) + 1 = n - i + 1
        BY <1>1, <1>5, <3>2
      <4>2. c[i] = v[i - m]
        BY <2>3, <3>2
      <4>3. v[i - m] = s[k - (i - m) + 1]
        BY <2>2, <4>1
      <4>4. QED
        BY <1>1, <4>1, <4>2, <4>3
    <3>3. QED
      BY <3>1, <3>2
  <2>5. N = c
    BY <1>1, <2>3, <2>4, SeqEqual
  <2>6. QED
    BY <2>5 DEF c, v
<1>19. QED
  BY <1>7, <1>8, <1>9, <1>18 DEF N, T, t

\* A set of natural numbers has a least one.
LEMMA LeastNatural ==
    ASSUME NEW S \in SUBSET Nat, S # {}
    PROVE  \E n \in S : \A m \in S : n <= m
<1> DEFINE R == OpToRel(<, Nat)
<1>1. IsWellFoundedOn(R, Nat)
  BY NatLessThanWellFounded, Zenon
<1>2. \A m, n \in Nat : m < n => <<m, n>> \in R
  BY DEF OpToRel
<1> HIDE DEF R
<1>3. S \subseteq Nat
  OBVIOUS
<1>4. \E n \in S : \A m \in S : <<m, n>> \notin R
  BY <1>1, <1>3, WFMin, Zenon
<1>5. PICK n \in S : \A m \in S : <<m, n>> \notin R
  BY <1>4
<1>6. \A m \in S : ~(m < n)
  BY <1>2, <1>3, <1>5, Zenon
<1>7. QED
  BY <1>3, <1>6

\* The ids of one list after another.
LEMMA IdsOfConcat ==
    ASSUME NEW S, NEW v \in Seq(S), NEW w \in Seq(S)
    PROVE  Ids(v \o w) = Ids(v) \o Ids(w)
<1> DEFINE I == {x.game_id : x \in S}
           a == Ids(v)
           b == Ids(w)
           c == Ids(v \o w)
           m == Len(v)
           n == Len(w)
<1>1. ASSUME NEW s, s \in Seq(S)
      PROVE  /\ Ids(s) \in Seq(I) /\ Len(Ids(s)) = Len(s)
             /\ \A i \in 1 .. Len(s) : Ids(s)[i] = s[i].game_id
  <2>1. DOMAIN s = 1 .. Len(s) /\ Len(s) \in Nat /\ \A i \in 1 .. Len(s) : s[i] \in S
    BY <1>1
  <2>2. Ids(s) = [i \in 1 .. Len(s) |-> s[i].game_id]
    BY <2>1 DEF Ids
  <2>3. Ids(s) \in [1 .. Len(s) -> I]
    BY <2>1, <2>2
  <2>4. Ids(s) \in Seq(I)
    BY <2>1, <2>3, SeqDef
  <2>5. DOMAIN Ids(s) = 1 .. Len(s)
    BY <2>2
  <2>6. Len(Ids(s)) = Len(s)
    BY <2>1, <2>4, <2>5, LenProperties
  <2>7. QED
    BY <2>2, <2>4, <2>6
<1>2. /\ v \o w \in Seq(S) /\ Len(v \o w) = m + n /\ m \in Nat /\ n \in Nat
      /\ \A i \in 1 .. m + n : (v \o w)[i] = IF i <= m THEN v[i] ELSE w[i - m]
  BY ConcatProperties
<1>3. /\ a \in Seq(I) /\ Len(a) = m /\ \A i \in 1 .. m : a[i] = v[i].game_id
      /\ b \in Seq(I) /\ Len(b) = n /\ \A i \in 1 .. n : b[i] = w[i].game_id
      /\ c \in Seq(I) /\ Len(c) = m + n /\ \A i \in 1 .. m + n : c[i] = (v \o w)[i].game_id
  BY <1>1, <1>2
<1> HIDE DEF I, a, b, c, m, n
<1>4. /\ a \o b \in Seq(I) /\ Len(a \o b) = m + n
      /\ \A i \in 1 .. m + n : (a \o b)[i] = IF i <= m THEN a[i] ELSE b[i - m]
  BY <1>3, ConcatProperties
<1>5. ASSUME NEW i \in 1 .. m + n PROVE c[i] = (a \o b)[i]
  <2>1. m \in Nat /\ n \in Nat
    BY <1>2
  <2>2. CASE i <= m
    <3>1. i \in 1 .. m
      BY <2>1, <2>2
    <3>2. (v \o w)[i] = v[i]
      BY <1>2, <2>2
    <3>3. (a \o b)[i] = a[i]
      BY <1>4, <2>2
    <3>4. a[i] = v[i].game_id
      BY <1>3, <3>1
    <3>5. c[i] = (v \o w)[i].game_id
      BY <1>3
    <3>6. QED
      BY <3>2, <3>3, <3>4, <3>5
  <2>3. CASE ~(i <= m)
    <3>1. i - m \in 1 .. n
      BY <2>1, <2>3
    <3>2. (v \o w)[i] = w[i - m]
      BY <1>2, <2>3
    <3>3. (a \o b)[i] = b[i - m]
      BY <1>4, <2>3
    <3>4. b[i - m] = w[i - m].game_id
      BY <1>3, <3>1
    <3>5. c[i] = (v \o w)[i].game_id
      BY <1>3
    <3>6. QED
      BY <3>2, <3>3, <3>4, <3>5
  <2>4. QED
    BY <2>2, <2>3
<1>6. \A i \in 1 .. m + n : c[i] = (a \o b)[i]
  BY <1>5
<1>7. c = a \o b
  BY <1>2, <1>3, <1>4, <1>6, SeqEqual
<1>8. QED
  BY <1>7 DEF a, b, c

\* Nothing lists nothing.
LEMMA NewestOfNone == Newest({}) = <<>> /\ Ids(<<>>) = <<>>
<1>1. Cardinality({}) = 0
  BY FS_EmptySet
<1>2. Oldest({}) = <<>>
  BY <1>1 DEF Oldest
<1>3. Reverse(<<>>) = <<>>
  BY DEF Reverse
<1>4. QED
  BY <1>2, <1>3 DEF Newest, Ids

\* One page and the pages after it.
AllPages(recent, rest) ==
    [before \in NoMore .. Now |->
        IF before = NoMore THEN <<>>
        ELSE Ids(recent[before].games) \o rest[recent[before].next_before]]

\* The pages of some rows.
PagesOf(S, limit, recent) ==
    \A b \in 0 .. Now : recent[b] = Page(Newest(Before(S, b)), limit)

\* A client that follows the pages to the end lists every row, newest first: the
\* page before a time is a function of the rows, and times fall from page to page.
LEMMA PagesListRows ==
    ASSUME NEW S, Timed(S), \A x \in S : x.completed_at \in Times,
           NEW limit \in Nat, limit >= 1, NEW recent, PagesOf(S, limit, recent)
    PROVE  Listed(recent) = Ids(Newest(S))
<1> DEFINE F(b) == Ids(Newest(Before(S, b)))
           g == [b \in NoMore .. Now |-> IF b = NoMore THEN <<>> ELSE F(b)]
           next(b) == recent[b].next_before
<1>1. /\ NoMore = -1 /\ Now \in Nat /\ \A t \in Times : t \in 0 .. Now /\ t \in Nat /\ t < Now
      /\ NoMore \notin 0 .. Now
      /\ \A b \in NoMore .. Now : b = NoMore \/ b \in 0 .. Now
      /\ \A b \in 0 .. Now : b \in NoMore .. Now /\ b \in Nat
      /\ NoMore \in NoMore .. Now
  BY ReadsAssumption DEF NoMore, Now, Times
<1>2. ASSUME NEW b \in 0 .. Now
      PROVE  /\ next(b) = NoMore \/ (next(b) \in 0 .. Now /\ next(b) < b)
             /\ F(b) = Ids(recent[b].games) \o (IF next(b) = NoMore THEN <<>> ELSE F(next(b)))
  <2> DEFINE R == Before(S, b)
             page == Page(Newest(R), limit)
  <2>1. recent[b] = page
    BY DEF PagesOf
  <2>2. Timed(R)
    BY SomeOfTimed DEF Before
  <2>3. CASE R = {}
    <3>1. Newest(R) = <<>> /\ Ids(<<>>) = <<>>
      BY <2>3, NewestOfNone
    <3>2. Window(<<>>, limit) = <<>>
      BY DEF Window
    <3>3. page = [games |-> <<>>, next_before |-> NoMore]
      BY <3>1, <3>2 DEF Page
    <3> HIDE DEF page, R
    <3>4. next(b) = NoMore /\ recent[b].games = <<>>
      BY <2>1, <3>3
    <3>5. <<>> \o <<>> = <<>>
      OBVIOUS
    <3>6. F(b) = <<>>
      BY <3>1 DEF R
    <3>7. QED
      BY <3>1, <3>4, <3>5, <3>6
  <2>4. CASE R # {}
    <3>1. /\ \E x \in R : page.next_before = x.completed_at
          /\ page.games \in Seq(R)
          /\ Newest(R) = page.games \o Newest(Before(R, page.next_before))
      BY <2>2, <2>4, PageStep
    <3> HIDE DEF page
    <3>2. PICK x \in R : page.next_before = x.completed_at
      BY <3>1
    <3> DEFINE t == page.next_before
    <3>3. t \in Times /\ t < b
      BY <3>2 DEF Before
    <3>4. t \in 0 .. Now /\ t # NoMore
      BY <1>1, <3>3
    <3>5. Before(R, t) = Before(S, t)
      <4>1. \A y \in S : y.completed_at \in Nat
        BY <1>1
      <4>2. t \in Nat
        BY <1>1, <3>3
      <4> HIDE DEF t
      <4>3. QED
        BY <1>1, <3>3, <4>1, <4>2 DEF Before
    <3>6. Newest(Before(S, t)) \in Seq(R)
      <4>1. Timed(Before(S, t)) /\ Before(S, t) \subseteq R
        BY <2>2, <3>5, SomeOfTimed DEF Before
      <4>2. Newest(Before(S, t)) \in Seq(Before(S, t))
        BY <4>1, NewestLists
      <4> HIDE DEF t, R
      <4>3. QED
        BY <4>1, <4>2
    <3>7. F(b) = Ids(page.games) \o F(t)
      <4> HIDE DEF t
      <4>1. Newest(R) = page.games \o Newest(Before(S, t))
        BY <3>1, <3>5 DEF t
      <4>2. QED
        BY <3>1, <3>6, <4>1, IdsOfConcat
    <3> HIDE DEF R, F
    <3>8. QED
      BY <2>1, <3>3, <3>4, <3>7
  <2>5. QED
    BY <2>3, <2>4
<1> HIDE DEF F
<1>3. /\ g[NoMore] = <<>> /\ \A b \in 0 .. Now : g[b] = F(b)
  BY <1>1
<1> HIDE DEF g
<1>4. \A b \in 0 .. Now :
          g[b] = Ids(recent[b].games) \o g[next(b)]
  <2>1. \A b \in 0 .. Now : g[next(b)] = IF next(b) = NoMore THEN <<>> ELSE F(next(b))
    BY <1>2, <1>3
  <2>2. QED
    BY <1>2, <1>3, <2>1
<1>5. g = AllPages(recent, g)
  <2>1. g = [b \in NoMore .. Now |-> g[b]]
    BY DEF g
  <2>2. \A b \in NoMore .. Now :
            g[b] = IF b = NoMore THEN <<>> ELSE Ids(recent[b].games) \o g[next(b)]
    BY <1>1, <1>3, <1>4
  <2>3. QED
    BY <2>1, <2>2 DEF AllPages
<1>6. ASSUME NEW h, h = AllPages(recent, h), NEW c \in 0 .. Now
      PROVE  h[c] = g[c]
  <2> DEFINE bad == {b \in 0 .. Now : h[b] # g[b]}
  <2>1. h[NoMore] = <<>>
    BY <1>1, <1>6 DEF AllPages
  <2>2. \A b \in 0 .. Now : h[b] = Ids(recent[b].games) \o h[next(b)]
    BY <1>1, <1>6 DEF AllPages
  <2>3. ASSUME bad # {} PROVE FALSE
    <3>1. bad \in SUBSET Nat
      BY <1>1
    <3>2. PICK b \in bad : \A d \in bad : b <= d
      BY <2>3, <3>1, LeastNatural
    <3>3. b \in 0 .. Now /\ b \in Nat /\ h[b] # g[b]
      BY <1>1
    <3>4. h[next(b)] = g[next(b)]
      <4>1. CASE next(b) = NoMore
        BY <1>3, <2>1, <4>1
      <4>2. CASE next(b) \in 0 .. Now /\ next(b) < b
        <5>1. ~(b <= next(b))
          BY <1>1, <3>3, <4>2
        <5>2. QED
          BY <3>2, <4>2, <5>1
      <4>3. QED
        BY <1>2, <3>3, <4>1, <4>2
    <3>5. QED
      BY <1>4, <2>2, <3>3, <3>4
  <2>4. QED
    BY <2>3
<1>7. Listed(recent) = (CHOOSE h : h = AllPages(recent, h))[Now]
  BY DEF Listed, AllPages
<1>8. Listed(recent) = g[Now]
  <2> DEFINE h == CHOOSE h : h = AllPages(recent, h)
  <2>1. h = AllPages(recent, h)
    BY <1>5
  <2> HIDE DEF h
  <2>2. Now \in 0 .. Now
    BY <1>1
  <2>3. h[Now] = g[Now]
    BY <1>6, <2>1, <2>2
  <2>4. QED
    BY <1>7, <2>3 DEF h
<1>9. Before(S, Now) = S /\ Now \in 0 .. Now
  BY <1>1 DEF Before
<1>10. QED
  BY <1>3, <1>8, <1>9 DEF F

\* What the pages of a player's games list.
LEMMA PagesOfGames ==
    ASSUME NEW G, Games(G), \A g \in G : g.completed_at \in Times,
           NEW p, NEW f, NEW limit \in Nat, limit >= 1, NEW recent,
           \A b \in 0 .. Now : recent[b] = Page(Newest(RecentSummaries(G, p, b, f)), limit)
    PROVE  Listed(recent) = InOrder(G, p, f)
<1> DEFINE A == {x \in G : p \in Uuids(x) /\ Matches(f, x.had_bots)}
           S == {MemorySummary(g, p) : g \in A}
           h == [g \in A |-> MemorySummary(g, p)]
           n == Cardinality(A)
<1>1. Timed(A)
  BY SomeOfTimed DEF Games
<1>2. \A g \in G : g.completed_at \in Times
  OBVIOUS
<1>3. \A g : /\ MemorySummary(g, p).completed_at = g.completed_at
             /\ MemorySummary(g, p).game_id = g.game_id
  BY DEF MemorySummary
<1>4. /\ \A g \in A : h[g] \in S /\ h[g] = MemorySummary(g, p)
      /\ \A s \in S : \E g \in A : h[g] = s
  OBVIOUS
<1>5. \A b : RecentSummaries(G, p, b, f) = Before(S, b)
  <2>1. ASSUME NEW b PROVE RecentSummaries(G, p, b, f) = Before(S, b)
    <3>1. \A s \in Before(S, b) : \E g \in RecentGames(G, p, b, f) : s = MemorySummary(g, p)
      BY <1>3 DEF Before, RecentGames, Mine
    <3>2. \A g \in RecentGames(G, p, b, f) : MemorySummary(g, p) \in Before(S, b)
      BY <1>3 DEF Before, RecentGames, Mine
    <3> HIDE DEF S
    <3>3. QED
      BY <3>1, <3>2 DEF RecentSummaries
  <2>2. QED
    BY <2>1
<1>6. \A g \in A : g \in G
  OBVIOUS
<1>7. InOrder(G, p, f) = Ids(Newest(A))
  BY DEF InOrder
<1> HIDE DEF A, S, h
<1>8. /\ Timed(S) /\ Len(Oldest(S)) = Len(Oldest(A))
      /\ \A i \in 1 .. Len(Oldest(A)) : Oldest(S)[i] = h[Oldest(A)[i]]
  <2>1. \A g \in A : h[g] \in S /\ h[g].completed_at = g.completed_at
    BY <1>3, <1>4
  <2>2. \A s \in S : \E g \in A : h[g] = s
    BY <1>4
  <2>3. QED
    BY <1>1, <2>1, <2>2, MappedRows
<1>9. \A s \in S : s.completed_at \in Times
  BY <1>2, <1>3, <1>4, <1>6
<1>10. PagesOf(S, limit, recent)
  BY <1>5 DEF PagesOf
<1>11. Listed(recent) = Ids(Newest(S))
  BY <1>8, <1>9, <1>10, PagesListRows
<1>12. /\ Newest(A) \in Seq(A) /\ Len(Newest(A)) = n /\ n \in Nat
       /\ \A i \in 1 .. n : Newest(A)[i] = Oldest(A)[n - i + 1]
       /\ Len(Oldest(A)) = n /\ \A i \in 1 .. n : Oldest(A)[i] \in A
  <2>1. Oldest(A) \in Seq(A) /\ Len(Oldest(A)) = n
    BY <1>1, OldestLists DEF Lists
  <2>2. /\ Newest(A) \in Seq(A) /\ Len(Newest(A)) = n /\ n \in Nat
        /\ \A i \in 1 .. n : Newest(A)[i] = Oldest(A)[n - i + 1]
    BY <1>1, NewestLists
  <2>3. \A i \in 1 .. n : Oldest(A)[i] \in A
    BY <2>1
  <2>4. QED
    BY <2>1, <2>2, <2>3
<1>13. Cardinality(S) = n
  BY <1>1, <1>8, OldestLists
<1> HIDE DEF n
<1>14. /\ Newest(S) \in Seq(S) /\ Len(Newest(S)) = n
       /\ \A i \in 1 .. n : Newest(S)[i] = Oldest(S)[n - i + 1]
  BY <1>8, <1>13, NewestLists
<1>15. \A i \in 1 .. n : Newest(S)[i].game_id = Newest(A)[i].game_id
  <2>1. ASSUME NEW i \in 1 .. n PROVE Newest(S)[i].game_id = Newest(A)[i].game_id
    <3>1. n - i + 1 \in 1 .. n
      BY <1>12
    <3> DEFINE j == n - i + 1
    <3>2. Newest(S)[i] = Oldest(S)[j] /\ Newest(A)[i] = Oldest(A)[j]
      BY <1>12, <1>14
    <3>3. j \in 1 .. n
      BY <3>1
    <3> HIDE DEF j
    <3>4. Oldest(S)[j] = h[Oldest(A)[j]] /\ Oldest(A)[j] \in A
      BY <1>8, <1>12, <3>3
    <3>5. QED
      BY <1>3, <1>4, <3>2, <3>4
  <2>2. QED
    BY <2>1
<1>16. Ids(Newest(S)) = Ids(Newest(A))
  <2>1. DOMAIN Newest(S) = 1 .. n /\ DOMAIN Newest(A) = 1 .. n
    BY <1>12, <1>14
  <2>2. QED
    BY <1>15, <2>1 DEF Ids
<1>17. QED
  BY <1>7, <1>11, <1>16

\* The pages of either repository list what it keeps.
LEMMA PagesListGames == RepositoriesInv => PagesListEveryGame
<1> DEFINE last == {recorded[i] : i \in Len(recorded) - Len(store.order) + 1 .. Len(recorded)}
<1> SUFFICES ASSUME RepositoriesInv,
                    NEW p \in Reader, NEW f \in Filter, NEW limit \in 1 .. MaxResults
             PROVE  /\ Listed([before \in 0 .. Now |-> MemoryRecent(store, p, limit, before, f)])
                       = InOrder(last, p, f)
                    /\ Listed([before \in 0 .. Now |->
                                   PostgresRecent(tables, p, limit, before, f)])
                       = InOrder(Firsts, p, f)
  BY DEF PagesListEveryGame
<1>1. limit \in Nat /\ limit >= 1
  BY ReadsAssumption
<1>2. /\ Games(Kept) /\ Games(Firsts) /\ StoredOf(store, p) = Mine(Kept, p)
      /\ Kept = {LastOf(recorded, Limit)[i] : i \in DOMAIN LastOf(recorded, Limit)}
      /\ \A g \in Kept \cup Firsts : g.completed_at \in Times
  BY HeldGames
<1>3. last = Kept
  <2> DEFINE w == LastOf(recorded, Limit)
             n == Len(recorded)
             m == Len(w)
  <2>1. recorded \in Seq(Handed) /\ Limit \in Nat
    BY HistoryAssumption DEF RepositoriesInv, GivenOnce
  <2>2. /\ w \in Seq(Handed) /\ m = IF n <= Limit THEN n ELSE Limit
        /\ \A i \in 1 .. m : w[i] = recorded[n - m + i]
    BY <2>1, LastOfProperties
  <2>3. n \in Nat
    BY <2>1
  <2>4. store.order = Ids(w)
    BY DEF RepositoriesInv, NewestHeld, Holds
  <2> HIDE DEF w, n
  <2>5. DOMAIN w = 1 .. m /\ m \in Nat /\ m <= n
    BY <2>1, <2>2, <2>3
  <2>6. Len(store.order) = m
    <3>1. store.order = [i \in 1 .. m |-> w[i].game_id]
      BY <2>4, <2>5 DEF Ids
    <3> HIDE DEF m
    <3>2. QED
      BY <2>5, <3>1
  <2>7. last = {recorded[i] : i \in n - m + 1 .. n}
    BY <2>6 DEF n
  <2>8. Kept = {w[i] : i \in 1 .. m}
    BY <1>2, <2>5 DEF w
  <2> HIDE DEF m, last
  <2>9. \A i \in 1 .. m : n - m + i \in n - m + 1 .. n
    BY <2>3, <2>5
  <2>10. \A i \in n - m + 1 .. n : i - (n - m) \in 1 .. m /\ n - m + (i - (n - m)) = i
    BY <2>3, <2>5
  <2>11. \A x \in last : x \in Kept
    BY <2>2, <2>7, <2>8, <2>10
  <2>12. \A x \in Kept : x \in last
    BY <2>2, <2>7, <2>8, <2>9
  <2>13. QED
    BY <2>11, <2>12
<1> HIDE DEF last
<1>4. Listed([before \in 0 .. Now |-> MemoryRecent(store, p, limit, before, f)])
      = InOrder(Kept, p, f)
  <2> DEFINE recent == [before \in 0 .. Now |-> MemoryRecent(store, p, limit, before, f)]
  <2>1. \A b \in 0 .. Now : recent[b] = Page(Newest(RecentSummaries(Kept, p, b, f)), limit)
    BY <1>2, RecentFromStore
  <2>2. \A g \in Kept : g.completed_at \in Times
    BY <1>2
  <2> HIDE DEF recent
  <2>3. Listed(recent) = InOrder(Kept, p, f)
    BY <1>1, <1>2, <2>1, <2>2, PagesOfGames
  <2>4. QED
    BY <2>3 DEF recent
<1>5. Listed([before \in 0 .. Now |-> PostgresRecent(tables, p, limit, before, f)])
      = InOrder(Firsts, p, f)
  <2> DEFINE recent == [before \in 0 .. Now |-> PostgresRecent(tables, p, limit, before, f)]
  <2>1. tables = RowsOf(Firsts)
    BY DEF RepositoriesInv, FirstsAreRows
  <2>2. \A b \in 0 .. Now : recent[b] = Page(Newest(RecentSummaries(Firsts, p, b, f)), limit)
    BY <1>2, <2>1, RecentFromTables
  <2>3. \A g \in Firsts : g.completed_at \in Times
    BY <1>2
  <2> HIDE DEF recent
  <2>4. Listed(recent) = InOrder(Firsts, p, f)
    BY <1>1, <1>2, <2>2, <2>3, PagesOfGames
  <2>5. QED
    BY <2>4 DEF recent
<1>6. QED
  BY <1>3, <1>4, <1>5
-----------------------------------------------------------------------------
(* The repositories. *)

\* After any results, in any order of completion and handed in any number of times,
\* the store holds the newest of those it took, no game that it retains was taken
\* twice, and the tables hold the first result of every game.
THEOREM RepositoriesInvariant == Repositories!Spec => []RepositoriesInv
<1>1. Repositories!Init => RepositoriesInv
  BY InitialRepositories
<1>2. RepositoriesInv /\ [Repositories!Next]_(Repositories!vars) => RepositoriesInv'
  BY RepositoriesSteps
<1>3. QED
  BY <1>1, <1>2, PTL DEF Repositories!Spec

\* The store in memory holds the last Limit results it took, under their own ids and
\* in order: eviction removes the oldest and what it removes from the order it
\* removes from the map.
THEOREM StoreHoldsTheNewest == Repositories!Spec => []WindowIsNewest
<1>1. RepositoriesInv => WindowIsNewest
  BY DEF RepositoriesInv, NewestHeld, Holds, LastOf, Ids, WindowIsNewest
<1>2. QED
  BY <1>1, RepositoriesInvariant, PTL

\* A game is taken a second time only when Limit others were taken in between.
THEOREM RetainedIsTakenOnce == Repositories!Spec => []RecordedOnce
<1>1. RepositoriesInv => RecordedOnce
  BY DEF RepositoriesInv, NewestHeld
<1>2. QED
  BY <1>1, RepositoriesInvariant, PTL

\* Whatever was handed in, a player reads the same profile under every filter, the
\* same recent games and the same detail of a game from the store, which computes
\* them from the results, as from tables that hold the rows of the same results.
THEOREM RepositoriesReadAlike == Repositories!Spec => []RepositoriesAgree
<1>1. RepositoriesInv => RepositoriesAgree
  BY RepositoriesAlike
<1>2. QED
  BY <1>1, RepositoriesInvariant, PTL

\* Whatever was handed in and whatever the page's size, the client that asks for the
\* page before next_before until there is none has listed each game that the
\* repository keeps of the player, once and newest first.
THEOREM PagesListAll == Repositories!Spec => []PagesListEveryGame
<1>1. RepositoriesInv => PagesListEveryGame
  BY PagesListGames
<1>2. QED
  BY <1>1, RepositoriesInvariant, PTL
-----------------------------------------------------------------------------
(* The subscribers of the rooms. *)

\* Games as they are won, and the results made of them.
GameId == Room \X Nat
Finished ==
    {[id |-> id, players |-> o.players, winner |-> o.winner, moves |-> o.moves] :
        id \in GameId, o \in Outcome}
Results ==
    {GameResult(g, r, n, at, had_bots) :
        g \in Finished, r \in Room, n \in Nat, at \in Nat, had_bots \in BOOLEAN}

Tasks ==
    {Idle} \cup [step : {"won"}, game : Finished]
    \cup [step : {"record", "aggregate", "count"}, result : Results]

StatsTypes ==
    /\ persistent \in BOOLEAN /\ clock \in Nat /\ ended \in [Room -> Nat]
    /\ task \in [Room -> Tasks]
    /\ recorded \in Seq(Results) /\ counted \in [Room -> Seq(Results)]

HasResult(r) == task[r].step \in {"record", "aggregate", "count"}
Taken(r) == task[r].step \in {"aggregate", "count"}

\* A room's totals say how many results it has counted.
TotalsSayHowMany ==
    \A r \in Room :
        /\ r \in DOMAIN rooms => rooms[r].games_played = Len(counted[r])
        /\ r \notin DOMAIN rooms => counted[r] = <<>>

\* A result that waits to be recorded bears the number of the next count.
NumbersAreNext ==
    \A r \in Room : r \notin reset /\ HasResult(r) =>
        task[r].result.game_number = Len(counted[r]) + 1

\* The time of completion tells results apart: it is taken when they are made.
TimesAreTaken ==
    /\ \A i \in DOMAIN recorded : recorded[i].completed_at < clock
    /\ \A r \in Room : HasResult(r) => task[r].result.completed_at < clock
    /\ \A r \in Room : At(r, "record") =>
          /\ \A i \in DOMAIN recorded :
                recorded[i].completed_at # task[r].result.completed_at
          /\ \A s \in Room : s # r /\ At(s, "record") =>
                task[s].result.completed_at # task[r].result.completed_at

\* What the history has taken is counted once at most.
TakenIsNotCounted ==
    \A r \in Room : Taken(r) =>
        /\ \E k \in DOMAIN recorded : recorded[k] = task[r].result
        /\ \A i \in DOMAIN counted[r] : counted[r][i] # task[r].result

StatsInv ==
    /\ StatsTypes
    /\ TotalsSayHowMany /\ NumbersAreNext /\ GamesAreNumbered
    /\ TimesAreTaken /\ TakenIsNotCounted /\ CountsOnlyRecorded

LEMMA ResultFacts ==
    /\ \A e \in Results : /\ e.completed_at \in Nat /\ e.game_number \in Nat
                          /\ e.game_id \in GameId
    /\ \A g \in Finished, r \in Room, n \in Nat, at \in Nat, had_bots \in BOOLEAN :
          LET e == GameResult(g, r, n, at, had_bots)
          IN  e \in Results /\ e.completed_at = at /\ e.game_number = n
<1>1. \A g, r, n, at, had_bots :
          LET e == GameResult(g, r, n, at, had_bots)
          IN  e.completed_at = at /\ e.game_number = n /\ e.game_id = g.id
  BY DEF GameResult
<1>2. \A g \in Finished : g.id \in GameId
  BY DEF Finished
<1>3. QED
  BY <1>1, <1>2 DEF Results

LEMMA TaskFacts ==
    ASSUME StatsTypes, NEW r \in Room
    PROVE  /\ HasResult(r) => task[r].result \in Results
           /\ At(r, "won") => task[r].game \in Finished
           /\ At(r, "record") => HasResult(r)
           /\ Taken(r) => HasResult(r)
           /\ counted[r] \in Seq(Results) /\ Len(counted[r]) \in Nat
<1>1. task[r] \in Tasks /\ counted[r] \in Seq(Results)
  BY DEF StatsTypes
<1>2. Idle.step = "idle"
  BY DEF Idle
<1>3. QED
  BY <1>1, <1>2 DEF Tasks, HasResult, Taken, At

LEMMA Moves ==
    ASSUME StatsTypes, NEW r \in Room, NEW to \in Tasks, Goes(r, to)
    PROVE  /\ task' \in [Room -> Tasks] /\ task'[r] = to
           /\ \A s \in Room : s # r => task'[s] = task[s]
BY DEF StatsTypes, Goes

\* A step that leaves everything counted and recorded alone, and takes the task of
\* r on with the result it has or to where it has none.
LEMMA QuietStep ==
    ASSUME StatsInv, NEW r \in Room, NEW to \in Tasks, Goes(r, to),
           \/ to.step \notin {"record", "aggregate", "count"}
           \/ Taken(r) /\ to = [step |-> "count", result |-> task[r].result],
           UNCHANGED <<persistent, reset, clock, rooms, recorded, counted>>,
           ended' \in [Room -> Nat]
    PROVE  StatsInv'
<1> USE DEF StatsInv
<1>1. /\ task' \in [Room -> Tasks] /\ task'[r] = to
      /\ \A s \in Room : s # r => task'[s] = task[s]
  BY Moves
<1>2. StatsTypes'
  BY <1>1 DEF StatsTypes
<1>3. HasResult(r)' => HasResult(r) /\ Taken(r) /\ task'[r].result = task[r].result
  BY <1>1 DEF HasResult, Taken
<1>4. \A s \in Room : HasResult(s)' => HasResult(s) /\ task'[s].result = task[s].result
  BY <1>1, <1>3 DEF HasResult
<1>5. \A s \in Room : Taken(s)' => Taken(s) /\ task'[s].result = task[s].result
  BY <1>1, <1>3 DEF HasResult, Taken
<1>6. \A s \in Room : At(s, "record")' => At(s, "record") /\ task'[s].result = task[s].result
  BY <1>1 DEF At
<1>7. TotalsSayHowMany'
  BY DEF TotalsSayHowMany
<1>8. NumbersAreNext'
  BY <1>4 DEF NumbersAreNext
<1>9. GamesAreNumbered'
  BY DEF GamesAreNumbered
<1>10. TimesAreTaken'
  BY <1>4, <1>6 DEF TimesAreTaken
<1>11. TakenIsNotCounted'
  BY <1>5 DEF TakenIsNotCounted
<1>12. CountsOnlyRecorded'
  BY DEF CountsOnlyRecorded
<1>13. QED
  BY <1>2, <1>7, <1>8, <1>9, <1>10, <1>11, <1>12

LEMMA MakeResultKeeps ==
    ASSUME StatsInv, NEW r \in Room, MakeResult(r)
    PROVE  StatsInv'
<1> USE DEF StatsInv
<1> DEFINE e == GameResult(task[r].game, r, NextGameNumber(r), clock, RoomContainsBots(r))
           to == [step |-> "record", result |-> e]
<1>1. /\ At(r, "won") /\ Goes(r, to) /\ clock' = clock + 1
      /\ UNCHANGED <<persistent, reset, ended, rooms, recorded, counted>>
  BY DEF MakeResult, history, totals
<1>2. NextGameNumber(r) = Len(counted[r]) + 1 /\ Len(counted[r]) \in Nat
  <2>1. CASE r \in DOMAIN rooms
    BY <2>1, TaskFacts DEF NextGameNumber, Entry, TotalsSayHowMany
  <2>2. CASE r \notin DOMAIN rooms
    <3>1. Len(counted[r]) = 0
      BY <2>2 DEF TotalsSayHowMany
    <3>2. QED
      BY <2>2, <3>1 DEF NextGameNumber, Entry, NewRoom
  <2>3. QED
    BY <2>1, <2>2
<1>3. /\ e \in Results /\ e.completed_at = clock
      /\ e.game_number = Len(counted[r]) + 1 /\ clock \in Nat
  <2>1. task[r].game \in Finished /\ clock \in Nat /\ RoomContainsBots(r) \in BOOLEAN
    BY <1>1, TaskFacts DEF StatsTypes, RoomContainsBots
  <2>2. NextGameNumber(r) \in Nat
    BY <1>2
  <2>3. QED
    BY <1>2, <2>1, <2>2, ResultFacts
<1> HIDE DEF e
<1>4. to \in Tasks
  BY <1>3 DEF Tasks
<1>5. /\ task' \in [Room -> Tasks] /\ task'[r] = to
      /\ \A s \in Room : s # r => task'[s] = task[s]
  BY <1>1, <1>4, Moves
<1>6. task'[r].result = e /\ task'[r].step = "record"
  BY <1>5
<1>7. /\ \A s \in Room : HasResult(s)' => s = r \/ HasResult(s)
      /\ \A s \in Room : At(s, "record")' => s = r \/ At(s, "record")
      /\ \A s \in Room : Taken(s)' => s # r /\ Taken(s)
  BY <1>5, <1>6 DEF HasResult, At, Taken
<1>8. \A s \in Room : HasResult(s) => task[s].result.completed_at \in Nat
  BY TaskFacts, ResultFacts
<1>9. \A i \in DOMAIN recorded : recorded[i].completed_at \in Nat
  BY ResultFacts DEF StatsTypes
<1>10. StatsTypes'
  BY <1>1, <1>3, <1>5 DEF StatsTypes
<1>11. NumbersAreNext'
  BY <1>1, <1>3, <1>5, <1>6, <1>7 DEF NumbersAreNext
<1>12. TimesAreTaken'
  <2>1. \A i \in DOMAIN recorded : recorded[i].completed_at < clock'
                                   /\ recorded[i].completed_at # clock
    BY <1>1, <1>3, <1>9 DEF TimesAreTaken
  <2>2. \A s \in Room : HasResult(s) => /\ task[s].result.completed_at < clock'
                                        /\ task[s].result.completed_at # clock
    BY <1>1, <1>3, <1>8 DEF TimesAreTaken
  <2>3. \A s \in Room : HasResult(s)' => task'[s].result.completed_at < clock'
    BY <1>1, <1>3, <1>5, <1>6, <1>7, <2>2
  <2>4. ASSUME NEW s \in Room, At(s, "record")'
        PROVE  \A i \in DOMAIN recorded :
                  recorded[i].completed_at # task'[s].result.completed_at
    BY <1>3, <1>5, <1>6, <1>7, <2>1, <2>4 DEF TimesAreTaken
  <2>5. ASSUME NEW s \in Room, At(s, "record")',
               NEW u \in Room, u # s, At(u, "record")'
        PROVE  task'[u].result.completed_at # task'[s].result.completed_at
    <3>1. \A x \in Room : At(x, "record") => task[x].result.completed_at # clock
      BY <2>2, TaskFacts
    <3>2. CASE s = r
      BY <1>3, <1>5, <1>6, <1>7, <2>5, <3>1, <3>2
    <3>3. CASE u = r
      BY <1>3, <1>5, <1>6, <1>7, <2>5, <3>1, <3>3
    <3>4. CASE s # r /\ u # r
      BY <1>5, <1>7, <2>5, <3>4 DEF TimesAreTaken
    <3>5. QED
      BY <3>2, <3>3, <3>4
  <2>6. QED
    BY <1>1, <2>1, <2>3, <2>4, <2>5 DEF TimesAreTaken
<1>13. TakenIsNotCounted'
  BY <1>1, <1>5, <1>7 DEF TakenIsNotCounted
<1>14. TotalsSayHowMany' /\ GamesAreNumbered' /\ CountsOnlyRecorded'
  BY <1>1 DEF TotalsSayHowMany, GamesAreNumbered, CountsOnlyRecorded
<1>15. QED
  BY <1>10, <1>11, <1>12, <1>13, <1>14

\* The history takes the result of r's task, which goes on with it or gives up.
LEMMA TakeResultKeeps ==
    ASSUME StatsInv, NEW r \in Room, At(r, "record"),
           NEW to \in Tasks, Goes(r, to),
           \/ to = Idle
           \/ to \in [step : {"aggregate", "count"}, result : {task[r].result}],
           recorded' = Append(recorded, task[r].result),
           UNCHANGED <<persistent, reset, clock, ended, rooms, counted>>
    PROVE  StatsInv'
<1> USE DEF StatsInv
<1> DEFINE e == task[r].result
<1>1. /\ task' \in [Room -> Tasks] /\ task'[r] = to
      /\ \A s \in Room : s # r => task'[s] = task[s]
  BY Moves
<1>2. HasResult(r) /\ e \in Results /\ recorded \in Seq(Results)
  BY TaskFacts DEF StatsTypes
<1> HIDE DEF e
<1>3. recorded' = Append(recorded, e)
  BY DEF e
<1>4. /\ recorded' \in Seq(Results)
      /\ DOMAIN recorded = 1 .. Len(recorded) /\ DOMAIN recorded' = 1 .. Len(recorded) + 1
      /\ Len(recorded) \in Nat /\ recorded'[Len(recorded) + 1] = e
      /\ \A i \in 1 .. Len(recorded) : recorded'[i] = recorded[i]
  BY <1>2, <1>3, AppendProperties
<1>5. \A i \in DOMAIN recorded' : i \in DOMAIN recorded \/ i = Len(recorded) + 1
  BY <1>4
<1>6. Idle.step = "idle"
  BY DEF Idle
<1>7. /\ \A s \in Room : HasResult(s)' => HasResult(s) /\ task'[s].result = task[s].result
      /\ \A s \in Room : At(s, "record")' =>
            s # r /\ At(s, "record") /\ task'[s].result = task[s].result
      /\ \A s \in Room : Taken(s)' => s = r \/ Taken(s)
  BY <1>1, <1>2, <1>6 DEF HasResult, At, Taken
<1>8. StatsTypes'
  BY <1>1, <1>4 DEF StatsTypes
<1>9. TotalsSayHowMany' /\ GamesAreNumbered'
  BY DEF TotalsSayHowMany, GamesAreNumbered
<1>10. NumbersAreNext'
  BY <1>7 DEF NumbersAreNext
<1>11. TimesAreTaken'
  <2>1. e.completed_at < clock
    BY <1>2 DEF TimesAreTaken, e
  <2>2. \A i \in DOMAIN recorded' : recorded'[i].completed_at < clock
    BY <1>4, <1>5, <2>1 DEF TimesAreTaken
  <2>3. ASSUME NEW s \in Room, At(s, "record")'
        PROVE  \A i \in DOMAIN recorded' :
                  recorded'[i].completed_at # task'[s].result.completed_at
    <3>1. e.completed_at # task[s].result.completed_at
      BY <1>7, <2>3 DEF TimesAreTaken, e
    <3>2. \A i \in DOMAIN recorded : recorded[i].completed_at # task[s].result.completed_at
      BY <1>7, <2>3 DEF TimesAreTaken
    <3>3. QED
      BY <1>4, <1>5, <1>7, <2>3, <3>1, <3>2
  <2>4. QED
    BY <1>7, <2>2, <2>3 DEF TimesAreTaken
<1>12. CountsOnlyRecorded'
  <2>1. ASSUME NEW x, \E k \in DOMAIN recorded : recorded[k] = x
        PROVE  \E k \in DOMAIN recorded' : recorded'[k] = x
    BY <1>4, <2>1
  <2>2. QED
    BY <2>1 DEF CountsOnlyRecorded
<1>13. TakenIsNotCounted'
  <2>1. \A i \in DOMAIN counted[r] : counted[r][i] # e
    <3>1. ASSUME NEW i \in DOMAIN counted[r], counted[r][i] = e PROVE FALSE
      <4>1. PICK k \in DOMAIN recorded : recorded[k] = e
        BY <3>1 DEF CountsOnlyRecorded
      <4>2. QED
        BY <4>1 DEF TimesAreTaken, e
    <3>2. QED
      BY <3>1
  <2>2. Taken(r)' => task'[r].result = e /\ \E k \in DOMAIN recorded' : recorded'[k] = e
    BY <1>1, <1>4, <1>6 DEF Taken, e
  <2>3. ASSUME NEW s \in Room, s # r, Taken(s)'
        PROVE  /\ \E k \in DOMAIN recorded' : recorded'[k] = task'[s].result
               /\ \A i \in DOMAIN counted[s] : counted[s][i] # task'[s].result
    <3>1. Taken(s) /\ task'[s] = task[s]
      BY <1>1, <1>7, <2>3
    <3>2. PICK k \in DOMAIN recorded : recorded[k] = task[s].result
      BY <3>1 DEF TakenIsNotCounted
    <3>3. k \in DOMAIN recorded' /\ recorded'[k] = task[s].result
      BY <1>4, <3>2
    <3>4. QED
      BY <3>1, <3>3 DEF TakenIsNotCounted
  <2>4. QED
    BY <2>1, <2>2, <2>3 DEF TakenIsNotCounted
<1>14. QED
  BY <1>8, <1>9, <1>10, <1>11, <1>12, <1>13

LEMMA RecordGameKeeps ==
    ASSUME StatsInv, NEW r \in Room, RecordGame(r)
    PROVE  StatsInv'
<1> USE DEF StatsInv
<1> DEFINE e == task[r].result
           old == counted[r]
           after == RoomAfter(Entry(rooms, r, NewRoom), e)
<1>1. /\ At(r, "count") /\ Goes(r, Idle)
      /\ rooms' = With(rooms, r, after)
      /\ counted' = [counted EXCEPT ![r] = Append(@, e)]
      /\ UNCHANGED <<persistent, reset, clock, ended, recorded>>
  BY DEF RecordGame, history
<1>2. Taken(r) /\ HasResult(r)
  BY <1>1 DEF At, Taken, HasResult
<1>3. e \in Results /\ old \in Seq(Results) /\ Len(old) \in Nat
  BY <1>2, TaskFacts
<1>4. after.games_played = Entry(rooms, r, NewRoom).games_played + 1
  BY DEF RoomAfter
<1> HIDE DEF e, old, after
<1>5. Idle \in Tasks /\ Idle.step = "idle"
  BY DEF Tasks, Idle
<1>6. /\ task' \in [Room -> Tasks] /\ task'[r] = Idle
      /\ \A s \in Room : s # r => task'[s] = task[s]
  BY <1>1, <1>5, Moves
<1>7. /\ Append(old, e) \in Seq(Results) /\ Len(Append(old, e)) = Len(old) + 1
      /\ Append(old, e)[Len(old) + 1] = e
      /\ \A i \in 1 .. Len(old) : Append(old, e)[i] = old[i]
      /\ DOMAIN old = 1 .. Len(old) /\ DOMAIN Append(old, e) = 1 .. Len(old) + 1
  BY <1>3, AppendProperties
<1> DEFINE new == Append(old, e)
<1>8. /\ counted'[r] = new /\ \A s \in Room : s # r => counted'[s] = counted[s]
      /\ counted' \in [Room -> Seq(Results)]
  BY <1>1, <1>7 DEF StatsTypes, old
<1>9. \A i \in DOMAIN new : i \in DOMAIN old \/ i = Len(old) + 1
  BY <1>3, <1>7
<1> HIDE DEF new
<1>10. new[Len(old) + 1] = e /\ Len(new) = Len(old) + 1 /\ DOMAIN new = 1 .. Len(old) + 1
       /\ \A i \in DOMAIN old : i \in DOMAIN new /\ new[i] = old[i]
  BY <1>3, <1>7 DEF new
<1>11. \A s \in Room : HasResult(s)' \/ At(s, "record")' \/ Taken(s)' =>
          /\ s # r /\ task'[s] = task[s] /\ HasResult(s)' = HasResult(s)
          /\ At(s, "record")' = At(s, "record") /\ Taken(s)' = Taken(s)
  BY <1>5, <1>6 DEF HasResult, At, Taken
<1>12. StatsTypes'
  BY <1>1, <1>6, <1>8 DEF StatsTypes
<1>13. TotalsSayHowMany'
  <2>1. Entry(rooms, r, NewRoom).games_played = Len(old)
    <3>1. CASE r \in DOMAIN rooms
      BY <3>1 DEF TotalsSayHowMany, Entry, old
    <3>2. CASE r \notin DOMAIN rooms
      <4>1. old = <<>> /\ Len(<<>>) = 0
        BY <3>2 DEF TotalsSayHowMany, old
      <4>2. QED
        BY <3>2, <4>1 DEF Entry, NewRoom
    <3>3. QED
      BY <3>1, <3>2
  <2>2. r \in DOMAIN rooms' /\ rooms'[r].games_played = Len(new)
    BY <1>1, <1>4, <1>10, <2>1 DEF With
  <2>3. \A s \in Room : s # r => /\ s \in DOMAIN rooms' <=> s \in DOMAIN rooms
                                 /\ s \in DOMAIN rooms => rooms'[s] = rooms[s]
    BY <1>1 DEF With
  <2>4. QED
    BY <1>8, <2>2, <2>3 DEF TotalsSayHowMany
<1>14. NumbersAreNext'
  BY <1>1, <1>8, <1>11 DEF NumbersAreNext
<1>15. GamesAreNumbered'
  <2>1. r \notin reset => e.game_number = Len(old) + 1
    BY <1>2 DEF NumbersAreNext, e, old
  <2>2. r \notin reset => \A i \in DOMAIN new : new[i].game_number = i
    BY <1>9, <1>10, <2>1 DEF GamesAreNumbered, old
  <2>3. QED
    BY <1>1, <1>8, <2>2 DEF GamesAreNumbered
<1>16. TimesAreTaken'
  BY <1>1, <1>11 DEF TimesAreTaken
<1>17. TakenIsNotCounted'
  BY <1>1, <1>8, <1>11 DEF TakenIsNotCounted
<1>18. CountsOnlyRecorded'
  <2>1. \A i \in DOMAIN old : old[i] # e
    BY <1>2 DEF TakenIsNotCounted, e, old
  <2>2. \E k \in DOMAIN recorded : recorded[k] = e
    BY <1>2 DEF TakenIsNotCounted, e
  <2>3. \A i \in DOMAIN new : \E k \in DOMAIN recorded : recorded[k] = new[i]
    BY <1>9, <1>10, <2>2 DEF CountsOnlyRecorded, old
  <2>4. ASSUME NEW i \in DOMAIN new, NEW j \in DOMAIN new, i # j PROVE new[i] # new[j]
    <3>1. CASE i \in DOMAIN old /\ j \in DOMAIN old
      BY <1>10, <2>4, <3>1 DEF CountsOnlyRecorded, old
    <3>2. CASE i \notin DOMAIN old \/ j \notin DOMAIN old
      BY <1>9, <1>10, <2>1, <2>4, <3>2
    <3>3. QED
      BY <3>1, <3>2
  <2>5. QED
    BY <1>1, <1>8, <2>3, <2>4 DEF CountsOnlyRecorded
<1>19. QED
  BY <1>12, <1>13, <1>14, <1>15, <1>16, <1>17, <1>18

LEMMA ResetKeeps ==
    ASSUME StatsInv, NEW r \in Room, ResetRoomStats(r)
    PROVE  StatsInv'
<1> USE DEF StatsInv
<1>1. /\ reset' = reset \cup {r} /\ rooms' = [x \in DOMAIN rooms \ {r} |-> rooms[x]]
      /\ counted' = [counted EXCEPT ![r] = <<>>]
      /\ UNCHANGED <<persistent, task, clock, ended, recorded>>
  BY DEF ResetRoomStats, history
<1>2. /\ counted'[r] = <<>> /\ \A s \in Room : s # r => counted'[s] = counted[s]
      /\ counted' \in [Room -> Seq(Results)] /\ DOMAIN <<>> = {}
  BY <1>1 DEF StatsTypes
<1>3. StatsTypes'
  BY <1>1, <1>2 DEF StatsTypes
<1>4. TotalsSayHowMany'
  BY <1>1, <1>2 DEF TotalsSayHowMany
<1>5. NumbersAreNext' /\ GamesAreNumbered'
  BY <1>1, <1>2 DEF NumbersAreNext, GamesAreNumbered, HasResult
<1>6. TimesAreTaken'
  BY <1>1 DEF TimesAreTaken, HasResult, At
<1>7. TakenIsNotCounted'
  BY <1>1, <1>2 DEF TakenIsNotCounted, Taken
<1>8. CountsOnlyRecorded'
  BY <1>1, <1>2 DEF CountsOnlyRecorded
<1>9. QED
  BY <1>3, <1>4, <1>5, <1>6, <1>7, <1>8

\* What a step of r's subscriber does to the history: nothing, or it takes the
\* result of the task.
LEMMA HistorySteps ==
    ASSUME StatsTypes, NEW r \in Room, Recorded(r) \/ RecordFails(r)
    PROVE  /\ At(r, "record") /\ UNCHANGED <<persistent, reset, clock, ended, rooms, counted>>
           /\ \/ Goes(r, Idle) /\ UNCHANGED history
              \/ /\ \/ Goes(r, Idle)
                    \/ Goes(r, [step |-> "count", result |-> task[r].result])
                    \/ Goes(r, [step |-> "aggregate", result |-> task[r].result])
                 /\ ~IsRecorded(task[r].result)
                 /\ recorded' = Append(recorded, task[r].result)
                 /\ persistent => tables' = WithRows(tables, task[r].result)
                 /\ ~persistent => store' = Stored(store, task[r].result)
BY DEF Recorded, RecordFails, Transaction, history, totals

LEMMA StatsSteps ==
    ASSUME StatsInv, [Next]_vars
    PROVE  StatsInv'
<1> USE DEF StatsInv
<1>1. Idle \in Tasks /\ Idle.step = "idle"
  BY DEF Tasks, Idle
<1>2. ASSUME NEW r \in Room, NEW id \in GameId, NEW o \in Outcome,
             Submit(r, [id |-> id, players |-> o.players, winner |-> o.winner,
                        moves |-> o.moves]),
             ended' \in [Room -> Nat]
      PROVE  StatsInv'
  <2> DEFINE g == [id |-> id, players |-> o.players, winner |-> o.winner,
                   moves |-> o.moves]
             to == [step |-> "won", game |-> g]
  <2>1. g \in Finished
    BY DEF Finished
  <2>2. Goes(r, to) /\ UNCHANGED <<persistent, reset, clock, rooms, recorded, counted>>
    BY <1>2 DEF Submit, history, totals
  <2> HIDE DEF g
  <2>3. to \in Tasks /\ to.step \notin {"record", "aggregate", "count"}
    BY <2>1 DEF Tasks
  <2> HIDE DEF to
  <2>4. QED
    BY <1>2, <2>2, <2>3, QuietStep
<1>3. ASSUME NEW r \in Room, GameWon(r) PROVE StatsInv'
  <2>1. ended[r] \in Nat /\ ended' = [ended EXCEPT ![r] = @ + 1]
    BY <1>3 DEF GameWon, StatsTypes
  <2>2. ended' \in [Room -> Nat] /\ <<r, ended[r] + 1>> \in GameId
    BY <2>1 DEF StatsTypes, GameId
  <2>3. PICK o \in Outcome :
          Submit(r, [id |-> <<r, ended[r] + 1>>, players |-> o.players,
                     winner |-> o.winner, moves |-> o.moves])
    BY <1>3 DEF GameWon
  <2>4. QED
    BY <1>2, <2>2, <2>3
<1>4. ASSUME NEW r \in Room, GameWonAgain(r) PROVE StatsInv'
  <2>1. PICK i \in DOMAIN recorded, o \in Outcome :
          Submit(r, [id |-> recorded[i].game_id, players |-> o.players,
                     winner |-> o.winner, moves |-> o.moves])
    BY <1>4 DEF GameWonAgain
  <2>2. recorded[i].game_id \in GameId
    BY <2>1, ResultFacts DEF StatsTypes
  <2>3. ended' \in [Room -> Nat]
    BY <1>4 DEF GameWonAgain, StatsTypes
  <2>4. QED
    BY <1>2, <2>1, <2>2, <2>3
<1>5. ASSUME NEW r \in Room, Duplicate(r) PROVE StatsInv'
  <2>1. Goes(r, Idle)
        /\ UNCHANGED <<persistent, reset, clock, ended, rooms, recorded, counted>>
    BY <1>5 DEF Duplicate, history, totals
  <2>2. ended' \in [Room -> Nat]
    BY <2>1 DEF StatsTypes
  <2>3. QED
    BY <1>1, <2>1, <2>2, QuietStep
<1>6. ASSUME NEW r \in Room, Recorded(r) \/ RecordFails(r) PROVE StatsInv'
  <2> DEFINE e == task[r].result
             count == [step |-> "count", result |-> e]
             aggregate == [step |-> "aggregate", result |-> e]
  <2>1. /\ At(r, "record") /\ UNCHANGED <<persistent, reset, clock, ended, rooms, counted>>
        /\ \/ Goes(r, Idle) /\ UNCHANGED history
           \/ /\ Goes(r, Idle) \/ Goes(r, count) \/ Goes(r, aggregate)
              /\ recorded' = Append(recorded, e)
    BY <1>6, HistorySteps
  <2>2. e \in Results /\ ended' \in [Room -> Nat]
    BY <2>1, TaskFacts DEF StatsTypes
  <2>3. count \in Tasks /\ count \in [step : {"aggregate", "count"}, result : {e}]
        /\ aggregate \in Tasks /\ aggregate \in [step : {"aggregate", "count"}, result : {e}]
    BY <2>2 DEF Tasks
  <2>4. CASE Goes(r, Idle) /\ UNCHANGED history
    BY <1>1, <2>1, <2>2, <2>4, QuietStep DEF history
  <2>5. ASSUME NEW to \in {Idle, count, aggregate}, Goes(r, to),
               recorded' = Append(recorded, e)
        PROVE  StatsInv'
    <3>1. /\ to \in Tasks
          /\ to = Idle \/ to \in [step : {"aggregate", "count"}, result : {task[r].result}]
      BY <1>1, <2>3
    <3>2. QED
      BY <2>1, <2>5, <3>1, TakeResultKeeps
  <2> HIDE DEF e, count, aggregate
  <2>6. QED
    BY <2>1, <2>4, <2>5
<1>7. ASSUME NEW r \in Room, Aggregate(r) PROVE StatsInv'
  <2> DEFINE to == [step |-> "count", result |-> task[r].result]
  <2>1. At(r, "aggregate") /\ Goes(r, to)
        /\ UNCHANGED <<persistent, reset, clock, ended, rooms, recorded, counted>>
    BY <1>7 DEF Aggregate, totals
  <2>2. Taken(r) /\ ended' \in [Room -> Nat]
    BY <2>1 DEF At, Taken, StatsTypes
  <2>3. to \in Tasks
    BY <2>2, TaskFacts DEF Tasks
  <2>4. QED
    BY <2>1, <2>2, <2>3, QuietStep
<1>8. ASSUME UNCHANGED <<persistent, reset, task, clock, ended, recorded, rooms, counted>>
      PROVE  StatsInv'
  BY <1>8 DEF StatsTypes, TotalsSayHowMany, NumbersAreNext, GamesAreNumbered, TimesAreTaken,
              TakenIsNotCounted, CountsOnlyRecorded, HasResult, Taken, At
<1>9. ASSUME NEW r \in Room, ChangeBots(r) PROVE StatsInv'
  BY <1>8, <1>9 DEF ChangeBots, history, totals
<1>10. CASE UNCHANGED vars
  BY <1>8, <1>10 DEF vars
<1>11. CASE Next
  BY <1>3, <1>4, <1>5, <1>6, <1>7, <1>9, <1>11, MakeResultKeeps, RecordGameKeeps, ResetKeeps
     DEF Next, Handler
<1>12. QED
  BY <1>10, <1>11

\* For any rooms, finished games and repeated submissions, in memory or in Postgres:
\* the invariant that relates tasks, history and totals.
THEOREM StatsInvariant == Spec => []StatsInv
<1>1. Init => StatsInv
  <2> SUFFICES ASSUME Init PROVE StatsInv
    OBVIOUS
  <2>1. Idle \in Tasks /\ Idle.step = "idle"
    BY DEF Tasks, Idle
  <2>2. \A r \in Room : ~HasResult(r) /\ ~Taken(r) /\ ~At(r, "record") /\ counted[r] = <<>>
    BY <2>1 DEF Init, HasResult, Taken, At
  <2>3. recorded = <<>> /\ DOMAIN <<>> = {} /\ DOMAIN rooms = {}
    BY DEF Init, EmptyTotals
  <2>4. StatsTypes
    BY <2>1 DEF Init, StatsTypes
  <2>5. QED
    BY <2>2, <2>3, <2>4 DEF StatsInv, TotalsSayHowMany, NumbersAreNext, GamesAreNumbered,
       TimesAreTaken, TakenIsNotCounted, CountsOnlyRecorded
<1>2. StatsInv /\ [Next]_vars => StatsInv'
  BY StatsSteps
<1>3. QED
  BY <1>1, <1>2, PTL DEF Spec

\* A room's totals rest on results that the history took, each counted once at most,
\* although a game may be handed in again, recording may fail after its commit, and
\* other rooms record between any two awaits.
THEOREM OnlyRecordedCounts == Spec => []CountsOnlyRecorded
BY StatsInvariant, PTL DEF StatsInv

\* Until its reset a room numbers the games it counts 1, 2, 3 ...
THEOREM NumbersHaveNoGaps == Spec => []GamesAreNumbered
BY StatsInvariant, PTL DEF StatsInv
-----------------------------------------------------------------------------
(* The history while the rooms record side by side. *)

\* In Postgres the rows are the results taken, and no game was taken twice.
RowsAreTheTaken ==
    /\ {row.game_id : row \in tables.games} = {recorded[i].game_id : i \in DOMAIN recorded}
    /\ NoTwo(recorded)

HistoryInv ==
    /\ ~persistent => NewestHeld
    /\ persistent => RowsAreTheTaken

LEMMA NewRowIsTaken ==
    ASSUME NEW S, recorded \in Seq(S), RowsAreTheTaken, NEW e \in S,
           ~HasRow(tables, e.game_id),
           tables' = WithRows(tables, e), recorded' = Append(recorded, e)
    PROVE  RowsAreTheTaken'
<1>1. /\ DOMAIN recorded = 1 .. Len(recorded) /\ DOMAIN recorded' = 1 .. Len(recorded) + 1
      /\ Len(recorded) \in Nat /\ recorded'[Len(recorded) + 1] = e
      /\ \A i \in 1 .. Len(recorded) : recorded'[i] = recorded[i]
  BY AppendProperties
<1>2. \A i \in DOMAIN recorded : recorded[i].game_id # e.game_id
  <2>1. e.game_id \notin {row.game_id : row \in tables.games}
    BY DEF HasRow
  <2>2. QED
    BY <2>1 DEF RowsAreTheTaken
<1>3. NoTwo(recorded')
  BY <1>2, IdsOfAppend DEF RowsAreTheTaken
<1>4. tables'.games = tables.games \cup {GameRow(e)} /\ GameRow(e).game_id = e.game_id
  BY DEF WithRows, GameRow
<1>5. {row.game_id : row \in tables'.games}
      = {row.game_id : row \in tables.games} \cup {e.game_id}
  BY <1>4
<1>6. {recorded'[i].game_id : i \in DOMAIN recorded'}
      = {recorded[i].game_id : i \in DOMAIN recorded} \cup {e.game_id}
  <2>1. \A i \in DOMAIN recorded' : i \in DOMAIN recorded \/ i = Len(recorded) + 1
    BY <1>1
  <2>2. Len(recorded) + 1 \in DOMAIN recorded'
    BY <1>1
  <2>3. \A i \in DOMAIN recorded : i \in DOMAIN recorded' /\ recorded'[i] = recorded[i]
    BY <1>1
  <2>4. QED
    BY <1>1, <2>1, <2>2, <2>3
<1>7. QED
  BY <1>3, <1>5, <1>6 DEF RowsAreTheTaken

\* Every room records into one history: it takes no game twice that it has, in
\* memory the last Limit, in Postgres all, whatever tasks are between two awaits.
THEOREM HistoryTakesOnce ==
    Spec => [](/\ ~persistent => WindowIsNewest /\ RecordedOnce
               /\ persistent => NoTwo(recorded))
<1>1. Init => HistoryInv
  <2> SUFFICES ASSUME Init PROVE HistoryInv
    OBVIOUS
  <2>1. NewestHeld
    BY NewestHeldInitially DEF Init
  <2>2. RowsAreTheTaken
    <3>1. DOMAIN <<>> = {}
      OBVIOUS
    <3>2. QED
      BY <3>1 DEF Init, EmptyTables, RowsAreTheTaken, NoTwo
  <2>3. QED
    BY <2>1, <2>2 DEF HistoryInv
<1>2. StatsInv /\ HistoryInv /\ [Next]_vars => HistoryInv'
  <2> SUFFICES ASSUME StatsInv, HistoryInv, [Next]_vars PROVE HistoryInv'
    OBVIOUS
  <2>1. ASSUME UNCHANGED <<persistent, store, tables, recorded>> PROVE HistoryInv'
    BY <2>1 DEF HistoryInv, NewestHeld, RowsAreTheTaken, RecordedOnce
  <2>2. ASSUME NEW r \in Room, Recorded(r) \/ RecordFails(r) PROVE HistoryInv'
    <3> DEFINE e == task[r].result
    <3>1. StatsTypes
      BY DEF StatsInv
    <3>2. /\ At(r, "record") /\ UNCHANGED persistent
          /\ \/ UNCHANGED history
             \/ /\ ~IsRecorded(e) /\ recorded' = Append(recorded, e)
                /\ persistent => tables' = WithRows(tables, e)
                /\ ~persistent => store' = Stored(store, e)
      BY <2>2, <3>1, HistorySteps
    <3>3. e \in Results /\ recorded \in Seq(Results)
      BY <3>1, <3>2, TaskFacts DEF StatsTypes
    <3> HIDE DEF e
    <3>4. CASE UNCHANGED history
      BY <2>1, <3>2, <3>4 DEF history
    <3>5. CASE ~UNCHANGED history
      <4>1. CASE persistent
        BY <3>2, <3>3, <3>5, <4>1, NewRowIsTaken DEF HistoryInv, IsRecorded
      <4>2. CASE ~persistent
        BY <3>2, <3>3, <3>5, <4>2, NewResultIsHeld DEF HistoryInv, IsRecorded
      <4>3. QED
        BY <4>1, <4>2
    <3>6. QED
      BY <3>4, <3>5
  <2>3. ASSUME NEW r \in Room,
               GameWon(r) \/ GameWonAgain(r) \/ MakeResult(r) \/ Duplicate(r) \/ Aggregate(r)
               \/ RecordGame(r) \/ ChangeBots(r) \/ ResetRoomStats(r)
        PROVE  HistoryInv'
    BY <2>1, <2>3 DEF GameWon, GameWonAgain, Submit, MakeResult, Duplicate, Aggregate,
       RecordGame, ChangeBots, ResetRoomStats, history
  <2>4. CASE UNCHANGED vars
    BY <2>1, <2>4 DEF vars
  <2>5. QED
    BY <2>2, <2>3, <2>4 DEF Next, Handler
<1>3. HistoryInv => /\ ~persistent => WindowIsNewest /\ RecordedOnce
                    /\ persistent => NoTwo(recorded)
  BY DEF HistoryInv, NewestHeld, RowsAreTheTaken, Holds, LastOf, Ids,
         WindowIsNewest
<1>4. QED
  BY <1>1, <1>2, <1>3, StatsInvariant, PTL DEF Spec
-----------------------------------------------------------------------------
(* The aggregates written of the players. *)

ProfileFields ==
    {"games_played", "wins", "streak", "passes", "plays", "human", "bot"}

\* The profile x of p counts these games of the results and no others.
CountsGames(x, p, results, mine) ==
    LET won == {i \in mine : results[i].winner_uuid = p}
        withBots == {i \in mine : results[i].had_bots}
        Split(s) == [games |-> Cardinality(s), wins |-> Cardinality(s \cap won)]
    IN  /\ DOMAIN x = ProfileFields
        /\ x.games_played = Cardinality(mine) /\ x.wins = Cardinality(won)
        /\ x.bot = Split(withBots) /\ x.human = Split(mine \ withBots)
        /\ x.streak \in [current : Nat, best : Nat]
        /\ x.streak.current <= Cardinality(won) /\ x.streak.best <= Cardinality(won)
        /\ x.plays = [n \in Lengths |-> Cardinality(PlaysIn(results, mine, p, n))]

\* A finite set to which k is added or not.
LEMMA OneMore ==
    ASSUME NEW S, IsFiniteSet(S), NEW k, k \notin S, NEW T, NEW b \in BOOLEAN,
           T = IF b THEN S \cup {k} ELSE S
    PROVE  /\ IsFiniteSet(T) /\ Cardinality(S) \in Nat
           /\ Cardinality(T) = Cardinality(S) + IF b THEN 1 ELSE 0
BY FS_AddElement, FS_CardinalityType

\* What ResultOf returns for a player of the result.
LEMMA OwnResult ==
    ASSUME NEW e \in Results, NEW p \in Uuids(e)
    PROVE  /\ ResultOf(e, p).won <=> e.winner_uuid = p
           /\ ResultOf(e, p).won \in BOOLEAN
           /\ e.had_bots \in BOOLEAN
<1>1. PICK g \in Finished, r \in Room, n \in Nat, at \in Nat, had_bots \in BOOLEAN :
          e = GameResult(g, r, n, at, had_bots)
  BY DEF Results
<1>3. /\ e.winner_uuid = g.winner /\ e.had_bots = had_bots
      /\ e.players = {PlayerResult(g, i) : i \in DOMAIN g.players}
  BY <1>1 DEF GameResult
<1>4. \A i : /\ PlayerResult(g, i).uuid = g.players[i].uuid
             /\ PlayerResult(g, i).won = (g.players[i].uuid = g.winner)
  BY DEF PlayerResult, WinLoss
<1>5. PICK x \in e.players : x = ResultOf(e, p) /\ x.uuid = p
  BY DEF Uuids, ResultOf
<1>6. PICK i \in DOMAIN g.players : x = PlayerResult(g, i)
  BY <1>3
<1>7. x.won = (g.players[i].uuid = g.winner) /\ x.uuid = g.players[i].uuid
  BY <1>4, <1>6
<1>8. /\ x.won <=> e.winner_uuid = p
      /\ x.won \in BOOLEAN
  BY <1>3, <1>5, <1>7
<1>9. e.had_bots \in BOOLEAN
  BY <1>3
<1>10. QED
  BY <1>5, <1>8, <1>9

\* The assumption on outcomes, as it reaches the results.
LEMMA MovesAreFinite == \A e \in Results : IsFiniteSet(DOMAIN e.moves)
<1>1. ASSUME NEW g \in Finished PROVE IsFiniteSet(DOMAIN g.moves)
  <2>1. PICK o \in Outcome : g.moves = o.moves
    BY DEF Finished
  <2>2. g.moves \in Seq([player : {o.players[i].uuid : i \in DOMAIN o.players}, cards : Nat])
    BY <2>1, OutcomeAssumption
  <2>3. DOMAIN g.moves = 1 .. Len(g.moves) /\ Len(g.moves) \in Nat
    BY <2>2
  <2>4. QED
    BY <2>3, FS_Interval
<1>2. \A g, r, n, at, had_bots : GameResult(g, r, n, at, had_bots).moves = g.moves
  BY DEF GameResult
<1>3. QED
  BY <1>1, <1>2 DEF Results

\* What a union of disjoint sets gains with one more of them.
LEMMA PairsOfOneMore ==
    ASSUME NEW T, NEW mine, IsFiniteSet(mine), NEW k, k \notin mine,
           \A i \in mine \cup {k} : IsFiniteSet(T[i])
    PROVE  LET Pairs(s) == UNION {{i} \X T[i] : i \in s}
           IN  /\ Cardinality(Pairs(mine)) \in Nat
               /\ Cardinality(Pairs(mine \cup {k})) = Cardinality(Pairs(mine)) + Cardinality(T[k])
<1> DEFINE Old == UNION {{i} \X T[i] : i \in mine}
           New == {k} \X T[k]
           All == UNION {{i} \X T[i] : i \in mine \cup {k}}
<1>1. \A i \in mine \cup {k} : IsFiniteSet({i} \X T[i])
  BY FS_Product, FS_Singleton
<1>2. IsFiniteSet(Old)
  <2> DEFINE Sets == {{i} \X T[i] : i \in mine}
             f == [i \in mine |-> {i} \X T[i]]
  <2>1. IsFiniteSet(Sets)
    <3>1. f \in Surjection(mine, Sets)
      BY DEF Surjection
    <3> HIDE DEF f, Sets
    <3>2. QED
      BY <3>1, FS_Surjection
  <2>2. QED
    BY <1>1, <2>1, FS_UNION
<1>3. IsFiniteSet(New) /\ Cardinality(New) = Cardinality(T[k])
  <2>1. IsFiniteSet(T[k]) /\ Cardinality(T[k]) \in Nat
    BY FS_CardinalityType
  <2>2. IsFiniteSet({k}) /\ Cardinality({k}) = 1
    BY FS_Singleton
  <2>3. Cardinality(New) = Cardinality({k}) * Cardinality(T[k])
    BY <2>1, <2>2, FS_Product
  <2>4. QED
    BY <1>1, <2>1, <2>2, <2>3
<1>4. Old \cap New = {} /\ All = Old \cup New
  OBVIOUS
<1> HIDE DEF Old, New, All
<1>5. Cardinality(Old) \in Nat /\ Cardinality(New) \in Nat
  BY <1>2, <1>3, FS_CardinalityType
<1>6. Cardinality(Old \cap New) = 0
  BY <1>4, FS_EmptySet
<1>7. Cardinality(Old \cup New) = Cardinality(Old) + Cardinality(New) - Cardinality(Old \cap New)
  BY <1>2, <1>3, FS_Union
<1>8. Cardinality(All) = Cardinality(Old) + Cardinality(T[k])
  BY <1>3, <1>4, <1>5, <1>6, <1>7
<1>9. QED
  BY <1>5, <1>8 DEF Old, All

\* One more game of p among those counted.
LEMMA PlaysOfOneMore ==
    ASSUME NEW results, NEW mine, IsFiniteSet(mine), NEW k, k \notin mine, NEW p, NEW n,
           \A i \in mine \cup {k} : IsFiniteSet(DOMAIN results[i].moves)
    PROVE  /\ Cardinality(PlaysIn(results, mine \cup {k}, p, n))
              = Cardinality(PlaysIn(results, mine, p, n))
                + PlaysOfLength(results[k].moves, p, n)
<1> DEFINE Plays(i) == {m \in DOMAIN results[i].moves :
                            results[i].moves[m].player = p /\ results[i].moves[m].cards = n}
           T == [i \in mine \cup {k} |-> Plays(i)]
<1>1. \A i \in mine \cup {k} : T[i] = Plays(i) /\ IsFiniteSet(T[i])
  BY FS_Subset
<1>2. ASSUME NEW s \in SUBSET (mine \cup {k})
      PROVE  PlaysIn(results, s, p, n) = UNION {{i} \X T[i] : i \in s}
  <2>1. \A i \in s : {i} \X Plays(i) = {i} \X T[i]
    BY <1>1
  <2>2. PlaysIn(results, s, p, n) = UNION {{i} \X Plays(i) : i \in s}
    BY DEF PlaysIn
  <2> HIDE DEF T, Plays
  <2>3. QED
    BY <2>1, <2>2
<1>3. PlaysOfLength(results[k].moves, p, n) = Cardinality(T[k])
  BY DEF PlaysOfLength
<1> HIDE DEF T
<1>4. Cardinality(UNION {{i} \X T[i] : i \in mine \cup {k}})
      = Cardinality(UNION {{i} \X T[i] : i \in mine}) + Cardinality(T[k])
  BY <1>1, PairsOfOneMore
<1>5. QED
  BY <1>2, <1>3, <1>4

\* The profile of p counts one more game.
LEMMA CountsOneMore ==
    ASSUME NEW results \in Seq(Results), NEW mine \in SUBSET DOMAIN results,
           NEW k \in DOMAIN results, k \notin mine, NEW p \in Uuids(results[k]),
           NEW x, CountsGames(x, p, results, mine)
    PROVE  CountsGames(ProfileAfter(x, results[k], p), p, results, mine \cup {k})
<1> DEFINE e == results[k]
           more == mine \cup {k}
           WonBy(s) == {i \in s : results[i].winner_uuid = p}
           WithBots(s) == {i \in s : results[i].had_bots}
           Split(s, t) == [games |-> Cardinality(t), wins |-> Cardinality(t \cap WonBy(s))]
           new == ProfileAfter(x, e, p)
           won == ResultOf(e, p).won
           win == IF won THEN 1 ELSE 0
<1>1. /\ e \in Results /\ won \in BOOLEAN /\ (won <=> e.winner_uuid = p)
      /\ e.had_bots \in BOOLEAN
  BY OwnResult
<1>2. IsFiniteSet(DOMAIN results) /\ IsFiniteSet(mine)
  <2>1. DOMAIN results = 1 .. Len(results) /\ Len(results) \in Nat
    OBVIOUS
  <2>2. IsFiniteSet(DOMAIN results)
    BY <2>1, FS_Interval
  <2>3. QED
    BY <2>2, FS_Subset
<1>3. /\ DOMAIN x = ProfileFields
      /\ x.games_played = Cardinality(mine) /\ x.wins = Cardinality(WonBy(mine))
      /\ x.bot = Split(mine, WithBots(mine))
      /\ x.human = Split(mine, mine \ WithBots(mine))
      /\ x.streak \in [current : Nat, best : Nat]
      /\ x.streak.current <= Cardinality(WonBy(mine)) /\ x.streak.best <= Cardinality(WonBy(mine))
      /\ x.plays = [n \in Lengths |-> Cardinality(PlaysIn(results, mine, p, n))]
  BY DEF CountsGames
<1>4. /\ DOMAIN new = ProfileFields
      /\ new.games_played = x.games_played + 1 /\ new.wins = x.wins + win
      /\ new.streak = StreakAfter(x.streak, won)
      /\ new.plays = [n \in Lengths |-> x.plays[n] + PlaysOfLength(e.moves, p, n)]
      /\ new.bot = IF e.had_bots THEN [games |-> x.bot.games + 1, wins |-> x.bot.wins + win]
                    ELSE x.bot
      /\ new.human = IF e.had_bots THEN x.human
                      ELSE [games |-> x.human.games + 1, wins |-> x.human.wins + win]
  BY <1>3 DEF ProfileAfter, ProfileFields, PlayTypeBreakdown
<1>5. /\ Cardinality(more) = Cardinality(mine) + 1 /\ Cardinality(mine) \in Nat
  BY <1>2, FS_AddElement, FS_CardinalityType
<1>6. Cardinality(WonBy(more)) = Cardinality(WonBy(mine)) + win /\ Cardinality(WonBy(mine)) \in Nat
  <2>1. WonBy(more) = IF won THEN WonBy(mine) \cup {k} ELSE WonBy(mine)
    BY <1>1
  <2>2. IsFiniteSet(WonBy(mine)) /\ k \notin WonBy(mine)
    BY <1>2, FS_Subset
  <2> DEFINE a == WonBy(mine)
             b == WonBy(more)
  <2> HIDE DEF a, b, won, more
  <2>3. b = IF won THEN a \cup {k} ELSE a
    BY <2>1 DEF a, b
  <2>4. Cardinality(b) = Cardinality(a) + (IF won THEN 1 ELSE 0) /\ Cardinality(a) \in Nat
    BY <1>1, <2>2, <2>3, OneMore DEF a
  <2>5. QED
    BY <2>4 DEF a, b
<1>7. Split(more, WithBots(more))
        = IF e.had_bots THEN [games |-> Split(mine, WithBots(mine)).games + 1,
                              wins |-> Split(mine, WithBots(mine)).wins + win]
          ELSE Split(mine, WithBots(mine))
  <2> DEFINE a == WithBots(mine)
             b == WithBots(mine) \cap WonBy(mine)
  <2>1. /\ WithBots(more) = IF e.had_bots THEN a \cup {k} ELSE a
        /\ WithBots(more) \cap WonBy(more)
             = IF e.had_bots /\ won THEN b \cup {k} ELSE b
    BY <1>1
  <2>2. IsFiniteSet(a) /\ k \notin a /\ IsFiniteSet(b) /\ k \notin b
    BY <1>2, FS_Subset
  <2> HIDE DEF a, b
  <2>3. /\ Cardinality(WithBots(more)) = Cardinality(a) + IF e.had_bots THEN 1 ELSE 0
        /\ Cardinality(WithBots(more) \cap WonBy(more))
             = Cardinality(b) + IF e.had_bots /\ won THEN 1 ELSE 0
        /\ Cardinality(a) \in Nat /\ Cardinality(b) \in Nat
    <3> DEFINE c == WithBots(more)
               d == WithBots(more) \cap WonBy(more)
    <3>1. /\ c = IF e.had_bots THEN a \cup {k} ELSE a
          /\ d = IF e.had_bots /\ won THEN b \cup {k} ELSE b
      BY <2>1
    <3> HIDE DEF WonBy, WithBots, won, more, e, c, d
    <3>2. Cardinality(c) = Cardinality(a) + (IF e.had_bots THEN 1 ELSE 0)
          /\ Cardinality(a) \in Nat
      BY <1>1, <2>2, <3>1, OneMore
    <3>3. Cardinality(d) = Cardinality(b) + (IF e.had_bots /\ won THEN 1 ELSE 0)
          /\ Cardinality(b) \in Nat
      BY <1>1, <2>2, <3>1, OneMore
    <3>4. QED
      BY <3>2, <3>3 DEF c, d
  <2>4. Split(mine, WithBots(mine)) = [games |-> Cardinality(a), wins |-> Cardinality(b)]
    BY DEF a, b
  <2> HIDE DEF WonBy, WithBots, won
  <2>5. QED
    BY <1>1, <2>3, <2>4
<1>8. Split(more, more \ WithBots(more))
        = IF e.had_bots THEN Split(mine, mine \ WithBots(mine))
          ELSE [games |-> Split(mine, mine \ WithBots(mine)).games + 1,
                wins |-> Split(mine, mine \ WithBots(mine)).wins + win]
  <2> DEFINE a == mine \ WithBots(mine)
             b == (mine \ WithBots(mine)) \cap WonBy(mine)
  <2>1. /\ more \ WithBots(more) = IF ~e.had_bots THEN a \cup {k} ELSE a
        /\ (more \ WithBots(more)) \cap WonBy(more)
             = IF ~e.had_bots /\ won THEN b \cup {k} ELSE b
    BY <1>1
  <2>2. IsFiniteSet(a) /\ k \notin a /\ IsFiniteSet(b) /\ k \notin b
    BY <1>2, FS_Subset
  <2> HIDE DEF a, b
  <2>3. /\ Cardinality(more \ WithBots(more)) = Cardinality(a) + IF ~e.had_bots THEN 1 ELSE 0
        /\ Cardinality((more \ WithBots(more)) \cap WonBy(more))
             = Cardinality(b) + IF ~e.had_bots /\ won THEN 1 ELSE 0
        /\ Cardinality(a) \in Nat /\ Cardinality(b) \in Nat
    <3> DEFINE c == more \ WithBots(more)
               d == (more \ WithBots(more)) \cap WonBy(more)
    <3>1. /\ c = IF ~e.had_bots THEN a \cup {k} ELSE a
          /\ d = IF ~e.had_bots /\ won THEN b \cup {k} ELSE b
      BY <2>1
    <3> HIDE DEF WonBy, WithBots, won, more, e, c, d
    <3>2. Cardinality(c) = Cardinality(a) + (IF ~e.had_bots THEN 1 ELSE 0)
          /\ Cardinality(a) \in Nat
      BY <1>1, <2>2, <3>1, OneMore
    <3>3. Cardinality(d) = Cardinality(b) + (IF ~e.had_bots /\ won THEN 1 ELSE 0)
          /\ Cardinality(b) \in Nat
      BY <1>1, <2>2, <3>1, OneMore
    <3>4. QED
      BY <3>2, <3>3 DEF c, d
  <2>4. Split(mine, mine \ WithBots(mine)) = [games |-> Cardinality(a), wins |-> Cardinality(b)]
    BY DEF a, b
  <2> HIDE DEF WonBy, WithBots, won
  <2>5. QED
    BY <1>1, <2>3, <2>4
<1>9. \A n \in Lengths :
          Cardinality(PlaysIn(results, more, p, n))
          = Cardinality(PlaysIn(results, mine, p, n)) + PlaysOfLength(e.moves, p, n)
  <2>1. \A i \in more : results[i] \in Results
    OBVIOUS
  <2>2. \A r \in Results : IsFiniteSet(DOMAIN r.moves)
    BY MovesAreFinite
  <2>3. QED
    BY <1>2, <2>1, <2>2, PlaysOfOneMore
<1> HIDE DEF WonBy, WithBots, won, e, new, more
<1>10. new.plays = [n \in Lengths |-> Cardinality(PlaysIn(results, more, p, n))]
  BY <1>3, <1>4, <1>9
<1>11. /\ new.streak \in [current : Nat, best : Nat]
       /\ new.streak.current <= Cardinality(WonBy(more))
       /\ new.streak.best <= Cardinality(WonBy(more))
  <2> DEFINE c == x.streak.current
             m == x.streak.best
  <2>1. c \in Nat /\ m \in Nat /\ x.streak = [current |-> c, best |-> m]
    BY <1>3
  <2>2. CASE won
    <3>1. new.streak = [current |-> c + 1, best |-> IF c + 1 > m THEN c + 1 ELSE m]
      BY <1>4, <2>2 DEF StreakAfter
    <3>2. QED
      BY <1>3, <1>6, <2>1, <2>2, <3>1
  <2>3. CASE ~won
    <3>1. new.streak = [current |-> 0, best |-> m]
      BY <1>4, <2>1, <2>3 DEF StreakAfter
    <3>2. QED
      BY <1>3, <1>6, <2>1, <2>3, <3>1
  <2>4. QED
    BY <1>1, <2>2, <2>3
<1>12. /\ new.games_played = Cardinality(more) /\ new.wins = Cardinality(WonBy(more))
       /\ new.bot = Split(more, WithBots(more))
       /\ new.human = Split(more, more \ WithBots(more))
  BY <1>3, <1>4, <1>5, <1>6, <1>7, <1>8
<1>13. CountsGames(new, p, results, more)
  BY <1>4, <1>10, <1>11, <1>12 DEF CountsGames, WonBy, WithBots
<1>14. QED
  BY <1>13 DEF new, e, more

\* What counting says of a profile depends on the games counted only.
LEMMA CountsSame ==
    ASSUME NEW results, NEW more, NEW mine,
           \A i \in mine : more[i] = results[i],
           NEW p, NEW x, CountsGames(x, p, results, mine)
    PROVE  CountsGames(x, p, more, mine)
<1>1. {i \in mine : more[i].winner_uuid = p} = {i \in mine : results[i].winner_uuid = p}
  OBVIOUS
<1>2. {i \in mine : more[i].had_bots} = {i \in mine : results[i].had_bots}
  OBVIOUS
<1>3. ASSUME NEW n PROVE PlaysIn(more, mine, p, n) = PlaysIn(results, mine, p, n)
  BY DEF PlaysIn
<1>4. QED
  BY <1>1, <1>2, <1>3 DEF CountsGames

\* A new profile counts no games.
LEMMA NothingCounted ==
    ASSUME NEW results, NEW p
    PROVE  CountsGames(NewProfile, p, results, {})
<1>1. Cardinality({}) = 0
  BY FS_EmptySet
<1>2. ASSUME NEW n PROVE PlaysIn(results, {}, p, n) = {}
  BY DEF PlaysIn
<1>3. NewProfile.plays = [n \in Lengths |-> Cardinality(PlaysIn(results, {}, p, n))]
  BY <1>1, <1>2 DEF NewProfile
<1> DEFINE won == {i \in {} : results[i].winner_uuid = p}
           withBots == {i \in {} : results[i].had_bots}
<1>4. won = {} /\ withBots = {} /\ {} \cap won = {} /\ {} \ withBots = {}
      /\ withBots \cap won = {}
  OBVIOUS
<1>5. NewProfile.streak = [current |-> 0, best |-> 0]
  BY DEF NewProfile, NoStreak
<1>6. QED
  BY <1>1, <1>3, <1>4, <1>5 DEF CountsGames, NewProfile, ProfileFields

\* A result is aggregated by the task that recorded it: no two wait with one result,
\* and in Postgres, where the profiles are in the transaction, none waits.
WaitingTellApart ==
    /\ persistent => Pending = {}
    /\ \A r, s \in Pending : r # s => task[r].result # task[s].result
    /\ \A i, j \in DOMAIN recorded : i # j => recorded[i] # recorded[j]

ProfileOf(p) == Entry(profiles, p, NewProfile)
ProfilesInv ==
    /\ WaitingTellApart
    /\ \A p : CountsGames(ProfileOf(p), p, recorded, Aggregated(p))

\* The invariant of the profiles is what the run checks, for every player.
LEMMA ProfilesInvSuffices == ProfilesInv => AggregatesCountEveryResult
BY ZenonT(60) DEF ProfilesInv, ProfileOf, Entry, CountsGames, AggregatesCountEveryResult

\* What happens to the profiles when e is added to them.
LEMMA ProfilesAfterFacts ==
    ASSUME NEW e, profiles' = ProfilesAfter(e), NEW p
    PROVE  ProfileOf(p)' = IF p \in Uuids(e) THEN ProfileAfter(ProfileOf(p), e, p)
                                             ELSE ProfileOf(p)
BY DEF ProfilesAfter, ProfileOf, Entry

\* Steps that neither record nor aggregate.
LEMMA ProfilesQuiet ==
    ASSUME ProfilesInv, UNCHANGED <<persistent, profiles, recorded>>,
           \A r \in Room : /\ At(r, "aggregate")' = At(r, "aggregate")
                           /\ At(r, "aggregate") => task'[r] = task[r]
    PROVE  ProfilesInv'
<1>1. Pending' = Pending /\ \A r \in Pending : task'[r] = task[r]
  BY DEF Pending
<1>2. WaitingTellApart'
  BY <1>1 DEF ProfilesInv, WaitingTellApart
<1>3. ASSUME NEW p PROVE CountsGames(ProfileOf(p), p, recorded, Aggregated(p))'
  <2>1. Aggregated(p)' = Aggregated(p)
    BY <1>1 DEF Aggregated
  <2>2. ProfileOf(p)' = ProfileOf(p)
    BY DEF ProfileOf
  <2>3. CountsGames(ProfileOf(p), p, recorded, Aggregated(p))
    BY DEF ProfilesInv
  <2>4. CountsGames(ProfileOf(p)', p, recorded', Aggregated(p)')
    BY <2>1, <2>2, <2>3
  <2>5. QED
    BY <2>4
<1>4. QED
  BY <1>2, <1>3 DEF ProfilesInv

\* A result is recorded: by a task that has yet to aggregate it, or, with the
\* profiles, in one transaction.
LEMMA ProfilesRecorded ==
    ASSUME StatsInv, ProfilesInv, NEW r \in Room, Recorded(r) \/ RecordFails(r),
           ~UNCHANGED history
    PROVE  ProfilesInv'
<1> DEFINE e == task[r].result
           k == Len(recorded) + 1
<1>1. /\ At(r, "record") /\ UNCHANGED persistent /\ recorded' = Append(recorded, e)
      /\ \/ /\ persistent /\ profiles' = ProfilesAfter(e)
            /\ Goes(r, Idle) \/ Goes(r, [step |-> "count", result |-> e])
         \/ /\ ~persistent /\ UNCHANGED profiles
            /\ Goes(r, [step |-> "aggregate", result |-> e])
  BY DEF Recorded, RecordFails, Transaction, history
<1>2. e \in Results /\ recorded \in Seq(Results) /\ Len(recorded) \in Nat
      /\ task \in [Room -> Tasks]
  BY <1>1, TaskFacts DEF StatsInv, StatsTypes
<1>3. /\ recorded' \in Seq(Results)
      /\ DOMAIN recorded = 1 .. Len(recorded) /\ DOMAIN recorded' = 1 .. k
      /\ recorded'[k] = e /\ \A i \in DOMAIN recorded : recorded'[i] = recorded[i]
  BY <1>1, <1>2, AppendProperties
<1>4. \A i \in DOMAIN recorded : recorded[i] # e
  BY <1>1 DEF StatsInv, TimesAreTaken
<1>5. /\ k \in DOMAIN recorded' /\ k \notin DOMAIN recorded
      /\ DOMAIN recorded' = DOMAIN recorded \cup {k}
  BY <1>2, <1>3
<1>6. \A s \in Room : s # r => task'[s] = task[s]
  BY <1>1, <1>2 DEF Goes
<1>7. r \notin Pending /\ Idle.step = "idle"
  BY <1>1 DEF Pending, At, Idle
<1>8. \A i, j \in DOMAIN recorded' : i # j => recorded'[i] # recorded'[j]
  BY <1>3, <1>4, <1>5 DEF ProfilesInv, WaitingTellApart
<1>9. CASE persistent
  <2>1. Pending = {} /\ Pending' = {}
    <3>1. task'[r].step # "aggregate"
      BY <1>1, <1>2, <1>7, <1>9 DEF Goes
    <3>2. Pending = {}
      BY <1>9 DEF ProfilesInv, WaitingTellApart
    <3>3. QED
      BY <1>6, <3>1, <3>2 DEF Pending, At
  <2>2. WaitingTellApart'
    BY <1>8, <2>1 DEF WaitingTellApart
  <2>3. ASSUME NEW p
        PROVE  CountsGames(ProfileOf(p)', p, recorded', Aggregated(p)')
    <3>1. /\ Aggregated(p) = {i \in DOMAIN recorded : p \in Uuids(recorded[i])}
          /\ Aggregated(p)' = {i \in DOMAIN recorded' : p \in Uuids(recorded'[i])}
      BY <2>1 DEF Aggregated
    <3>2. CountsGames(ProfileOf(p), p, recorded', Aggregated(p))
      BY <1>3, <3>1, CountsSame DEF ProfilesInv
    <3>3. CASE p \in Uuids(e)
      <4>1. Aggregated(p)' = Aggregated(p) \cup {k}
        BY <1>3, <1>5, <3>1, <3>3
      <4>2. /\ k \notin Aggregated(p) /\ Aggregated(p) \in SUBSET DOMAIN recorded'
            /\ p \in Uuids(recorded'[k])
        BY <1>3, <1>5, <3>1, <3>3
      <4>3. ProfileOf(p)' = ProfileAfter(ProfileOf(p), recorded'[k], p)
        BY <1>1, <1>3, <1>9, <3>3, ProfilesAfterFacts
      <4>4. CountsGames(ProfileAfter(ProfileOf(p), recorded'[k], p), p, recorded',
                        Aggregated(p) \cup {k})
        BY <1>3, <1>5, <3>2, <4>2, CountsOneMore
      <4>5. QED
        BY <4>1, <4>3, <4>4
    <3>4. CASE p \notin Uuids(e)
      <4>1. Aggregated(p)' = Aggregated(p)
        BY <1>3, <1>5, <3>1, <3>4
      <4>2. ProfileOf(p)' = ProfileOf(p)
        BY <1>1, <1>9, <3>4, ProfilesAfterFacts
      <4>3. QED
        BY <3>2, <4>1, <4>2
    <3>5. QED
      BY <3>3, <3>4
  <2>4. QED
    BY <2>2, <2>3 DEF ProfilesInv
<1>10. CASE ~persistent
  <2>1. /\ task'[r] = [step |-> "aggregate", result |-> e] /\ UNCHANGED profiles
        /\ Pending' = Pending \cup {r}
    BY <1>1, <1>2, <1>6, <1>7, <1>10 DEF Goes, Pending, At
  <2>2. \A s \in Pending : task'[s] = task[s] /\ task[s].result # e
    <3>1. ASSUME NEW s \in Pending PROVE task[s].result # e
      <4>1. \E i \in DOMAIN recorded : recorded[i] = task[s].result
        BY DEF StatsInv, TakenIsNotCounted, Taken, Pending, At
      <4>2. QED
        BY <1>4, <4>1
    <3>2. QED
      BY <1>6, <1>7, <3>1 DEF Pending
  <2>3. WaitingTellApart'
    BY <1>1, <1>8, <1>10, <2>1, <2>2 DEF ProfilesInv, WaitingTellApart
  <2>4. ASSUME NEW p
        PROVE  CountsGames(ProfileOf(p)', p, recorded', Aggregated(p)')
    <3>1. Aggregated(p)' = Aggregated(p)
      BY <1>3, <1>4, <1>5, <2>1, <2>2 DEF Aggregated
    <3>2. CountsGames(ProfileOf(p), p, recorded', Aggregated(p))
      BY <1>3, CountsSame DEF ProfilesInv, Aggregated
    <3>3. ProfileOf(p)' = ProfileOf(p)
      BY <2>1 DEF ProfileOf
    <3>4. QED
      BY <3>1, <3>2, <3>3
  <2>5. QED
    BY <2>3, <2>4 DEF ProfilesInv
<1>11. QED
  BY <1>9, <1>10

\* The task of r adds the result it has recorded.
LEMMA ProfilesAggregated ==
    ASSUME StatsInv, ProfilesInv, NEW r \in Room, Aggregate(r)
    PROVE  ProfilesInv'
<1> DEFINE e == task[r].result
<1>1. /\ r \in Pending /\ Goes(r, [step |-> "count", result |-> e])
      /\ profiles' = ProfilesAfter(e) /\ UNCHANGED <<persistent, recorded>>
  BY DEF Aggregate, Pending
<1>2. /\ task \in [Room -> Tasks] /\ recorded \in Seq(Results)
  BY DEF StatsInv, StatsTypes
<1>3. /\ task'[r].step = "count" /\ \A s \in Room : s # r => task'[s] = task[s]
  BY <1>1, <1>2 DEF Goes
<1>4. Pending' = Pending \ {r}
  BY <1>3 DEF Pending, At
<1>5. \A s \in Pending \ {r} : task'[s] = task[s] /\ task[s].result # e
  BY <1>1, <1>3 DEF ProfilesInv, WaitingTellApart, Pending
<1>6. WaitingTellApart'
  BY <1>1, <1>4, <1>5 DEF ProfilesInv, WaitingTellApart
<1>7. PICK k \in DOMAIN recorded : recorded[k] = e
  BY <1>1 DEF StatsInv, TakenIsNotCounted, Taken, Pending, At
<1>8. \A i \in DOMAIN recorded : recorded[i] = e <=> i = k
  BY <1>7 DEF ProfilesInv, WaitingTellApart
<1>9. ASSUME NEW p
      PROVE  CountsGames(ProfileOf(p)', p, recorded', Aggregated(p)')
  <2>1. CountsGames(ProfileOf(p), p, recorded, Aggregated(p))
    BY DEF ProfilesInv
  <2>2. /\ Aggregated(p) \in SUBSET DOMAIN recorded /\ k \notin Aggregated(p)
        /\ Aggregated(p)' = IF p \in Uuids(e) THEN Aggregated(p) \cup {k} ELSE Aggregated(p)
    BY <1>1, <1>4, <1>5, <1>7, <1>8 DEF Aggregated
  <2>3. CASE p \in Uuids(e)
    <3>1. p \in Uuids(recorded[k])
      BY <1>7, <2>3
    <3>2. CountsGames(ProfileAfter(ProfileOf(p), recorded[k], p), p, recorded,
                      Aggregated(p) \cup {k})
      BY <1>2, <1>7, <2>1, <2>2, <3>1, CountsOneMore
    <3>3. ProfileOf(p)' = ProfileAfter(ProfileOf(p), recorded[k], p)
      BY <1>1, <1>7, <2>3, ProfilesAfterFacts
    <3>4. QED
      BY <1>1, <2>2, <2>3, <3>2, <3>3
  <2>4. CASE p \notin Uuids(e)
    <3>1. ProfileOf(p)' = ProfileOf(p)
      BY <1>1, <2>4, ProfilesAfterFacts
    <3>2. QED
      BY <1>1, <2>1, <2>2, <2>4, <3>1
  <2>5. QED
    BY <2>3, <2>4
<1>10. QED
  BY <1>6, <1>9 DEF ProfilesInv

\* The aggregate written for a player, InMemoryProfileAggregate or the player's row of
\* player_profile_stats, counts each recorded result of the player once, with its
\* plays and on the right side of games with and without bots, for any rooms that
\* record side by side.  No read uses it; the profile players are shown covers the
\* games that are kept, and RepositoriesReadAlike is about that one.
THEOREM AggregatesAreComplete == Spec => []AggregatesCountEveryResult
<1>1. Init => ProfilesInv
  <2> SUFFICES ASSUME Init PROVE ProfilesInv
    OBVIOUS
  <2>1. DOMAIN <<>> = {} /\ recorded = <<>>
    BY DEF Init
  <2>2. Pending = {}
    BY DEF Init, Pending, At, Idle
  <2>3. \A p : Aggregated(p) = {} /\ ProfileOf(p) = NewProfile
    BY <2>1 DEF Init, Aggregated, ProfileOf, Entry, EmptyTotals
  <2>4. QED
    BY <2>1, <2>2, <2>3, NothingCounted DEF ProfilesInv, WaitingTellApart
<1>2. StatsInv /\ ProfilesInv /\ [Next]_vars => ProfilesInv'
  <2> SUFFICES ASSUME StatsInv, ProfilesInv, [Next]_vars PROVE ProfilesInv'
    OBVIOUS
  <2>1. task \in [Room -> Tasks] /\ Idle.step = "idle"
    BY DEF StatsInv, StatsTypes, Idle
  <2>2. ASSUME NEW r \in Room, NEW to, Goes(r, to), ~At(r, "aggregate"),
               to.step # "aggregate", UNCHANGED <<persistent, profiles, recorded>>
        PROVE  ProfilesInv'
    <3>1. task'[r] = to /\ \A s \in Room : s # r => task'[s] = task[s]
      BY <2>1, <2>2 DEF Goes
    <3>2. \A s \in Room : /\ At(s, "aggregate")' = At(s, "aggregate")
                          /\ At(s, "aggregate") => task'[s] = task[s]
      BY <2>2, <3>1 DEF At
    <3>3. QED
      BY <2>2, <3>2, ProfilesQuiet
  <2>3. ASSUME NEW r \in Room, GameWon(r) \/ GameWonAgain(r) PROVE ProfilesInv'
    <3>1. PICK g : Submit(r, g)
      BY <2>3 DEF GameWon, GameWonAgain
    <3>2. At(r, "idle")
      BY <2>3 DEF GameWon, GameWonAgain
    <3>3. QED
      BY <2>2, <3>1, <3>2 DEF Submit, history, At
  <2>4. ASSUME NEW r \in Room, MakeResult(r) PROVE ProfilesInv'
    BY <2>2, <2>4 DEF MakeResult, history, At
  <2>5. ASSUME NEW r \in Room, Duplicate(r) PROVE ProfilesInv'
    BY <2>1, <2>2, <2>5 DEF Duplicate, history, At
  <2>6. ASSUME NEW r \in Room, RecordGame(r) PROVE ProfilesInv'
    BY <2>1, <2>2, <2>6 DEF RecordGame, history, At
  <2>7. ASSUME NEW r \in Room, Recorded(r) \/ RecordFails(r) PROVE ProfilesInv'
    <3>1. CASE UNCHANGED history
      <4>1. Goes(r, Idle) /\ At(r, "record") /\ UNCHANGED persistent
        <5>1. CASE RecordFails(r)
          BY <5>1 DEF RecordFails
        <5>2. CASE Recorded(r)
          <6>1. recorded' = Append(recorded, task[r].result)
            BY <5>2 DEF Recorded, Transaction
          <6>2. recorded' # recorded
            <7>1. recorded \in Seq(Results) /\ task[r].result \in Results
              BY <5>2, TaskFacts DEF Recorded, StatsInv, StatsTypes
            <7>2. QED
              BY <6>1, <7>1
          <6>3. QED
            BY <3>1, <6>2 DEF history
        <5>3. QED
          BY <2>7, <5>1, <5>2
      <4>2. QED
        BY <2>1, <2>2, <3>1, <4>1 DEF history, At
    <3>2. CASE ~UNCHANGED history
      BY <2>7, <3>2, ProfilesRecorded
    <3>3. QED
      BY <3>1, <3>2
  <2>8. ASSUME NEW r \in Room, ChangeBots(r) \/ ResetRoomStats(r) PROVE ProfilesInv'
    BY <2>8, ProfilesQuiet DEF ChangeBots, ResetRoomStats, history, At
  <2>9. CASE UNCHANGED vars
    BY <2>9, ProfilesQuiet DEF vars, At
  <2>10. QED
    BY <2>3, <2>4, <2>5, <2>6, <2>7, <2>8, <2>9, ProfilesAggregated DEF Next, Handler
<1>3. QED
  BY <1>1, <1>2, StatsInvariant, ProfilesInvSuffices, PTL DEF Spec
-----------------------------------------------------------------------------
(* The totals of the rooms. *)

\* What a player's part in a result adds to the totals.
LEMMA OwnTotals ==
    ASSUME NEW e \in Results, NEW p \in Uuids(e)
    PROVE  ResultOf(e, p).cards_remaining \in Nat /\ ResultOf(e, p).final_score \in Nat
<1>1. PICK g \in Finished, r \in Room, n \in Nat, at \in Nat, had_bots \in BOOLEAN :
          e = GameResult(g, r, n, at, had_bots)
  BY DEF Results
<1>2. \A i \in DOMAIN g.players : g.players[i].cards \in Nat
  <2>1. PICK o \in Outcome : g.players = o.players
    BY DEF Finished
  <2>2. QED
    BY <2>1, OutcomeAssumption
<1>3. e.players = {PlayerResult(g, i) : i \in DOMAIN g.players}
  BY <1>1 DEF GameResult
<1>4. \A i : /\ PlayerResult(g, i).cards_remaining = g.players[i].cards
             /\ PlayerResult(g, i).final_score = FinalScore(g.players[i].cards)
  BY DEF PlayerResult, CardsRemaining
<1>5. \A c \in Nat : FinalScore(c) \in Nat
  BY DEF FinalScore, RawScore
<1>6. ResultOf(e, p) \in e.players
  BY DEF Uuids, ResultOf
<1>7. QED
  BY <1>2, <1>3, <1>4, <1>5, <1>6

\* The sum of a function that is given one more argument.
LEMMA SumOfOneMore ==
    ASSUME NEW f, NEW g, IsFiniteSet(DOMAIN f), NEW k, k \notin DOMAIN f,
           DOMAIN g = DOMAIN f \cup {k}, \A i \in DOMAIN f : g[i] = f[i],
           \A i \in DOMAIN g : g[i] \in Nat
    PROVE  Sum(g) = Sum(f) + g[k] /\ Sum(f) \in Nat
<1> DEFINE T == [i \in DOMAIN g |-> 1 .. g[i]]
<1>1. \A i \in DOMAIN g : IsFiniteSet(T[i]) /\ Cardinality(T[i]) = g[i]
  BY FS_Interval
<1>2. UNION {{i} \X (1 .. g[i]) : i \in DOMAIN g} = UNION {{i} \X T[i] : i \in DOMAIN f \cup {k}}
  <2>1. \A i \in DOMAIN g : {i} \X (1 .. g[i]) = {i} \X T[i]
    OBVIOUS
  <2> HIDE DEF T
  <2>2. QED
    BY <2>1
<1>3. UNION {{i} \X (1 .. f[i]) : i \in DOMAIN f} = UNION {{i} \X T[i] : i \in DOMAIN f}
  <2>1. \A i \in DOMAIN f : {i} \X (1 .. f[i]) = {i} \X T[i]
    OBVIOUS
  <2> HIDE DEF T
  <2>2. QED
    BY <2>1
<1> HIDE DEF T
<1>4. /\ Cardinality(UNION {{i} \X T[i] : i \in DOMAIN f}) \in Nat
      /\ Cardinality(UNION {{i} \X T[i] : i \in DOMAIN f \cup {k}})
         = Cardinality(UNION {{i} \X T[i] : i \in DOMAIN f}) + Cardinality(T[k])
  BY <1>1, PairsOfOneMore
<1>5. QED
  BY <1>1, <1>2, <1>3, <1>4 DEF Sum

\* The totals x of p are those of a recount.
CountsTotals(x, p, results) ==
    LET mine == GamesOf(results, p)
        Run(e) == Cardinality(RunAt(results, p, e))
    IN  /\ x \in [games_played : Nat, wins : Nat, cards_remaining : Nat, total_score : Nat,
                  streak : [current : Nat, best : Nat]]
        /\ x.games_played = Cardinality(mine)
        /\ x.wins = Cardinality({i \in mine : results[i].winner_uuid = p})
        /\ x.cards_remaining = Sum([i \in mine |-> ResultOf(results[i], p).cards_remaining])
        /\ x.total_score = Sum([i \in mine |-> ResultOf(results[i], p).final_score])
        /\ x.streak.current = Run(Len(results))
        /\ x.streak.best = 0 \/ \E e \in DOMAIN results : x.streak.best = Run(e)
        /\ \A e \in DOMAIN results : Run(e) <= x.streak.best

\* A player's games and winning runs among the results can be counted.
LEMMA GamesAreFinite ==
    ASSUME NEW results \in Seq(Results), NEW p
    PROVE  /\ IsFiniteSet(GamesOf(results, p))
           /\ \A e : /\ IsFiniteSet(RunAt(results, p, e))
                     /\ Cardinality(RunAt(results, p, e)) \in Nat
<1>1. DOMAIN results = 1 .. Len(results) /\ Len(results) \in Nat
  OBVIOUS
<1>2. IsFiniteSet(DOMAIN results)
  BY <1>1, FS_Interval
<1>3. IsFiniteSet(GamesOf(results, p))
  BY <1>2, FS_Subset DEF GamesOf
<1>4. \A e : IsFiniteSet(RunAt(results, p, e))
  BY <1>3, FS_Subset DEF RunAt
<1>5. QED
  BY <1>3, <1>4, FS_CardinalityType

\* Totals that count the results are their recount.
LEMMA TotalsAreTheRecount ==
    ASSUME NEW results \in Seq(Results), NEW p, NEW x, CountsTotals(x, p, results)
    PROVE  x = Recount(results, p)
<1> DEFINE Run(e) == Cardinality(RunAt(results, p, e))
           S == {0} \cup {Run(e) : e \in DOMAIN results}
           best == x.streak.best
<1>1. best \in Nat /\ best \in S /\ \A y \in S : y <= best
  BY DEF CountsTotals
<1>2. \A e : Run(e) \in Nat
  BY GamesAreFinite
<1>3. S \subseteq Nat
  BY <1>2
<1> HIDE DEF S, best
<1>4. Max(S) = best
  <2>1. \A y \in S : (\A z \in S : y >= z) => y = best
    BY <1>1, <1>3
  <2>2. \A y \in S : best >= y
    BY <1>1, <1>3
  <2>3. QED
    BY <1>1, <2>1, <2>2 DEF Max
<1>5. x.streak = [current |-> Run(Len(results)), best |-> Max(S)]
  BY <1>4 DEF CountsTotals, best
<1>6. QED
  BY <1>5 DEF CountsTotals, Recount, S

\* One more result.
LEMMA RunsOfAppend ==
    ASSUME NEW old \in Seq(Results), NEW e \in Results
    PROVE  \A p :
        /\ p \notin Uuids(e) =>
              /\ GamesOf(Append(old, e), p) = GamesOf(old, p)
              /\ RunAt(Append(old, e), p, Len(old) + 1) = RunAt(old, p, Len(old))
        /\ p \in Uuids(e) =>
              /\ GamesOf(Append(old, e), p) = GamesOf(old, p) \cup {Len(old) + 1}
              /\ e.winner_uuid = p => RunAt(Append(old, e), p, Len(old) + 1)
                                      = RunAt(old, p, Len(old)) \cup {Len(old) + 1}
              /\ e.winner_uuid # p => RunAt(Append(old, e), p, Len(old) + 1) = {}
        /\ \A i \in DOMAIN old : RunAt(Append(old, e), p, i) = RunAt(old, p, i)
<1> TAKE p
<1> DEFINE more == Append(old, e)
           n == Len(old) + 1
<1>1. /\ DOMAIN old = 1 .. Len(old) /\ DOMAIN more = 1 .. n /\ Len(old) \in Nat
      /\ more[n] = e /\ \A i \in DOMAIN old : more[i] = old[i]
  BY AppendProperties
<1>2. /\ \A i \in DOMAIN old : i \in Nat /\ i <= Len(old) /\ i < n /\ i # n
      /\ n \in DOMAIN more /\ n \notin DOMAIN old /\ n \in Nat
      /\ DOMAIN more = DOMAIN old \cup {n}
  BY <1>1
<1> HIDE DEF more, n
<1>3. /\ p \notin Uuids(e) => GamesOf(more, p) = GamesOf(old, p)
      /\ p \in Uuids(e) => GamesOf(more, p) = GamesOf(old, p) \cup {n}
      /\ GamesOf(old, p) \subseteq DOMAIN old
  BY <1>1, <1>2 DEF GamesOf
<1>4. ASSUME NEW i \in DOMAIN old PROVE RunAt(more, p, i) = RunAt(old, p, i)
  <2>1. ~(n <= i)
    BY <1>2
  <2>2. QED
    BY <1>1, <1>2, <1>3, <2>1 DEF RunAt
<1> DEFINE G == GamesOf(old, p)
<1>5. /\ \A i \in G : i \in Nat /\ i <= n /\ i <= Len(old) /\ more[i] = old[i] /\ ~(n <= i)
      /\ n <= n
  BY <1>1, <1>2, <1>3
<1>6. RunAt(old, p, Len(old)) = {i \in G : \A k \in G : i <= k => old[k].winner_uuid = p}
  BY <1>5 DEF RunAt
<1> HIDE DEF G
<1>7. ASSUME p \notin Uuids(e) PROVE RunAt(more, p, n) = RunAt(old, p, Len(old))
  <2>1. GamesOf(more, p) = G
    BY <1>3, <1>7 DEF G
  <2>2. RunAt(more, p, n) = {i \in G : \A k \in G : i <= k => old[k].winner_uuid = p}
    BY <1>5, <2>1 DEF RunAt
  <2>3. QED
    BY <1>6, <2>2
<1>8. ASSUME p \in Uuids(e)
      PROVE  /\ e.winner_uuid = p => RunAt(more, p, n) = RunAt(old, p, Len(old)) \cup {n}
             /\ e.winner_uuid # p => RunAt(more, p, n) = {}
  <2>1. GamesOf(more, p) = G \cup {n}
    BY <1>3, <1>8 DEF G
  <2>2. CASE e.winner_uuid = p
    <3>1. n \in RunAt(more, p, n)
      BY <1>1, <1>5, <2>1, <2>2 DEF RunAt
    <3>2. \A i \in G : i \in RunAt(more, p, n)
                      <=> \A k \in G : i <= k => old[k].winner_uuid = p
      BY <1>1, <1>5, <2>1, <2>2 DEF RunAt
    <3>3. RunAt(more, p, n) \subseteq G \cup {n}
      BY <2>1 DEF RunAt
    <3>4. RunAt(more, p, n) = RunAt(old, p, Len(old)) \cup {n}
      BY <1>6, <3>1, <3>2, <3>3
    <3>5. QED
      BY <2>2, <3>4
  <2>3. CASE e.winner_uuid # p
    <3>1. \A i \in G \cup {n} : i <= n
      BY <1>5
    <3>2. RunAt(more, p, n) = {}
      BY <1>1, <1>5, <2>1, <2>3, <3>1 DEF RunAt
    <3>3. QED
      BY <2>3, <3>2
  <2>4. QED
    BY <2>2, <2>3
<1>9. QED
  BY <1>3, <1>4, <1>7, <1>8 DEF more, n, G

\* Totals that count the results count one more of them after PlayerAfter.
LEMMA TotalsOfAppend ==
    ASSUME NEW old \in Seq(Results), NEW e \in Results, NEW p, NEW x,
           CountsTotals(x, p, old)
    PROVE  CountsTotals(IF p \in Uuids(e) THEN PlayerAfter(x, ResultOf(e, p)) ELSE x,
                        p, Append(old, e))
<1> DEFINE more == Append(old, e)
           n == Len(old) + 1
           WonBy(s) == {i \in GamesOf(s, p) : s[i].winner_uuid = p}
           Cards(s) == [i \in GamesOf(s, p) |-> ResultOf(s[i], p).cards_remaining]
           Score(s) == [i \in GamesOf(s, p) |-> ResultOf(s[i], p).final_score]
           Run(s, i) == Cardinality(RunAt(s, p, i))
<1>1. /\ more \in Seq(Results) /\ Len(more) = n
      /\ DOMAIN old = 1 .. Len(old) /\ DOMAIN more = 1 .. n /\ Len(old) \in Nat
      /\ more[n] = e /\ \A i \in DOMAIN old : more[i] = old[i]
  BY AppendProperties
<1>2. DOMAIN more = DOMAIN old \cup {n} /\ n \in DOMAIN more /\ n \notin DOMAIN old
  BY <1>1
<1>3. /\ p \notin Uuids(e) => /\ GamesOf(more, p) = GamesOf(old, p)
                              /\ RunAt(more, p, n) = RunAt(old, p, Len(old))
      /\ p \in Uuids(e) =>
            /\ GamesOf(more, p) = GamesOf(old, p) \cup {n}
            /\ e.winner_uuid = p => RunAt(more, p, n) = RunAt(old, p, Len(old)) \cup {n}
            /\ e.winner_uuid # p => RunAt(more, p, n) = {}
      /\ \A i \in DOMAIN old : RunAt(more, p, i) = RunAt(old, p, i)
  BY RunsOfAppend
<1>4. GamesOf(old, p) \subseteq DOMAIN old /\ IsFiniteSet(GamesOf(old, p))
  BY GamesAreFinite DEF GamesOf
<1>5. \A i : Run(old, i) \in Nat /\ Run(more, i) \in Nat
  BY <1>1, GamesAreFinite
<1>6. /\ x \in [games_played : Nat, wins : Nat, cards_remaining : Nat, total_score : Nat,
                streak : [current : Nat, best : Nat]]
      /\ x.games_played = Cardinality(GamesOf(old, p)) /\ x.wins = Cardinality(WonBy(old))
      /\ x.cards_remaining = Sum(Cards(old)) /\ x.total_score = Sum(Score(old))
      /\ x.streak.current = Run(old, Len(old))
      /\ x.streak.best = 0 \/ \E i \in DOMAIN old : x.streak.best = Run(old, i)
      /\ \A i \in DOMAIN old : Run(old, i) <= x.streak.best
  BY DEF CountsTotals
<1>7. \A i \in DOMAIN old : Run(more, i) = Run(old, i)
  BY <1>3
<1> HIDE DEF more, n, Run
<1>8. CASE p \notin Uuids(e)
  <2>1. WonBy(more) = WonBy(old) /\ Cards(more) = Cards(old) /\ Score(more) = Score(old)
    BY <1>1, <1>3, <1>4, <1>8
  <2>2. Run(more, n) = Run(old, Len(old))
    BY <1>3, <1>8 DEF Run
  <2>3. \A i \in DOMAIN more : Run(more, i) <= x.streak.best
    <3>1. Run(old, Len(old)) <= x.streak.best
      <4>1. CASE Len(old) = 0
        <5>1. RunAt(old, p, Len(old)) = {}
          BY <1>1, <1>4, <4>1 DEF RunAt
        <5>2. QED
          BY <1>6, <5>1, FS_EmptySet DEF Run
      <4>2. CASE Len(old) # 0
        BY <1>1, <1>6, <4>2
      <4>3. QED
        BY <4>1, <4>2
    <3>2. QED
      BY <1>2, <1>6, <1>7, <2>2, <3>1
  <2>4. x.streak.best = 0 \/ \E i \in DOMAIN more : x.streak.best = Run(more, i)
    BY <1>2, <1>6, <1>7
  <2> HIDE DEF WonBy, Cards, Score
  <2>5. /\ x.games_played = Cardinality(GamesOf(more, p)) /\ x.wins = Cardinality(WonBy(more))
        /\ x.cards_remaining = Sum(Cards(more)) /\ x.total_score = Sum(Score(more))
        /\ x.streak.current = Run(more, Len(more))
    BY <1>1, <1>3, <1>6, <1>8, <2>1, <2>2
  <2>6. CountsTotals(x, p, more)
    BY <1>6, <2>3, <2>4, <2>5 DEF CountsTotals, WonBy, Cards, Score, Run
  <2>7. QED
    BY <1>8, <2>6 DEF more
<1>9. CASE p \in Uuids(e)
  <2> DEFINE own == ResultOf(e, p)
             win == IF own.won THEN 1 ELSE 0
             new == PlayerAfter(x, own)
             c == x.streak.current
             b == x.streak.best
  <2>1. /\ own.won \in BOOLEAN /\ (own.won <=> e.winner_uuid = p)
        /\ own.cards_remaining \in Nat /\ own.final_score \in Nat
    BY <1>9, OwnResult, OwnTotals
  <2>2. Cardinality(GamesOf(more, p)) = Cardinality(GamesOf(old, p)) + 1
    BY <1>2, <1>3, <1>4, <1>9, FS_AddElement
  <2>3. Cardinality(WonBy(more)) = Cardinality(WonBy(old)) + win
    <3> DEFINE S == WonBy(old)
               T == WonBy(more)
    <3>1. T = IF own.won THEN S \cup {n} ELSE S
      BY <1>1, <1>2, <1>3, <1>4, <1>9, <2>1
    <3>2. IsFiniteSet(S) /\ n \notin S
      BY <1>2, <1>4, FS_Subset
    <3> HIDE DEF S, T, own
    <3>3. Cardinality(T) = Cardinality(S) + IF own.won THEN 1 ELSE 0
      BY <2>1, <3>1, <3>2, OneMore
    <3>4. QED
      BY <3>3 DEF S, T
  <2>4. Sum(Cards(more)) = Sum(Cards(old)) + own.cards_remaining
    <3>1. /\ DOMAIN Cards(old) = GamesOf(old, p)
          /\ DOMAIN Cards(more) = GamesOf(old, p) \cup {n} /\ n \notin GamesOf(old, p)
          /\ \A i \in GamesOf(old, p) : Cards(more)[i] = Cards(old)[i]
          /\ Cards(more)[n] = own.cards_remaining
      BY <1>1, <1>2, <1>3, <1>4, <1>9
    <3>2. \A i \in GamesOf(more, p) : Cards(more)[i] \in Nat
      BY <1>1, OwnTotals DEF GamesOf
    <3> DEFINE f == Cards(old)
               g == Cards(more)
    <3>3. /\ IsFiniteSet(DOMAIN f) /\ n \notin DOMAIN f /\ DOMAIN g = DOMAIN f \cup {n}
          /\ \A i \in DOMAIN f : g[i] = f[i]
      BY <1>4, <3>1
    <3>4. \A i \in DOMAIN g : g[i] \in Nat
      BY <1>3, <1>9, <3>1, <3>2
    <3> HIDE DEF f, g
    <3>5. Sum(g) = Sum(f) + g[n]
      BY <3>3, <3>4, SumOfOneMore
    <3>6. QED
      BY <3>1, <3>5 DEF f, g
  <2>5. Sum(Score(more)) = Sum(Score(old)) + own.final_score
    <3>1. /\ DOMAIN Score(old) = GamesOf(old, p)
          /\ DOMAIN Score(more) = GamesOf(old, p) \cup {n} /\ n \notin GamesOf(old, p)
          /\ \A i \in GamesOf(old, p) : Score(more)[i] = Score(old)[i]
          /\ Score(more)[n] = own.final_score
      BY <1>1, <1>2, <1>3, <1>4, <1>9
    <3>2. \A i \in GamesOf(more, p) : Score(more)[i] \in Nat
      BY <1>1, OwnTotals DEF GamesOf
    <3> DEFINE f == Score(old)
               g == Score(more)
    <3>3. /\ IsFiniteSet(DOMAIN f) /\ n \notin DOMAIN f /\ DOMAIN g = DOMAIN f \cup {n}
          /\ \A i \in DOMAIN f : g[i] = f[i]
      BY <1>4, <3>1
    <3>4. \A i \in DOMAIN g : g[i] \in Nat
      BY <1>3, <1>9, <3>1, <3>2
    <3> HIDE DEF f, g
    <3>5. Sum(g) = Sum(f) + g[n]
      BY <3>3, <3>4, SumOfOneMore
    <3>6. QED
      BY <3>1, <3>5 DEF f, g
  <2>6. Run(more, n) = IF own.won THEN Run(old, Len(old)) + 1 ELSE 0
    <3>1. CASE own.won
      <4>1. RunAt(more, p, n) = RunAt(old, p, Len(old)) \cup {n}
        BY <1>3, <1>9, <2>1, <3>1
      <4>2. IsFiniteSet(RunAt(old, p, Len(old))) /\ n \notin RunAt(old, p, Len(old))
        BY <1>2, <1>4, GamesAreFinite DEF RunAt
      <4>3. QED
        BY <3>1, <4>1, <4>2, FS_AddElement DEF Run
    <3>2. CASE ~own.won
      BY <1>3, <1>9, <2>1, <3>2, FS_EmptySet DEF Run
    <3>3. QED
      BY <2>1, <3>1, <3>2
  <2> HIDE DEF WonBy, Cards, Score, own
  <2>7. /\ x.games_played \in Nat /\ x.wins \in Nat /\ x.cards_remaining \in Nat
        /\ x.total_score \in Nat /\ c \in Nat /\ b \in Nat
        /\ x.streak = [current |-> c, best |-> b]
    BY <1>6
  <2>8. /\ new.games_played = x.games_played + 1 /\ new.wins = x.wins + win
        /\ new.cards_remaining = x.cards_remaining + own.cards_remaining
        /\ new.total_score = x.total_score + own.final_score
        /\ new.streak = StreakAfter(x.streak, own.won)
        /\ new = [games_played |-> new.games_played, wins |-> new.wins,
                  cards_remaining |-> new.cards_remaining, total_score |-> new.total_score,
                  streak |-> new.streak]
    BY DEF PlayerAfter
  <2>9. new.streak = [current |-> Run(more, n),
                      best |-> IF Run(more, n) > b THEN Run(more, n) ELSE b]
    <3>1. CASE own.won
      BY <1>6, <2>6, <2>7, <3>1 DEF StreakAfter, PlayerAfter
    <3>2. CASE ~own.won
      BY <1>6, <2>6, <2>7, <3>2 DEF StreakAfter, PlayerAfter
    <3>3. QED
      BY <2>1, <3>1, <3>2
  <2> HIDE DEF new, c, b
  <2>10. /\ new.streak.best \in Nat /\ new.streak.current \in Nat
         /\ new.streak.current = Run(more, Len(more))
         /\ \A i \in DOMAIN more : Run(more, i) <= new.streak.best
         /\ new.streak.best = 0 \/ \E i \in DOMAIN more : new.streak.best = Run(more, i)
    <3>1. \A i \in DOMAIN old : Run(more, i) \in Nat /\ Run(more, i) <= b
      BY <1>5, <1>6, <1>7 DEF b
    <3>2. b = 0 \/ \E i \in DOMAIN more : b = Run(more, i)
      BY <1>2, <1>6, <1>7 DEF b
    <3>3. Run(more, n) \in Nat /\ n \in DOMAIN more
      BY <1>2, <1>5
    <3>4. new.streak.current = Run(more, n)
          /\ new.streak.best = IF Run(more, n) > b THEN Run(more, n) ELSE b
      BY <2>9
    <3>5. new.streak.best \in Nat /\ b <= new.streak.best /\ Run(more, n) <= new.streak.best
      BY <2>7, <3>3, <3>4
    <3>6. ASSUME NEW i \in DOMAIN more PROVE Run(more, i) <= new.streak.best
      <4>1. CASE i \in DOMAIN old
        BY <2>7, <3>1, <3>5, <4>1
      <4>2. CASE i = n
        BY <3>5, <4>2
      <4>3. QED
        BY <1>2, <4>1, <4>2
    <3>7. new.streak.best = 0 \/ \E i \in DOMAIN more : new.streak.best = Run(more, i)
      BY <3>2, <3>3, <3>4
    <3>8. QED
      BY <1>1, <3>3, <3>4, <3>5, <3>6, <3>7
  <2>11. new \in [games_played : Nat, wins : Nat, cards_remaining : Nat, total_score : Nat,
                  streak : [current : Nat, best : Nat]]
    <3>1. new.streak \in [current : Nat, best : Nat]
      BY <2>9, <2>10
    <3>2. win \in Nat
      BY <2>1
    <3> HIDE DEF win
    <3>3. new.games_played \in Nat /\ new.wins \in Nat
      BY <2>7, <2>8, <3>2
    <3>4. new.cards_remaining \in Nat /\ new.total_score \in Nat
      BY <2>1, <2>7, <2>8, SMTT(30)
    <3>5. QED
      BY <2>8, <3>1, <3>3, <3>4
  <2>12. /\ new.games_played = Cardinality(GamesOf(more, p))
         /\ new.wins = Cardinality(WonBy(more))
         /\ new.cards_remaining = Sum(Cards(more)) /\ new.total_score = Sum(Score(more))
    BY <1>6, <2>2, <2>3, <2>4, <2>5, <2>8
  <2>13. CountsTotals(new, p, more)
    BY <2>10, <2>11, <2>12 DEF CountsTotals, WonBy, Cards, Score, Run
  <2>14. QED
    BY <1>9, <2>13 DEF new, own, more
<1>10. QED
  BY <1>8, <1>9

\* New totals count no results.
LEMMA NoTotals ==
    ASSUME NEW p
    PROVE  CountsTotals(NewTotals, p, <<>>)
<1>1. DOMAIN <<>> = {} /\ Len(<<>>) = 0
  OBVIOUS
<1>2. GamesOf(<<>>, p) = {}
  BY <1>1 DEF GamesOf
<1>3. \A e : RunAt(<<>>, p, e) = {}
  BY <1>2 DEF RunAt
<1>4. \A f : DOMAIN f = {} => Sum(f) = 0
  <2>1. \A f : DOMAIN f = {} => UNION {{i} \X (1 .. f[i]) : i \in DOMAIN f} = {}
    OBVIOUS
  <2>2. QED
    BY <2>1, FS_EmptySet DEF Sum
<1> DEFINE Cards == [i \in GamesOf(<<>>, p) |-> ResultOf(<<>>[i], p).cards_remaining]
           Score == [i \in GamesOf(<<>>, p) |-> ResultOf(<<>>[i], p).final_score]
           Wins == {i \in GamesOf(<<>>, p) : <<>>[i].winner_uuid = p}
<1>5. Sum(Cards) = 0 /\ Sum(Score) = 0
  <2>1. DOMAIN Cards = {} /\ DOMAIN Score = {}
    BY <1>2
  <2> HIDE DEF Cards, Score
  <2>2. QED
    BY <1>4, <2>1
<1>6. Cardinality(GamesOf(<<>>, p)) = 0 /\ Cardinality(Wins) = 0
      /\ Cardinality(RunAt(<<>>, p, Len(<<>>))) = 0
  <2>1. Wins = {}
    BY <1>2
  <2> HIDE DEF Wins
  <2>2. QED
    BY <1>2, <1>3, <2>1, FS_EmptySet
<1>7. NewTotals = [games_played |-> 0, wins |-> 0, cards_remaining |-> 0,
                   total_score |-> 0, streak |-> [current |-> 0, best |-> 0]]
  BY DEF NewTotals, NoStreak
<1> HIDE DEF Cards, Score, Wins
<1>8. /\ NewTotals \in [games_played : Nat, wins : Nat, cards_remaining : Nat,
                        total_score : Nat, streak : [current : Nat, best : Nat]]
      /\ NewTotals.games_played = Cardinality(GamesOf(<<>>, p))
      /\ NewTotals.wins = Cardinality(Wins)
      /\ NewTotals.cards_remaining = Sum(Cards) /\ NewTotals.total_score = Sum(Score)
      /\ NewTotals.streak.current = Cardinality(RunAt(<<>>, p, Len(<<>>)))
      /\ NewTotals.streak.best = 0
  BY <1>5, <1>6, <1>7
<1>9. QED
  BY <1>1, <1>8 DEF CountsTotals, Cards, Score, Wins

TotalsOf(r) == Entry(rooms, r, NewRoom).player_stats
TotalsInv ==
    \A r \in Room :
        /\ \A p : CountsTotals(Entry(TotalsOf(r), p, NewTotals), p, counted[r])
        /\ \A i \in DOMAIN counted[r] : Uuids(counted[r][i]) \subseteq DOMAIN TotalsOf(r)

\* The invariant of the totals implies what the run checks.
LEMMA TotalsInvSuffices == StatsInv /\ TotalsInv => TotalsAreARecount
<1> SUFFICES ASSUME StatsInv, TotalsInv, NEW r \in Room
             PROVE  IF r \notin DOMAIN rooms THEN counted[r] = <<>>
                    ELSE /\ rooms[r].games_played = Len(counted[r])
                         /\ \A p \in DOMAIN rooms[r].player_stats :
                                rooms[r].player_stats[p] = Recount(counted[r], p)
                         /\ \A i \in DOMAIN counted[r] :
                                Uuids(counted[r][i]) \subseteq DOMAIN rooms[r].player_stats
  BY DEF TotalsAreARecount
<1>1. CASE r \notin DOMAIN rooms
  BY <1>1 DEF StatsInv, TotalsSayHowMany
<1>2. CASE r \in DOMAIN rooms
  <2>1. rooms[r].games_played = Len(counted[r]) /\ TotalsOf(r) = rooms[r].player_stats
    BY <1>2 DEF StatsInv, TotalsSayHowMany, TotalsOf, Entry
  <2>2. counted[r] \in Seq(Results)
    BY DEF StatsInv, StatsTypes
  <2>3. ASSUME NEW p \in DOMAIN TotalsOf(r)
        PROVE  TotalsOf(r)[p] = Recount(counted[r], p)
    <3>1. Entry(TotalsOf(r), p, NewTotals) = TotalsOf(r)[p]
      BY DEF Entry
    <3>2. CountsTotals(TotalsOf(r)[p], p, counted[r])
      BY <3>1 DEF TotalsInv
    <3>3. QED
      BY <2>2, <3>2, TotalsAreTheRecount
  <2>4. QED
    BY <1>2, <2>1, <2>3 DEF TotalsInv
<1>3. QED
  BY <1>1, <1>2

\* The task of r counts the result it has recorded.
LEMMA TotalsCounted ==
    ASSUME StatsInv, TotalsInv, NEW r \in Room, RecordGame(r)
    PROVE  TotalsInv'
<1> DEFINE e == task[r].result
           old == counted[r]
           after == RoomAfter(Entry(rooms, r, NewRoom), e)
<1>1. /\ At(r, "count") /\ rooms' = With(rooms, r, after)
      /\ counted' = [counted EXCEPT ![r] = Append(@, e)]
  BY DEF RecordGame
<1>2. e \in Results /\ old \in Seq(Results) /\ counted \in [Room -> Seq(Results)]
  BY <1>1, TaskFacts DEF StatsInv, StatsTypes, HasResult, At
<1>3. /\ counted'[r] = Append(old, e) /\ \A s \in Room : s # r => counted'[s] = counted[s]
  BY <1>1, <1>2
<1>4. /\ TotalsOf(r)' = after.player_stats
      /\ \A s \in Room : s # r => TotalsOf(s)' = TotalsOf(s)
  BY <1>1 DEF With, TotalsOf, Entry
<1>5. /\ DOMAIN after.player_stats = DOMAIN TotalsOf(r) \cup Uuids(e)
      /\ \A p : Entry(after.player_stats, p, NewTotals)
                = IF p \in Uuids(e) THEN PlayerAfter(Entry(TotalsOf(r), p, NewTotals), ResultOf(e, p))
                  ELSE Entry(TotalsOf(r), p, NewTotals)
  BY DEF RoomAfter, Entry, TotalsOf
<1> HIDE DEF e, after
<1>6. ASSUME NEW p
      PROVE  CountsTotals(Entry(TotalsOf(r)', p, NewTotals), p, counted'[r])
  <2>1. CountsTotals(Entry(TotalsOf(r), p, NewTotals), p, old)
    BY DEF TotalsInv
  <2> HIDE DEF old
  <2>2. CountsTotals(IF p \in Uuids(e) THEN PlayerAfter(Entry(TotalsOf(r), p, NewTotals), ResultOf(e, p))
                     ELSE Entry(TotalsOf(r), p, NewTotals), p, Append(old, e))
    BY <1>2, <2>1, TotalsOfAppend
  <2>3. QED
    BY <1>3, <1>4, <1>5, <2>2
<1>7. \A i \in DOMAIN counted'[r] : Uuids(counted'[r][i]) \subseteq DOMAIN TotalsOf(r)'
  <2>1. /\ DOMAIN Append(old, e) = 1 .. Len(old) + 1 /\ DOMAIN old = 1 .. Len(old)
        /\ Append(old, e)[Len(old) + 1] = e /\ Len(old) \in Nat
        /\ \A i \in DOMAIN old : Append(old, e)[i] = old[i]
    BY <1>2, AppendProperties
  <2>2. \A i \in DOMAIN Append(old, e) : i \in DOMAIN old \/ i = Len(old) + 1
    BY <2>1
  <2>3. \A i \in DOMAIN old : Uuids(old[i]) \subseteq DOMAIN TotalsOf(r)
    BY DEF TotalsInv
  <2> HIDE DEF old
  <2>4. QED
    BY <1>3, <1>4, <1>5, <2>1, <2>2, <2>3
<1>8. QED
  BY <1>3, <1>4, <1>6, <1>7 DEF TotalsInv

\* A room's totals are those of a recount of the games it has counted since its
\* last reset, for any number of rooms, games and players: games, wins, cards left,
\* score, and the streaks of wins over each player's own games.
THEOREM TotalsAreRecounted == Spec => []TotalsAreARecount
<1>1. Init => TotalsInv
  <2> SUFFICES ASSUME Init, NEW r \in Room
               PROVE  /\ \A p : CountsTotals(Entry(TotalsOf(r), p, NewTotals), p, counted[r])
                      /\ \A i \in DOMAIN counted[r] :
                            Uuids(counted[r][i]) \subseteq DOMAIN TotalsOf(r)
    BY DEF TotalsInv
  <2>1. counted[r] = <<>> /\ DOMAIN <<>> = {}
    BY DEF Init
  <2>2. TotalsOf(r) = EmptyTotals /\ \A p : Entry(EmptyTotals, p, NewTotals) = NewTotals
    BY DEF Init, TotalsOf, Entry, EmptyTotals, NewRoom
  <2>3. QED
    BY <2>1, <2>2, NoTotals
<1>2. StatsInv /\ TotalsInv /\ [Next]_vars => TotalsInv'
  <2> SUFFICES ASSUME StatsInv, TotalsInv, [Next]_vars PROVE TotalsInv'
    OBVIOUS
  <2>1. ASSUME UNCHANGED totals PROVE TotalsInv'
    BY <2>1 DEF totals, TotalsInv, TotalsOf
  <2>2. ASSUME NEW r \in Room, ResetRoomStats(r) PROVE TotalsInv'
    <3>1. /\ rooms' = [x \in DOMAIN rooms \ {r} |-> rooms[x]]
          /\ counted' = [counted EXCEPT ![r] = <<>>]
          /\ counted \in [Room -> Seq(Results)]
      BY <2>2 DEF ResetRoomStats, StatsInv, StatsTypes
    <3>2. counted'[r] = <<>> /\ DOMAIN <<>> = {}
          /\ \A s \in Room : s # r => counted'[s] = counted[s]
      BY <3>1
    <3>3. /\ TotalsOf(r)' = EmptyTotals /\ \A p : Entry(EmptyTotals, p, NewTotals) = NewTotals
          /\ \A s \in Room : s # r => TotalsOf(s)' = TotalsOf(s)
      BY <3>1 DEF TotalsOf, Entry, EmptyTotals, NewRoom
    <3>4. /\ \A p : CountsTotals(Entry(TotalsOf(r)', p, NewTotals), p, counted'[r])
          /\ \A i \in DOMAIN counted'[r] : Uuids(counted'[r][i]) \subseteq DOMAIN TotalsOf(r)'
      BY <3>2, <3>3, NoTotals
    <3>5. QED
      BY <3>2, <3>3, <3>4 DEF TotalsInv
  <2>3. ASSUME NEW r \in Room,
               GameWon(r) \/ GameWonAgain(r) \/ MakeResult(r) \/ Duplicate(r) \/ Recorded(r)
               \/ RecordFails(r) \/ Aggregate(r) \/ ChangeBots(r)
        PROVE  UNCHANGED totals
    BY <2>3 DEF GameWon, GameWonAgain, Submit, MakeResult, Duplicate, Recorded,
       RecordFails, Aggregate, ChangeBots
  <2>4. CASE UNCHANGED vars
    BY <2>1, <2>4 DEF vars, totals
  <2>5. QED
    BY <2>1, <2>2, <2>3, <2>4, TotalsCounted DEF Next, Handler
<1>3. QED
  BY <1>1, <1>2, StatsInvariant, TotalsInvSuffices, PTL DEF Spec
=============================================================================
