---------------------- MODULE TelemetryReporter_proofs ----------------------
(***************************************************************************)
(* That the reporter keeps what it promises for any number of requests,    *)
(* any buffer and batch sizes and any retention: nothing is lost untold,   *)
(* nothing confirmed is kept, no request is counted too early, no batch    *)
(* leaves when it must not, and failures outlive successes.                *)
(*                                                                         *)
(* The invariant ReporterInv adds to the properties what makes them        *)
(* inductive: that who sends holds the flush lock, that the rows of closed *)
(* windows and of the current one are of different requests, and that a    *)
(* batch on its way is, row by row, what the store still has of it.        *)
(***************************************************************************)
EXTENDS TelemetryReporter, CounterWindow_proofs, FiniteSetTheorems, FunctionTheorems

-----------------------------------------------------------------------------
(* Induction, over sets of numbers. *)
LEMMA SetInduction ==
    ASSUME NEW T \in SUBSET Nat, 0 \in T, \A n \in T : n + 1 \in T
    PROVE  T = Nat
<1> SUFFICES ASSUME Nat \ T # {} PROVE FALSE
  OBVIOUS
<1> DEFINE m == Min(Nat \ T)
<1>1. m \in Nat \ T /\ \A n \in Nat \ T : m <= n
  BY MinIsLeast
<1> HIDE DEF m
<1>2. m # 0 /\ m - 1 \in Nat /\ (m - 1) + 1 = m /\ ~(m <= m - 1)
  BY <1>1
<1>3. m - 1 \in T
  BY <1>1, <1>2
<1>4. m \in T
  BY <1>2, <1>3
<1>5. QED BY <1>1, <1>4

LEMMA ConcatItems ==
    ASSUME NEW S, NEW a \in Seq(S), NEW b \in Seq(S)
    PROVE  ToSet(a \o b) = ToSet(a) \cup ToSet(b)
<1> DEFINE c == a \o b
<1>1. /\ Len(a) \in Nat /\ Len(b) \in Nat
      /\ DOMAIN a = 1..Len(a) /\ DOMAIN b = 1..Len(b)
  OBVIOUS
<1>2. /\ c \in Seq(S) /\ Len(c) = Len(a) + Len(b) /\ DOMAIN c = 1..Len(c)
      /\ \A i \in 1..(Len(a) + Len(b)) : c[i] = IF i <= Len(a) THEN a[i] ELSE b[i - Len(a)]
  BY ConcatProperties
<1> HIDE DEF c
<1>3. ASSUME NEW i \in 1..Len(c) PROVE c[i] \in ToSet(a) \cup ToSet(b)
  <2>1. CASE i <= Len(a)
    <3>1. i \in 1..Len(a) /\ c[i] = a[i]
      BY <1>1, <1>2, <2>1
    <3>2. QED BY <1>1, <3>1 DEF ToSet
  <2>2. CASE ~(i <= Len(a))
    <3>1. i - Len(a) \in 1..Len(b) /\ c[i] = b[i - Len(a)]
      BY <1>1, <1>2, <2>2
    <3>2. QED BY <1>1, <3>1 DEF ToSet
  <2>3. QED BY <2>1, <2>2
<1>4. ASSUME NEW i \in 1..Len(a) PROVE a[i] \in ToSet(c)
  <2>1. i \in 1..Len(c) /\ c[i] = a[i]
    BY <1>1, <1>2
  <2>2. QED BY <1>2, <2>1 DEF ToSet
<1>5. ASSUME NEW i \in 1..Len(b) PROVE b[i] \in ToSet(c)
  <2>1. Len(a) + i \in 1..Len(c) /\ c[Len(a) + i] = b[i]
    BY <1>1, <1>2
  <2>2. QED BY <1>2, <2>1 DEF ToSet
<1>6. QED BY <1>1, <1>2, <1>3, <1>4, <1>5 DEF ToSet, c

-----------------------------------------------------------------------------
(* G[i] is the concatenation of the first i sequences in ss. *)
Flattens(G, ss, n, S) ==
    /\ G \in [1..n -> Seq(S)]
    /\ \A i \in 1..n : G[i] = IF i = 1 THEN ss[i] ELSE G[i - 1] \o ss[i]

LEMMA FlattenExists ==
    ASSUME NEW S, NEW ss \in Seq(Seq(S))
    PROVE  \E G : Flattens(G, ss, Len(ss), S)
<1> DEFINE T == {n \in Nat : n <= Len(ss) => \E G : Flattens(G, ss, n, S)}
<1>1. 0 \in T
  <2>1. Flattens([i \in 1..0 |-> <<>>], ss, 0, S)
    BY DEF Flattens
  <2>2. QED BY <2>1
<1>2. ASSUME NEW n \in T PROVE n + 1 \in T
  <2>1. n \in Nat
    OBVIOUS
  <2>2. SUFFICES ASSUME n + 1 <= Len(ss) PROVE \E G : Flattens(G, ss, n + 1, S)
    BY <2>1
  <2>3. PICK G : Flattens(G, ss, n, S)
    BY <2>1, <2>2
  <2> DEFINE H == [i \in 1..(n + 1) |-> IF i <= n THEN G[i]
                                        ELSE IF i = 1 THEN ss[i] ELSE G[n] \o ss[i]]
  <2>4. ss[n + 1] \in Seq(S)
    BY <2>1, <2>2, ElementOfSeq
  <2>5. G \in [1..n -> Seq(S)] /\ \A i \in 1..n : G[i] = IF i = 1 THEN ss[i] ELSE G[i - 1] \o ss[i]
    BY <2>3 DEF Flattens
  <2>6. n # 0 => G[n] \in Seq(S) /\ G[n] \o ss[n + 1] \in Seq(S)
    <3>1. SUFFICES ASSUME n # 0 PROVE G[n] \in Seq(S) /\ G[n] \o ss[n + 1] \in Seq(S)
      OBVIOUS
    <3>2. G[n] \in Seq(S)
      BY <2>1, <2>5, <3>1
    <3>3. QED BY <2>4, <3>2, ConcatProperties
  <2>7. \A i \in 1..(n + 1) : i \in 1..n \/ (i = n + 1 /\ ~(i <= n))
    BY <2>1
  <2>8. ASSUME NEW i \in 1..(n + 1) PROVE H[i] \in Seq(S)
    <3>1. CASE i \in 1..n
      BY <2>1, <2>5, <3>1
    <3>2. CASE i = n + 1 /\ ~(i <= n)
      BY <2>1, <2>4, <2>6, <3>2
    <3>3. QED BY <2>7, <3>1, <3>2
  <2>9. ASSUME NEW i \in 1..(n + 1)
        PROVE  H[i] = IF i = 1 THEN ss[i] ELSE H[i - 1] \o ss[i]
    <3>1. CASE i \in 1..n
      <4>1. H[i] = G[i] /\ (i # 1 => H[i - 1] = G[i - 1])
        BY <2>1, <3>1
      <4>2. QED BY <2>5, <3>1, <4>1
    <3>2. CASE i = n + 1 /\ ~(i <= n)
      <4>1. i # 1 => i - 1 = n /\ H[i - 1] = G[n]
        BY <2>1, <3>2
      <4>2. QED BY <2>1, <3>2, <4>1
    <3>3. QED BY <2>7, <3>1, <3>2
  <2>10. H \in [1..(n + 1) -> Seq(S)]
    <3>1. H = [i \in 1..(n + 1) |-> H[i]]
      OBVIOUS
    <3> HIDE DEF H
    <3>2. QED BY <2>8, <3>1
  <2> HIDE DEF H
  <2>11. QED BY <2>9, <2>10 DEF Flattens
<1>3. Len(ss) \in Nat
  OBVIOUS
<1> HIDE DEF T
<1>4. T = Nat
  <2>1. T \in SUBSET Nat
    BY DEF T
  <2>2. QED BY <1>1, <1>2, <2>1, SetInduction
<1>5. QED BY <1>3, <1>4 DEF T

LEMMA FlattenIs ==
    ASSUME NEW S, NEW ss \in Seq(Seq(S)), Len(ss) # 0
    PROVE  \E G : Flattens(G, ss, Len(ss), S) /\ FlattenSeq(ss) = G[Len(ss)]
<1> DEFINE Equation(G) ==
              G = [i \in 1..Len(ss) |-> IF i = 1 THEN ss[i] ELSE G[i - 1] \o ss[i]]
<1>1. PICK F : Flattens(F, ss, Len(ss), S)
  BY FlattenExists
<1>2. Equation(F)
  <2>1. F = [i \in 1..Len(ss) |-> F[i]]
    BY <1>1 DEF Flattens
  <2>2. QED BY <1>1, <2>1 DEF Flattens
<1>3. PICK G : Equation(G) /\ FlattenSeq(ss) = G[Len(ss)]
  BY Zenon, <1>2 DEF FlattenSeq
<1> DEFINE n == Len(ss)
           T == {i \in Nat : i + 1 <= n => G[i + 1] = F[i + 1]}
<1>4. n \in Nat
  OBVIOUS
<1>5. /\ DOMAIN G = 1..n
      /\ \A i \in 1..n : G[i] = IF i = 1 THEN ss[i] ELSE G[i - 1] \o ss[i]
  BY <1>3
<1>6. \A i \in 1..n : F[i] = IF i = 1 THEN ss[i] ELSE F[i - 1] \o ss[i]
  BY <1>1 DEF Flattens
<1> HIDE DEF n
<1>7. 0 \in T
  <2>1. 1 <= n => G[1] = F[1]
    <3>1. SUFFICES ASSUME 1 \in 1..n PROVE G[1] = F[1]
      BY <1>4
    <3>2. G[1] = ss[1]
      BY <1>5, <3>1
    <3>3. F[1] = ss[1]
      BY <1>6, <3>1
    <3>4. QED BY <3>2, <3>3
  <2>2. QED BY <2>1
<1>8. ASSUME NEW i \in T PROVE i + 1 \in T
  <2>1. SUFFICES ASSUME (i + 1) + 1 <= n PROVE G[(i + 1) + 1] = F[(i + 1) + 1]
    OBVIOUS
  <2>2. i \in Nat /\ i + 1 <= n /\ G[i + 1] = F[i + 1]
    BY <1>4, <2>1
  <2>3. (i + 1) + 1 \in 1..n /\ (i + 1) + 1 # 1 /\ ((i + 1) + 1) - 1 = i + 1
    BY <1>4, <2>1, <2>2
  <2> DEFINE k == (i + 1) + 1
  <2>4. k \in 1..n /\ k # 1 /\ k - 1 = i + 1
    BY <2>3
  <2> HIDE DEF k
  <2>5. G[k] = G[k - 1] \o ss[k]
    BY <1>5, <2>4
  <2>6. F[k] = F[k - 1] \o ss[k]
    BY <1>6, <2>4
  <2>7. G[k] = F[k]
    BY <2>2, <2>4, <2>5, <2>6
  <2>8. QED BY <2>7 DEF k
<1> HIDE DEF T
<1>9. T = Nat
  <2>1. T \in SUBSET Nat
    BY DEF T
  <2>2. QED BY <1>7, <1>8, <2>1, SetInduction
<1>10. ASSUME NEW i \in 1..n PROVE G[i] = F[i]
  <2>1. i - 1 \in T /\ (i - 1) + 1 = i /\ i <= n
    BY <1>4, <1>9
  <2>2. QED BY <2>1 DEF T
<1>11. Flattens(G, ss, n, S)
  <2>1. G = [i \in 1..n |-> G[i]]
    BY <1>3 DEF n
  <2>2. \A i \in 1..n : F[i] \in Seq(S)
    BY <1>1 DEF Flattens, n
  <2>3. G \in [1..n -> Seq(S)]
    BY <1>10, <2>1, <2>2
  <2>4. QED BY <1>5, <2>3 DEF Flattens
<1>12. QED BY <1>3, <1>11 DEF n

(* The items of the flattened sequence are those of its parts; and when no *)
(* part has more than one, they are no more than the parts.                *)
LEMMA FlattenHas ==
    ASSUME NEW S, NEW ss \in Seq(Seq(S))
    PROVE  /\ FlattenSeq(ss) \in Seq(S)
           /\ ToSet(FlattenSeq(ss)) = UNION {ToSet(ss[i]) : i \in 1..Len(ss)}
           /\ (\A i \in 1..Len(ss) : Len(ss[i]) <= 1) => Len(FlattenSeq(ss)) <= Len(ss)
<1>1. CASE Len(ss) = 0
  <2>1. FlattenSeq(ss) = ss /\ ss = <<>>
    BY <1>1, EmptySeq DEF FlattenSeq
  <2>2. QED BY <1>1, <2>1 DEF ToSet
<1>2. CASE Len(ss) # 0
  <2> DEFINE n == Len(ss)
             Items(m) == UNION {ToSet(ss[i]) : i \in 1..m}
  <2>1. PICK G : Flattens(G, ss, n, S) /\ FlattenSeq(ss) = G[n]
    BY <1>2, FlattenIs
  <2> DEFINE Good(m) == /\ ToSet(G[m]) = Items(m)
                        /\ (\A i \in 1..n : Len(ss[i]) <= 1) => Len(G[m]) <= m
             T == {i \in Nat : i + 1 <= n => Good(i + 1)}
  <2>2. /\ \A i \in 1..n : G[i] \in Seq(S)
        /\ \A i \in 1..n : G[i] = IF i = 1 THEN ss[i] ELSE G[i - 1] \o ss[i]
    BY <2>1 DEF Flattens
  <2>3. n \in Nat /\ n # 0 /\ \A i \in 1..n : ss[i] \in Seq(S)
    BY <1>2, ElementOfSeq
  <2> HIDE DEF n
  <2>4. Good(1)
    <3>1. 1 \in 1..n
      BY <2>3
    <3>2. G[1] = ss[1]
      BY <2>2, <3>1
    <3>3. Items(1) = ToSet(ss[1])
      OBVIOUS
    <3>4. QED BY <3>1, <3>2, <3>3
  <2>5. ASSUME NEW m \in 1..n, m + 1 <= n, Good(m) PROVE Good(m + 1)
    <3> DEFINE a == G[m]
               b == ss[m + 1]
    <3>1. a \in Seq(S) /\ b \in Seq(S) /\ m + 1 \in 1..n
      BY <2>2, <2>3, <2>5
    <3>2. G[m + 1] = a \o b
      <4>1. m + 1 # 1 /\ (m + 1) - 1 = m
        BY <2>3
      <4>2. QED BY <2>2, <3>1, <4>1
    <3>3. Items(m + 1) = Items(m) \cup ToSet(b)
      <4>1. \A i : i \in 1..(m + 1) <=> i \in 1..m \/ i = m + 1
        BY <2>3
      <4>2. QED BY <4>1
    <3> HIDE DEF a, b, Items
    <3>4. ToSet(a \o b) = ToSet(a) \cup ToSet(b)
      BY <3>1, ConcatItems
    <3>5. Len(a \o b) = Len(a) + Len(b)
      BY <3>1, ConcatProperties
    <3>6. ToSet(G[m + 1]) = Items(m + 1)
      BY <2>5, <3>2, <3>3, <3>4 DEF a
    <3>7. ASSUME \A i \in 1..n : Len(ss[i]) <= 1 PROVE Len(G[m + 1]) <= m + 1
      <4>1. Len(a) <= m /\ Len(b) <= 1
        BY <2>5, <3>1, <3>7 DEF a, b
      <4>2. Len(a) \in Nat /\ Len(b) \in Nat
        BY <3>1
      <4>3. QED BY <2>3, <3>2, <3>5, <4>1, <4>2
    <3>8. QED BY <3>6, <3>7
  <2> HIDE DEF Good
  <2>6. T = Nat
    <3>1. 0 \in T
      BY <2>4
    <3>2. ASSUME NEW i \in T PROVE i + 1 \in T
      <4>1. SUFFICES ASSUME (i + 1) + 1 <= n PROVE Good((i + 1) + 1)
        OBVIOUS
      <4>2. i + 1 \in 1..n /\ Good(i + 1)
        BY <2>3, <4>1
      <4>3. QED BY <2>5, <4>1, <4>2
    <3>3. T \in SUBSET Nat
      OBVIOUS
    <3> HIDE DEF T
    <3>4. QED BY <3>1, <3>2, <3>3, SetInduction
  <2>7. Good(n)
    <3>1. n - 1 \in Nat /\ (n - 1) + 1 = n
      BY <2>3
    <3>2. n - 1 \in T
      BY <2>6, <3>1
    <3>3. QED BY <2>3, <3>1, <3>2
  <2>8. G[n] \in Seq(S)
    BY <2>2, <2>3
  <2>9. QED BY <2>1, <2>7, <2>8 DEF Good, n
<1>3. QED BY <1>1, <1>2

-----------------------------------------------------------------------------
(* Without takes out the items that are gone, and nothing else. *)
LEMMA WithoutIs ==
    ASSUME NEW S, NEW s \in Seq(S), NEW gone
    PROVE  /\ Without(s, gone) \in Seq(S)
           /\ ToSet(Without(s, gone)) = ToSet(s) \ gone
           /\ Len(Without(s, gone)) <= Len(s)
<1> DEFINE ss == [i \in DOMAIN s |-> IF s[i] \in gone THEN <<>> ELSE <<s[i]>>]
<1>1. DOMAIN s = 1..Len(s) /\ Len(s) \in Nat /\ \A i \in 1..Len(s) : s[i] \in S
  BY ElementOfSeq
<1>2. \A i \in 1..Len(s) : ss[i] = (IF s[i] \in gone THEN <<>> ELSE <<s[i]>>)
  BY <1>1
<1>3. \A i \in 1..Len(s) : ss[i] \in Seq(S) /\ Len(ss[i]) <= 1
  BY <1>1, <1>2
<1>4. ss \in Seq(Seq(S)) /\ Len(ss) = Len(s)
  <2>1. ss = [i \in 1..Len(s) |-> ss[i]]
    BY <1>1
  <2> HIDE DEF ss
  <2>2. ss \in [1..Len(s) -> Seq(S)]
    BY <1>3, <2>1
  <2>3. QED BY <1>1, <2>2
<1>5. Without(s, gone) = FlattenSeq(ss)
  BY DEF Without
<1> HIDE DEF ss
<1>6. ASSUME NEW i \in 1..Len(s) PROVE ToSet(ss[i]) = {s[i]} \ gone
  <2>1. ToSet(<<>>) = {}
    BY DEF ToSet
  <2>2. ToSet(<<s[i]>>) = {s[i]}
    BY DEF ToSet
  <2>3. CASE s[i] \in gone
    BY <1>2, <2>1, <2>3
  <2>4. CASE s[i] \notin gone
    BY <1>2, <2>2, <2>4
  <2>5. QED BY <2>3, <2>4
<1>7. ToSet(s) = UNION {{s[i]} : i \in 1..Len(s)}
  BY <1>1 DEF ToSet
<1>8. UNION {ToSet(ss[i]) : i \in 1..Len(s)} = ToSet(s) \ gone
  BY <1>6, <1>7
<1>9. QED BY <1>3, <1>4, <1>5, <1>8, FlattenHas

(* What a request in each state has.  A reporter's items are typed by the *)
(* request they are about.                                                 *)
Running == [pc : {"running", "ignored"}, at : 0..MaxTime]

Finished == [pc : {"recording", "recorded", "ignored"}, at : 0..MaxTime,
             kind : Kinds, key : Keys]

Event == [request : Requests, kind : Kinds \ {"none"}]

Window == [start : -1..MaxTime, rows : Seq(Row)]

Store == [start : -1..MaxTime, current : Seq(Row), closed : Seq(Window),
          retained : Int, dropped : Nat]

Times == [nextFlush : Nat, paused : Nat, backoffUntil : Nat, backoff : Nat]

Batch == [events : SUBSET Requests, rows : SUBSET Row, dropped : Nat]

Points == {"none", "top", "wait", "clear", "want", "select", "flight", "rest", "exited"}

TypesInv ==
    /\ now \in 0..MaxTime
    /\ request \in [Requests -> Running \cup Finished]
    /\ events \in Seq(Event) /\ Len(events) <= MaxEvents
    /\ timing \in Times
    /\ disabled \in BOOLEAN /\ closed \in BOOLEAN
    /\ flushLock \in Flushers \cup {"free"}
    /\ flusher \in [Flushers -> [pc : Points, at : Nat, batch : Batch]]
    /\ acked \in [events : SUBSET Requests, counts : SUBSET Requests]
    /\ reported \in Nat

(* A flusher that may send holds the lock, and was allowed to when it took *)
(* it; only a batch in flight is kept.                                     *)
LockInv ==
    /\ ~closed => flusher["final"].pc = "none"
    /\ \A f \in Flushers :
          /\ flusher[f].pc \in {"select", "flight"} => flushLock = f
          /\ flusher[f].pc = "select" =>
                now >= BlockedUntil /\ ~disabled /\ flusher[f].at \in 0..MaxTime
          /\ flusher[f].pc # "flight" => flusher[f].batch = NoBatch

-----------------------------------------------------------------------------
(* The rows of a store s that holds requests of R, which ended at at[r].   *)
AllRows(s) == RowsOf(s.closed) \cup ToSet(s.current)

Within(rows) == UNION {row.requests : row \in rows}

Apart(rows) ==
    \A one, other \in rows : one # other => one.requests \cap other.requests = {}

Punctual(s, at) ==
    /\ \A r \in Within(ToSet(s.current)) : at[r] <= s.start
    /\ \A i \in 1..Len(s.closed) :
          \A r \in Within(ToSet(s.closed[i].rows)) : at[r] <= s.closed[i].start

StoreOK(s, R, at) ==
    /\ s \in Store
    /\ Sound(s.current, Within(ToSet(s.current)))
    /\ Within(AllRows(s)) \subseteq R
    /\ Within(RowsOf(s.closed)) \cap Within(ToSet(s.current)) = {}
    /\ Apart(RowsOf(s.closed))
    /\ Punctual(s, at)

At == [r \in Requests |-> request[r].at]

StoreInv == IsFiniteSet(Recorded) /\ StoreOK(store, Recorded, At)

(* A batch on its way is recorded and not confirmed (done), and what the   *)
(* store still has of it it has as it is on its way.                       *)
OnItsWay(batch, R, done, s) ==
    /\ batch.events \subseteq R \ done.events
    /\ Within(batch.rows) \subseteq R \ done.counts
    /\ IsFiniteSet(batch.rows)
    /\ Within(AllRows(s) \ batch.rows) \cap Within(batch.rows) = {}
    /\ Within(ToSet(s.current)) \cap Within(batch.rows) = {}

AckInv ==
    /\ Buffered \subseteq Recorded \ acked.events /\ acked.events \subseteq Recorded
    /\ Counted \subseteq Recorded \ acked.counts /\ acked.counts \subseteq Recorded
    /\ \A f \in Flushers : OnItsWay(flusher[f].batch, Recorded, acked, store)

LostEvents ==
    {r \in Recorded : request[r].kind # "none"} \ (Buffered \cup acked.events)

LostCounts == Recorded \ (Counted \cup acked.counts)

LossInv ==
    ~disabled => Cardinality(LostEvents) + (IF LostCounts = {} THEN 0 ELSE 1)
                    <= reported + store.dropped

ReporterInv == TypesInv /\ LockInv /\ StoreInv /\ AckInv /\ LossInv

-----------------------------------------------------------------------------
LEMMA ItemsAreFinite ==
    ASSUME NEW S, NEW s \in Seq(S)
    PROVE  IsFiniteSet(ToSet(s))
<1>1. Len(s) \in Nat /\ DOMAIN s = 1..Len(s) /\ s = [i \in 1..Len(s) |-> s[i]]
  OBVIOUS
<1>2. IsFiniteSet(1..Len(s))
  <2>1. Len(s) \in Int /\ 1 \in Int
    OBVIOUS
  <2>2. QED BY <2>1, FS_Interval
<1>3. s \in Surjection(1..Len(s), ToSet(s))
  BY <1>1 DEF Surjection, ToSet
<1>4. QED BY <1>2, <1>3, FS_Surjection

LEMMA ItemsOf ==
    ASSUME NEW S, NEW s \in Seq(S)
    PROVE  /\ ToSet(s) \subseteq S
           /\ \A x : x \in ToSet(s) <=> \E i \in 1..Len(s) : s[i] = x
BY DOMAIN s = 1..Len(s), ElementOfSeq DEF ToSet

(* The rows of windows, and of a part of them. *)
LEMMA RowsAreFinite ==
    ASSUME NEW windows \in Seq(Window)
    PROVE  /\ IsFiniteSet(RowsOf(windows)) /\ Size(windows) \in Nat
           /\ Size(windows) = 0 <=> RowsOf(windows) = {}
           /\ RowsOf(windows) \subseteq Row
<1> DEFINE q == [i \in 1..Len(windows) |-> ToSet(windows[i].rows)]
           Parts == {ToSet(windows[i].rows) : i \in 1..Len(windows)}
<1>1. Len(windows) \in Nat /\ DOMAIN windows = 1..Len(windows)
  OBVIOUS
<1>2. \A i \in 1..Len(windows) : windows[i].rows \in Seq(Row)
  <2>1. \A i \in 1..Len(windows) : windows[i] \in Window
    BY ElementOfSeq
  <2>2. QED BY <2>1 DEF Window
<1>3. \A T \in Parts : IsFiniteSet(T) /\ T \subseteq Row
  BY <1>2, ItemsAreFinite, ItemsOf
<1>4. IsFiniteSet(Parts)
  <2>1. q \in Surjection(1..Len(windows), Parts)
    BY DEF Surjection
  <2>2. IsFiniteSet(1..Len(windows))
    BY <1>1, FS_Interval
  <2> HIDE DEF q, Parts
  <2>3. QED BY <2>1, <2>2, FS_Surjection
<1>5. RowsOf(windows) = UNION Parts
  BY <1>1 DEF RowsOf
<1> HIDE DEF Parts
<1>6. IsFiniteSet(RowsOf(windows)) /\ RowsOf(windows) \subseteq Row
  BY <1>3, <1>4, <1>5, FS_UNION
<1>7. QED BY <1>6, FS_CardinalityType, FS_EmptySet DEF Size

LEMMA SubWindows ==
    ASSUME NEW windows \in Seq(Window), NEW n \in 0..Len(windows)
    PROVE  /\ SubSeq(windows, 1, n) \in Seq(Window)
           /\ SubSeq(windows, n + 1, Len(windows)) \in Seq(Window)
           /\ \A i \in 1..Len(SubSeq(windows, n + 1, Len(windows))) :
                 /\ n + i \in 1..Len(windows)
                 /\ SubSeq(windows, n + 1, Len(windows))[i] = windows[n + i]
           /\ RowsOf(windows) = RowsOf(SubSeq(windows, 1, n))
                                  \cup RowsOf(SubSeq(windows, n + 1, Len(windows)))
<1> DEFINE a == SubSeq(windows, 1, n)
           b == SubSeq(windows, n + 1, Len(windows))
           m == Len(windows)
<1>1. m \in Nat /\ n \in Nat /\ n <= m /\ DOMAIN windows = 1..m
  OBVIOUS
<1>2. /\ a \in Seq(Window) /\ DOMAIN a = 1..n /\ \A i \in 1..n : a[i] = windows[i]
      /\ b \in Seq(Window) /\ Len(b) = m - n /\ DOMAIN b = 1..(m - n)
      /\ \A i \in 1..(m - n) : b[i] = windows[n + i]
  OBVIOUS
<1> HIDE DEF a, b, m
<1>3. ASSUME NEW i \in 1..m, NEW row \in ToSet(windows[i].rows)
      PROVE  row \in RowsOf(a) \cup RowsOf(b)
  <2>1. CASE i <= n
    BY <1>1, <1>2, <1>3, <2>1 DEF RowsOf
  <2>2. CASE ~(i <= n)
    <3>1. i - n \in 1..(m - n) /\ n + (i - n) = i
      BY <1>1, <2>2
    <3>2. b[i - n] = windows[i]
      BY <1>2, <3>1
    <3>3. QED BY <1>2, <1>3, <3>1, <3>2 DEF RowsOf
  <2>3. QED BY <2>1, <2>2
<1>4. RowsOf(a) \subseteq RowsOf(windows)
  <2>1. \A i \in 1..n : i \in 1..m
    BY <1>1
  <2>2. QED BY <1>1, <1>2, <2>1 DEF RowsOf
<1>5. RowsOf(b) \subseteq RowsOf(windows)
  <2>1. \A i \in 1..(m - n) : n + i \in 1..m
    BY <1>1
  <2>2. QED BY <1>1, <1>2, <2>1 DEF RowsOf
<1>6. RowsOf(windows) \subseteq RowsOf(a) \cup RowsOf(b)
  BY <1>1, <1>3 DEF RowsOf
<1>7. \A i \in 1..Len(b) : n + i \in 1..m /\ b[i] = windows[n + i]
  BY <1>1, <1>2
<1>8. QED BY <1>2, <1>4, <1>5, <1>6, <1>7 DEF a, b, m

-----------------------------------------------------------------------------
(* What becomes of a store by itself: rows go, never come, and when one    *)
(* goes it is counted.                                                     *)
Ages(s, p) ==
    /\ AllRows(p) \subseteq AllRows(s)
    /\ ToSet(p.current) \subseteq ToSet(s.current)
    /\ p.dropped >= s.dropped
    /\ AllRows(p) # AllRows(s) => p.dropped > s.dropped

LEMMA AgesTransitive ==
    ASSUME NEW s \in Store, NEW p \in Store, NEW q \in Store, Ages(s, p), Ages(p, q)
    PROVE  Ages(s, q)
<1>1. s.dropped \in Nat /\ p.dropped \in Nat /\ q.dropped \in Nat
  BY DEF Store
<1>2. QED BY <1>1 DEF Ages

(* Whatever PruneWindows decides, some windows go, from the oldest.        *)
Pruned(s, n) ==
    [s EXCEPT !.closed = SubSeq(@, n + 1, Len(@)),
              !.retained = @ - Size(SubSeq(s.closed, 1, n)),
              !.dropped = @ + Size(SubSeq(s.closed, 1, n))]

LEMMA PruneIs ==
    ASSUME NEW s \in Store, NEW t
    PROVE  \E n \in 0..Len(s.closed) : PruneWindows(s, t) = Pruned(s, n)
<1> DEFINE m == Len(s.closed)
           Old(n) == \A i \in 1..n : t - s.closed[i].start > Retention
           Fits(n) == s.retained - Size(SubSeq(s.closed, 1, n)) <= MaxRetained
           aged == CHOOSE n \in 0..m : Old(n) /\ \A k \in n+1..m : ~Old(k)
           gone == CHOOSE n \in aged..m :
                       /\ Fits(n) \/ n = m
                       /\ \A k \in aged..n-1 : ~Fits(k)
<1>1. PruneWindows(s, t) = Pruned(s, gone)
  BY Zenon DEF PruneWindows, Pruned
<1>2. m \in Nat
  BY DEF Store
<1>3. aged \in 0..m
  <2>1. \E n \in 0..m : Old(n) /\ \A k \in n+1..m : ~Old(k)
    <3> DEFINE T == {d \in Nat : d <= m /\ Old(m - d)}
    <3>1. m \in T
      BY <1>2
    <3>2. Min(T) \in T /\ \A d \in T : Min(T) <= d
      <4>1. T \in SUBSET Nat /\ T # {}
        BY <3>1
      <4> HIDE DEF T
      <4>2. QED BY <4>1, MinIsLeast
    <3> DEFINE d == Min(T)
    <3> HIDE DEF Old
    <3>3. d \in Nat /\ d <= m /\ Old(m - d) /\ \A e \in Nat : e <= m /\ Old(m - e) => d <= e
      BY <3>2
    <3> HIDE DEF d, T
    <3>4. m - d \in 0..m
      BY <1>2, <3>3
    <3>5. ASSUME NEW k \in (m - d)+1..m PROVE ~Old(k)
      <4>1. m - k \in Nat /\ m - k <= m /\ m - (m - k) = k /\ ~(d <= m - k)
        BY <1>2, <3>3
      <4>2. QED BY <3>3, <4>1
    <3>6. QED BY <3>3, <3>4, <3>5
  <2> HIDE DEF Old, m
  <2>2. QED BY Zenon, <2>1
<1> HIDE DEF aged
<1>4. gone \in aged..m
  <2>1. \E n \in aged..m : (Fits(n) \/ n = m) /\ \A k \in aged..n-1 : ~Fits(k)
    <3> DEFINE T == {n \in Nat : n \in aged..m /\ (Fits(n) \/ n = m)}
    <3>1. m \in T
      BY <1>2, <1>3
    <3>2. Min(T) \in T /\ \A d \in T : Min(T) <= d
      <4>1. T \in SUBSET Nat /\ T # {}
        BY <3>1
      <4> HIDE DEF T
      <4>2. QED BY <4>1, MinIsLeast
    <3> DEFINE n == Min(T)
    <3> HIDE DEF Fits
    <3>3. /\ n \in aged..m /\ (Fits(n) \/ n = m)
          /\ \A e \in Nat : e \in aged..m /\ Fits(e) => n <= e
      BY <3>2
    <3> HIDE DEF n, T
    <3>4. ASSUME NEW k \in aged..n-1 PROVE ~Fits(k)
      <4>1. k \in Nat /\ k \in aged..m /\ ~(n <= k)
        BY <1>2, <1>3, <3>3
      <4>2. QED BY <3>3, <4>1
    <3>5. QED BY <3>3, <3>4
  <2> HIDE DEF Fits, m
  <2>2. QED BY Zenon, <2>1
<1> HIDE DEF gone
<1>5. gone \in 0..m
  BY <1>2, <1>3, <1>4
<1>6. QED BY <1>1, <1>5

(* A store with other fields. *)
StoreWith(s, start, current, windows, retained, dropped) ==
    [s EXCEPT !.start = start, !.current = current, !.closed = windows,
              !.retained = retained, !.dropped = dropped]

LEMMA StoreWithIs ==
    ASSUME NEW s \in Store, NEW start \in -1..MaxTime, NEW current \in Seq(Row),
           NEW windows \in Seq(Window), NEW retained \in Int, NEW dropped \in Nat
    PROVE  /\ StoreWith(s, start, current, windows, retained, dropped) \in Store
           /\ StoreWith(s, start, current, windows, retained, dropped).start = start
           /\ StoreWith(s, start, current, windows, retained, dropped).current = current
           /\ StoreWith(s, start, current, windows, retained, dropped).closed = windows
           /\ StoreWith(s, start, current, windows, retained, dropped).retained = retained
           /\ StoreWith(s, start, current, windows, retained, dropped).dropped = dropped
BY DEF StoreWith, Store

LEMMA PruneKeeps ==
    ASSUME NEW s, NEW R, NEW at, StoreOK(s, R, at), NEW t
    PROVE  /\ StoreOK(PruneWindows(s, t), R, at)
           /\ Ages(s, PruneWindows(s, t))
           /\ PruneWindows(s, t).start = s.start
           /\ PruneWindows(s, t).current = s.current
<1>1. s \in Store /\ s.closed \in Seq(Window) /\ s.dropped \in Nat /\ s.retained \in Int
  BY DEF StoreOK, Store
<1>2. PICK n \in 0..Len(s.closed) : PruneWindows(s, t) = Pruned(s, n)
  BY <1>1, PruneIs
<1> DEFINE p == Pruned(s, n)
           a == SubSeq(s.closed, 1, n)
           b == SubSeq(s.closed, n + 1, Len(s.closed))
<1>3. /\ a \in Seq(Window) /\ b \in Seq(Window)
      /\ \A i \in 1..Len(b) : n + i \in 1..Len(s.closed) /\ b[i] = s.closed[n + i]
      /\ RowsOf(s.closed) = RowsOf(a) \cup RowsOf(b)
  BY <1>1, SubWindows
<1>4. Size(a) \in Nat /\ (Size(a) = 0 <=> RowsOf(a) = {})
  BY <1>3, RowsAreFinite
<1>5. p = [s EXCEPT !.closed = b, !.retained = @ - Size(a), !.dropped = @ + Size(a)]
  BY DEF Pruned
<1> HIDE DEF a, b, p
<1>6. /\ p.start = s.start /\ p.current = s.current /\ p.closed = b
      /\ p.dropped = s.dropped + Size(a) /\ p \in Store
  <2>1. s.retained - Size(a) \in Int /\ s.dropped + Size(a) \in Nat
    BY <1>1, <1>4
  <2>2. p = StoreWith(s, s.start, s.current, b, s.retained - Size(a), s.dropped + Size(a))
    BY <1>5 DEF StoreWith
  <2>3. s.start \in -1..MaxTime /\ s.current \in Seq(Row)
    BY <1>1 DEF Store
  <2>4. QED BY <1>1, <1>3, <2>1, <2>2, <2>3, StoreWithIs
<1>7. AllRows(p) \subseteq AllRows(s) /\ RowsOf(p.closed) \subseteq RowsOf(s.closed)
  BY <1>3, <1>6 DEF AllRows
<1>8. Ages(s, p)
  <2>1. AllRows(p) # AllRows(s) => Size(a) # 0
    BY <1>3, <1>4, <1>6 DEF AllRows
  <2>2. QED BY <1>1, <1>4, <1>6, <1>7, <2>1 DEF Ages
<1>9. Punctual(p, at)
  BY <1>3, <1>6 DEF StoreOK, Punctual
<1>10. /\ Within(AllRows(p)) \subseteq R
       /\ Within(RowsOf(p.closed)) \cap Within(ToSet(p.current)) = {}
       /\ Apart(RowsOf(p.closed))
  BY <1>6, <1>7 DEF StoreOK, Within, Apart
<1>11. StoreOK(p, R, at)
  BY <1>6, <1>9, <1>10 DEF StoreOK
<1>12. QED BY <1>2, <1>6, <1>8, <1>11 DEF p

LEMMA AppendWindow ==
    ASSUME NEW windows \in Seq(Window), NEW w \in Window
    PROVE  /\ Append(windows, w) \in Seq(Window)
           /\ Len(Append(windows, w)) = Len(windows) + 1
           /\ \A i \in 1..Len(windows) : Append(windows, w)[i] = windows[i]
           /\ Append(windows, w)[Len(windows) + 1] = w
           /\ RowsOf(Append(windows, w)) = RowsOf(windows) \cup ToSet(w.rows)
<1> DEFINE a == Append(windows, w)
           m == Len(windows)
<1>1. /\ a \in Seq(Window) /\ Len(a) = m + 1 /\ m \in Nat
      /\ \A i \in 1..m : a[i] = windows[i]
      /\ a[m + 1] = w /\ DOMAIN a = 1..(m + 1) /\ DOMAIN windows = 1..m
  OBVIOUS
<1> HIDE DEF a, m
<1>2. \A i : i \in 1..(m + 1) <=> i \in 1..m \/ i = m + 1
  BY <1>1
<1>3. RowsOf(a) = RowsOf(windows) \cup ToSet(w.rows)
  BY <1>1, <1>2 DEF RowsOf
<1>4. QED BY <1>1, <1>3 DEF a, m

LEMMA CloseKeeps ==
    ASSUME NEW s, NEW R, NEW at, StoreOK(s, R, at), NEW t \in 0..MaxTime
    PROVE  /\ StoreOK(CloseWindow(s, t), R, at)
           /\ Ages(s, CloseWindow(s, t))
           /\ CloseWindow(s, t).current = <<>>
           /\ CloseWindow(s, t) = s \/ CloseWindow(s, t).start = t
<1>1. /\ s \in Store /\ s.closed \in Seq(Window) /\ s.dropped \in Nat /\ s.retained \in Int
      /\ s.current \in Seq(Row) /\ s.start \in -1..MaxTime
  BY DEF StoreOK, Store
<1>2. CASE s.current = <<>>
  <2>1. CloseWindow(s, t) = s
    BY <1>2 DEF CloseWindow
  <2>2. Ages(s, s)
    BY <1>1 DEF Ages
  <2>3. QED BY <1>2, <2>1, <2>2
<1>3. CASE s.current # <<>>
  <2> DEFINE w == [start |-> s.start, rows |-> s.current]
             c == [s EXCEPT !.closed = Append(@, w),
                            !.retained = @ + Len(s.current),
                            !.current = <<>>,
                            !.start = t]
  <2>1. CloseWindow(s, t) = PruneWindows(c, t)
    BY <1>3 DEF CloseWindow
  <2>2. w \in Window /\ w.rows = s.current /\ w.start = s.start
    BY <1>1 DEF Window
  <2> HIDE DEF w
  <2> DEFINE a == Append(s.closed, w)
             m == Len(s.closed)
  <2>3. /\ a \in Seq(Window) /\ Len(a) = m + 1 /\ m \in Nat
        /\ \A i \in 1..m : a[i] = s.closed[i]
        /\ a[m + 1] = w
        /\ RowsOf(a) = RowsOf(s.closed) \cup ToSet(s.current)
    BY <1>1, <2>2, AppendWindow
  <2> HIDE DEF a, m
  <2>4. Len(s.current) \in Nat /\ <<>> \in Seq(Row) /\ t \in -1..MaxTime
    BY <1>1
  <2>5. /\ c.closed = a /\ c.current = <<>> /\ c.start = t /\ c.dropped = s.dropped
        /\ c \in Store
    <3> DEFINE retained == s.retained + Len(s.current)
               none == <<>>
    <3>1. c = StoreWith(s, t, none, a, retained, s.dropped)
      BY <1>1 DEF StoreWith, Store, a
    <3>2. retained \in Int /\ none \in Seq(Row)
      BY <1>1, <2>4
    <3> HIDE DEF c, retained, none
    <3>3. /\ c \in Store /\ c.start = t /\ c.current = none /\ c.closed = a
          /\ c.dropped = s.dropped
      BY <1>1, <2>3, <2>4, <3>1, <3>2, StoreWithIs
    <3>4. QED BY <3>3 DEF none
  <2> HIDE DEF c
  <2>6. ToSet(c.current) = {} /\ Within(ToSet(c.current)) = {}
    BY <2>5 DEF ToSet, Within
  <2>7. AllRows(c) = AllRows(s)
    BY <2>3, <2>5, <2>6 DEF AllRows
  <2>8. Ages(s, c)
    BY <1>1, <2>5, <2>6, <2>7 DEF Ages
  <2>9. Sound(c.current, Within(ToSet(c.current)))
    <3>1. Sound(<<>>, {})
      BY WindowKeysAssumption DEF Sound
    <3>2. QED BY <2>5, <2>6, <3>1
  <2>10. Apart(RowsOf(c.closed))
    <3>1. ASSUME NEW one \in RowsOf(a), NEW other \in RowsOf(a), one # other
          PROVE  one.requests \cap other.requests = {}
      <4>1. CASE one \in RowsOf(s.closed) /\ other \in RowsOf(s.closed)
        BY <3>1, <4>1 DEF StoreOK, Apart
      <4>2. CASE one \in ToSet(s.current) /\ other \in ToSet(s.current)
        <5>1. PICK i \in 1..Len(s.current), j \in 1..Len(s.current) :
                one = s.current[i] /\ other = s.current[j]
          BY <1>1, <4>2, ItemsOf
        <5>2. QED BY <3>1, <5>1 DEF StoreOK, Sound
      <4>3. CASE one \in RowsOf(s.closed) /\ other \in ToSet(s.current)
        BY <4>3 DEF StoreOK, Within
      <4>4. CASE one \in ToSet(s.current) /\ other \in RowsOf(s.closed)
        BY <4>4 DEF StoreOK, Within
      <4>5. QED BY <2>3, <3>1, <4>1, <4>2, <4>3, <4>4
    <3>2. QED BY <2>5, <3>1 DEF Apart
  <2>11. Punctual(c, at)
    <3>1. ASSUME NEW i \in 1..Len(a), NEW r \in Within(ToSet(a[i].rows))
          PROVE  at[r] <= a[i].start
      <4>1. CASE i \in 1..m
        BY <2>3, <3>1, <4>1 DEF StoreOK, Punctual, m
      <4>2. CASE i = m + 1
        BY <2>2, <2>3, <3>1, <4>2 DEF StoreOK, Punctual
      <4>3. QED BY <2>3, <4>1, <4>2
    <3>2. QED BY <2>5, <2>6, <3>1 DEF Punctual
  <2>12. StoreOK(c, R, at)
    <3>1. Within(AllRows(c)) \subseteq R
      BY <2>7 DEF StoreOK
    <3>2. QED BY <2>5, <2>6, <2>9, <2>10, <2>11, <3>1 DEF StoreOK
  <2> DEFINE p == PruneWindows(c, t)
  <2>13. /\ StoreOK(p, R, at) /\ Ages(c, p)
         /\ p.start = t /\ p.current = <<>>
    BY <2>5, <2>12, PruneKeeps
  <2> HIDE DEF p
  <2>14. Ages(s, p)
    BY <1>1, <2>5, <2>8, <2>13, AgesTransitive DEF StoreOK
  <2>15. QED BY <2>1, <2>13, <2>14 DEF p
<1>4. QED BY <1>2, <1>3

LEMMA RollKeeps ==
    ASSUME NEW s, NEW R, NEW at, StoreOK(s, R, at), NEW t \in 0..MaxTime
    PROVE  /\ StoreOK(RollWindow(s, t), R, at)
           /\ Ages(s, RollWindow(s, t))
           /\ t <= RollWindow(s, t).start
<1>1. s \in Store /\ s.dropped \in Nat /\ s.start \in -1..MaxTime
  BY DEF StoreOK, Store
<1>2. CASE t > s.start
  <2> DEFINE c == CloseWindow(s, t)
             p == [c EXCEPT !.start = t]
  <2>1. RollWindow(s, t) = p
    BY <1>2 DEF RollWindow
  <2>2. StoreOK(c, R, at) /\ Ages(s, c) /\ c.current = <<>>
    BY CloseKeeps
  <2> HIDE DEF c
  <2>3. c \in Store /\ c.dropped \in Nat
    BY <2>2 DEF StoreOK, Store
  <2>4. /\ p \in Store /\ p.start = t /\ p.current = c.current /\ p.closed = c.closed
        /\ p.dropped = c.dropped
    BY <2>3 DEF Store
  <2> HIDE DEF p
  <2>5. Within(ToSet(p.current)) = {}
    BY <2>2, <2>4 DEF ToSet, Within
  <2>6. Ages(s, p)
    BY <2>2, <2>4 DEF Ages, AllRows
  <2>7. Punctual(p, at)
    BY <2>2, <2>4, <2>5 DEF StoreOK, Punctual
  <2>8. StoreOK(p, R, at)
    BY <2>2, <2>4, <2>7 DEF StoreOK, AllRows
  <2>9. QED BY <2>1, <2>4, <2>6, <2>8
<1>3. CASE ~(t > s.start)
  <2>1. RollWindow(s, t) = s
    BY <1>3 DEF RollWindow
  <2>2. Ages(s, s)
    BY <1>1 DEF Ages
  <2>3. t <= s.start
    BY <1>1, <1>3
  <2>4. QED BY <2>1, <2>2, <2>3
<1>4. QED BY <1>2, <1>3

LEMMA StoreMoves ==
    ASSUME NEW s, NEW R, NEW at, StoreOK(s, R, at), NEW R2, NEW at2,
           R \subseteq R2, \A r \in R : at2[r] = at[r]
    PROVE  StoreOK(s, R2, at2)
<1>1. \A r \in Within(AllRows(s)) : at2[r] = at[r]
  BY DEF StoreOK
<1>2. s.closed \in Seq(Window) /\ DOMAIN s.closed = 1..Len(s.closed)
  BY DEF StoreOK, Store
<1>3. ASSUME NEW i \in 1..Len(s.closed), NEW r \in Within(ToSet(s.closed[i].rows))
      PROVE  at2[r] = at[r]
  BY <1>1, <1>2 DEF Within, AllRows, RowsOf
<1>4. ASSUME NEW r \in Within(ToSet(s.current)) PROVE at2[r] = at[r]
  BY <1>1 DEF Within, AllRows
<1>5. Punctual(s, at2)
  BY <1>3, <1>4 DEF StoreOK, Punctual
<1>6. QED BY <1>5 DEF StoreOK

LEMMA SameWindows ==
    ASSUME NEW s, NEW R, NEW at, StoreOK(s, R, at), NEW p \in Store,
           p.start = s.start, p.current = s.current, p.closed = s.closed
    PROVE  StoreOK(p, R, at)
BY DEF StoreOK, Punctual, AllRows

LEMMA SoundWithin ==
    ASSUME NEW s, NEW K, Sound(s, K)
    PROVE  Within(ToSet(s)) = K
<1>1. s \in Seq(Row)
  BY DEF Sound
<1>2. \A x : x \in ToSet(s) <=> \E i \in 1..Len(s) : s[i] = x
  BY <1>1, ItemsOf
<1>3. QED BY <1>2 DEF Within, Sound

(* A request that was not recorded is counted in the current window. *)
WithCount(s, k, r) == [s EXCEPT !.current = Count(@, k, {r})]

LEMMA StoreCounts ==
    ASSUME NEW s, NEW R, NEW at, StoreOK(s, R, at), NEW r \in Requests \ R,
           NEW k \in Keys, at[r] <= s.start
    PROVE  /\ StoreOK(WithCount(s, k, r), R \cup {r}, at)
           /\ WithCount(s, k, r).start = s.start
           /\ WithCount(s, k, r).closed = s.closed
           /\ WithCount(s, k, r).dropped = s.dropped
           /\ Within(ToSet(WithCount(s, k, r).current)) = Within(ToSet(s.current)) \cup {r}
<1> DEFINE K == Within(ToSet(s.current))
           new == Count(s.current, k, {r})
           c == WithCount(s, k, r)
<1>1. s \in Store /\ Sound(s.current, K) /\ K \subseteq R
  BY DEF StoreOK, Within, AllRows
<1>2. k \in AllKeys
  BY DEF Keys, AllKeys
<1>3. Sound(new, K \cup {r})
  <2>1. r \in Requests \ K
    BY <1>1
  <2> HIDE DEF K
  <2>2. QED BY <1>1, <1>2, <2>1, CountKeeps
<1> HIDE DEF new
<1>4. new \in Seq(Row) /\ Within(ToSet(new)) = K \cup {r}
  BY <1>3, SoundWithin DEF Sound
<1>5. /\ c \in Store /\ c.start = s.start /\ c.closed = s.closed /\ c.dropped = s.dropped
      /\ c.current = new
  BY <1>1, <1>4 DEF Store, new, WithCount
<1> HIDE DEF c
<1>6. Within(AllRows(c)) \subseteq R \cup {r}
  <2>1. Within(AllRows(c)) = Within(RowsOf(s.closed)) \cup Within(ToSet(new))
    BY <1>5 DEF Within, AllRows
  <2>2. Within(RowsOf(s.closed)) \subseteq R
    BY DEF StoreOK, Within, AllRows
  <2>3. QED BY <1>1, <1>4, <2>1, <2>2
<1>7. Within(RowsOf(c.closed)) \cap Within(ToSet(c.current)) = {}
  <2>1. Within(RowsOf(s.closed)) \subseteq R
    BY DEF StoreOK, Within, AllRows
  <2>2. Within(RowsOf(s.closed)) \cap K = {}
    BY DEF StoreOK
  <2>3. QED BY <1>4, <1>5, <2>1, <2>2
<1>8. Punctual(c, at)
  <2>1. \A q \in K : at[q] <= s.start
    BY DEF StoreOK, Punctual
  <2>2. \A i \in 1..Len(s.closed) :
          \A q \in Within(ToSet(s.closed[i].rows)) : at[q] <= s.closed[i].start
    BY DEF StoreOK, Punctual
  <2>3. QED BY <1>4, <1>5, <2>1, <2>2 DEF Punctual
<1>9. StoreOK(c, R \cup {r}, at)
  <2>1. Sound(c.current, Within(ToSet(c.current)))
    BY <1>3, <1>4, <1>5
  <2>2. Apart(RowsOf(c.closed))
    BY <1>5 DEF StoreOK
  <2>3. QED BY <1>5, <1>6, <1>7, <1>8, <2>1, <2>2 DEF StoreOK
<1>10. QED BY <1>4, <1>5, <1>9 DEF c

-----------------------------------------------------------------------------
(* Rows that were confirmed are taken out of the windows they are in. *)
LEMMA WithoutRowsIs ==
    ASSUME NEW windows \in Seq(Window), NEW rows
    PROVE  /\ WithoutRows(windows, rows) \in Seq(Window)
           /\ RowsOf(WithoutRows(windows, rows)) = RowsOf(windows) \ rows
           /\ \A i \in 1..Len(WithoutRows(windows, rows)) : \E j \in 1..Len(windows) :
                 /\ WithoutRows(windows, rows)[i].start = windows[j].start
                 /\ ToSet(WithoutRows(windows, rows)[i].rows) \subseteq ToSet(windows[j].rows)
<1> DEFINE m == Len(windows)
           left == [i \in DOMAIN windows |-> [windows[i] EXCEPT !.rows = Without(@, rows)]]
           gone == {left[i] : i \in {j \in DOMAIN windows : left[j].rows = <<>>}}
           u == WithoutRows(windows, rows)
<1>1. m \in Nat /\ DOMAIN windows = 1..m
  OBVIOUS
<1>2. \A i \in 1..m : windows[i] \in Window
  BY ElementOfSeq
<1>3. ASSUME NEW i \in 1..m
      PROVE  /\ left[i] \in Window /\ left[i].start = windows[i].start
             /\ ToSet(left[i].rows) = ToSet(windows[i].rows) \ rows
  <2>1. windows[i] \in Window /\ windows[i].rows \in Seq(Row)
    BY <1>2 DEF Window
  <2> DEFINE w == Without(windows[i].rows, rows)
  <2>2. w \in Seq(Row) /\ ToSet(w) = ToSet(windows[i].rows) \ rows
    BY <2>1, WithoutIs
  <2>3. left[i] = [windows[i] EXCEPT !.rows = w]
    BY <1>1
  <2> HIDE DEF w, left
  <2>4. QED BY <2>1, <2>2, <2>3 DEF Window
<1>4. left \in Seq(Window) /\ Len(left) = m /\ DOMAIN left = 1..m
  <2>1. left = [i \in 1..m |-> left[i]]
    BY <1>1
  <2> HIDE DEF left, m
  <2>2. left \in [1..m -> Window]
    BY <1>3, <2>1
  <2>3. QED BY <1>1, <2>2
<1>5. u = Without(left, gone)
  BY DEF WithoutRows
<1>6. \A x : x \in gone <=> \E i \in 1..m : left[i].rows = <<>> /\ x = left[i]
  BY <1>1
<1> HIDE DEF left, gone, u
<1>7. u \in Seq(Window) /\ ToSet(u) = ToSet(left) \ gone
  BY <1>4, <1>5, WithoutIs
<1> HIDE DEF m
<1>8. ASSUME NEW i \in 1..Len(u)
      PROVE  \E j \in 1..m : u[i] = left[j]
  <2>1. u[i] \in ToSet(left)
    BY <1>7, ItemsOf
  <2>2. QED BY <1>4, <2>1 DEF ToSet
<1>9. ASSUME NEW j \in 1..m, left[j].rows # <<>>
      PROVE  \E i \in 1..Len(u) : u[i] = left[j]
  <2>1. left[j] \in ToSet(left) /\ left[j] \notin gone
    BY <1>4, <1>6, <1>9 DEF ToSet
  <2>2. QED BY <1>7, <2>1, ItemsOf
<1>10. DOMAIN u = 1..Len(u)
  BY <1>7
<1>11. ASSUME NEW row \in RowsOf(u) PROVE row \in RowsOf(windows) \ rows
  <2>1. PICK i \in 1..Len(u) : row \in ToSet(u[i].rows)
    BY <1>10 DEF RowsOf
  <2>2. PICK j \in 1..m : u[i] = left[j]
    BY <1>8
  <2>3. row \in ToSet(windows[j].rows) \ rows
    BY <1>3, <2>1, <2>2
  <2>4. QED BY <1>1, <2>3 DEF RowsOf
<1>12. ASSUME NEW row \in RowsOf(windows) \ rows PROVE row \in RowsOf(u)
  <2>1. PICK j \in 1..m : row \in ToSet(windows[j].rows)
    BY <1>1 DEF RowsOf
  <2>2. row \in ToSet(left[j].rows)
    BY <1>3, <2>1
  <2>3. left[j].rows # <<>>
    BY <2>2 DEF ToSet
  <2>4. PICK i \in 1..Len(u) : u[i] = left[j]
    BY <1>9, <2>3
  <2>5. QED BY <1>10, <2>2, <2>4 DEF RowsOf
<1>13. ASSUME NEW i \in 1..Len(u)
       PROVE  \E j \in 1..m : /\ u[i].start = windows[j].start
                              /\ ToSet(u[i].rows) \subseteq ToSet(windows[j].rows)
  <2>1. PICK j \in 1..m : u[i] = left[j]
    BY <1>8
  <2>2. QED BY <1>3, <2>1
<1>14. RowsOf(u) = RowsOf(windows) \ rows
  BY <1>11, <1>12
<1>15. QED BY <1>7, <1>13, <1>14 DEF u, m

LEMMA StoreSheds ==
    ASSUME NEW s, NEW R, NEW at, StoreOK(s, R, at), NEW rows, NEW p \in Store,
           p.start = s.start, p.current = s.current,
           p.closed = WithoutRows(s.closed, rows)
    PROVE  /\ StoreOK(p, R, at)
           /\ RowsOf(p.closed) = RowsOf(s.closed) \ rows
<1> DEFINE u == WithoutRows(s.closed, rows)
<1>1. s.closed \in Seq(Window)
  BY DEF StoreOK, Store
<1>2. /\ RowsOf(u) = RowsOf(s.closed) \ rows
      /\ \A i \in 1..Len(u) : \E j \in 1..Len(s.closed) :
            /\ u[i].start = s.closed[j].start
            /\ ToSet(u[i].rows) \subseteq ToSet(s.closed[j].rows)
  BY <1>1, WithoutRowsIs
<1> HIDE DEF u
<1>3. p.closed = u
  BY DEF u
<1>4. ASSUME NEW i \in 1..Len(u), NEW r \in Within(ToSet(u[i].rows))
      PROVE  at[r] <= u[i].start
  <2>1. PICK j \in 1..Len(s.closed) : /\ u[i].start = s.closed[j].start
                                      /\ ToSet(u[i].rows) \subseteq ToSet(s.closed[j].rows)
    BY <1>2
  <2>2. r \in Within(ToSet(s.closed[j].rows))
    BY <1>4, <2>1 DEF Within
  <2>3. QED BY <2>1, <2>2 DEF StoreOK, Punctual
<1>5. Punctual(p, at)
  BY <1>3, <1>4 DEF StoreOK, Punctual
<1>6. /\ Within(AllRows(p)) \subseteq R
      /\ Within(RowsOf(p.closed)) \cap Within(ToSet(p.current)) = {}
      /\ Apart(RowsOf(p.closed))
  BY <1>2, <1>3 DEF StoreOK, Within, Apart, AllRows
<1>7. Sound(p.current, Within(ToSet(p.current)))
  BY DEF StoreOK
<1>8. QED BY <1>2, <1>3, <1>5, <1>6, <1>7 DEF StoreOK

(* An event that does not fit costs one other: a success, or there is none. *)
LEMMA AppendEventIs ==
    ASSUME events \in Seq(Event), Len(events) <= MaxEvents, NEW e \in Event
    PROVE  /\ AppendEvent(e) \in Seq(Event) /\ Len(AppendEvent(e)) <= MaxEvents
           /\ ToSet(AppendEvent(e)) \subseteq ToSet(events) \cup {e}
           /\ e \in ToSet(AppendEvent(e))
           /\ ~Overflow => ToSet(AppendEvent(e)) = ToSet(events) \cup {e}
           /\ Overflow => \E k \in 1..Len(events) :
                 /\ ToSet(events) \subseteq ToSet(AppendEvent(e)) \cup {events[k]}
                 /\ events[k].kind = "ok" \/ \A i \in 1..Len(events) : events[i].kind # "ok"
<1> DEFINE n == Len(events)
           all == AppendEvent(e)
<1>1. /\ n \in Nat /\ MaxEvents \in Nat /\ MaxEvents # 0 /\ n <= MaxEvents
      /\ DOMAIN events = 1..n
  BY ReporterAssumption
<1> DEFINE kept == IF Overflow THEN DropBuffered ELSE events
<1>2. all = IF Len(Append(kept, e)) > MaxEvents THEN Tail(Append(kept, e)) ELSE Append(kept, e)
  BY DEF AppendEvent
<1>3. /\ kept \in Seq(Event) /\ Len(kept) < MaxEvents
      /\ ToSet(kept) \subseteq ToSet(events)
      /\ ~Overflow => kept = events
      /\ Overflow => \E k \in 1..n :
            /\ ToSet(events) \subseteq ToSet(kept) \cup {events[k]}
            /\ events[k].kind = "ok" \/ \A i \in 1..n : events[i].kind # "ok"
  <2>1. CASE ~Overflow
    BY <1>1, <2>1 DEF Overflow
  <2>2. CASE Overflow
    <3> DEFINE I == {i \in 1..Len(events) : events[i].kind = "ok"}
               success == IF I # {} THEN Min(I) ELSE 0
               k == IF success > 0 THEN success ELSE 1
               a == SubSeq(events, 1, k - 1)
               b == SubSeq(events, k + 1, Len(events))
    <3>1. kept = a \o b
      <4>1. DropBuffered = RemoveAt(events, k)
        BY Zenon DEF DropBuffered, SelectInSeq
      <4>2. QED BY <2>2, <4>1 DEF RemoveAt
    <3>2. n = MaxEvents /\ n # 0
      <4>1. n >= MaxEvents
        BY <2>2 DEF Overflow
      <4> HIDE DEF n
      <4>2. QED BY <1>1, <4>1
    <3>3. /\ k \in 1..n
          /\ events[k].kind = "ok" \/ \A i \in 1..n : events[i].kind # "ok"
      <4>1. CASE I # {}
        <5>1. I \in SUBSET Nat
          OBVIOUS
        <5>2. Min(I) \in I
          BY <4>1, <5>1, MinIsLeast
        <5>3. Min(I) \in 1..n /\ events[Min(I)].kind = "ok"
          BY <5>2
        <5>4. k = Min(I)
          BY <1>1, <4>1, <5>3
        <5>5. QED BY <5>3, <5>4
      <4>2. CASE I = {}
        <5>1. k = 1 /\ \A i \in 1..n : events[i].kind # "ok"
          BY <4>2
        <5>2. QED BY <1>1, <3>2, <5>1
      <4>3. QED BY <4>1, <4>2
    <3> HIDE DEF k, kept
    <3>4. /\ a \in Seq(Event) /\ Len(a) = k - 1 /\ DOMAIN a = 1..(k - 1)
          /\ \A i \in 1..(k - 1) : a[i] = events[i]
          /\ b \in Seq(Event) /\ Len(b) = n - k /\ DOMAIN b = 1..(n - k)
          /\ \A i \in 1..(n - k) : b[i] = events[k + i]
      <4>1. k \in 1..Len(events) /\ events \in Seq(Event)
        BY <3>3
      <4>2. /\ a \in Seq(Event) /\ Len(a) = k - 1 /\ DOMAIN a = 1..(k - 1)
            /\ \A i \in 1..(k - 1) : a[i] = events[i]
        BY <4>1
      <4>3. /\ b \in Seq(Event) /\ Len(b) = Len(events) - k
            /\ DOMAIN b = 1..(Len(events) - k)
            /\ \A i \in 1..(Len(events) - k) : b[i] = events[k + i]
        BY <4>1
      <4>4. QED BY <4>2, <4>3
    <3> HIDE DEF a, b, n
    <3>5. /\ kept \in Seq(Event) /\ Len(kept) = n - 1
          /\ ToSet(kept) = ToSet(a) \cup ToSet(b)
      <4>1. Len(a \o b) = Len(a) + Len(b) /\ a \o b \in Seq(Event)
        BY <3>4, ConcatProperties
      <4>2. ToSet(a \o b) = ToSet(a) \cup ToSet(b)
        BY <3>4, ConcatItems
      <4>3. Len(a) + Len(b) = n - 1
        BY <1>1, <3>3, <3>4
      <4>4. QED BY <3>1, <4>1, <4>2, <4>3
    <3>6. ToSet(a) \subseteq ToSet(events) /\ ToSet(b) \subseteq ToSet(events)
      <4>1. \A i \in 1..(k - 1) : i \in 1..n
        BY <1>1, <3>3
      <4>2. \A i \in 1..(n - k) : k + i \in 1..n
        BY <1>1, <3>3
      <4>3. QED BY <1>1, <3>4, <4>1, <4>2 DEF ToSet
    <3>7. ASSUME NEW i \in 1..n PROVE events[i] \in ToSet(kept) \cup {events[k]}
      <4>1. CASE i < k
        <5>1. i \in 1..(k - 1)
          BY <1>1, <3>3, <4>1
        <5>2. QED BY <3>4, <3>5, <5>1 DEF ToSet
      <4>2. CASE i = k
        BY <4>2
      <4>3. CASE i > k
        <5>1. i - k \in 1..(n - k) /\ k + (i - k) = i
          BY <1>1, <3>3, <4>3
        <5>2. b[i - k] = events[i]
          BY <3>4, <5>1
        <5>3. QED BY <3>4, <3>5, <5>1, <5>2 DEF ToSet
      <4>4. QED BY <1>1, <3>3, <4>1, <4>2, <4>3
    <3>8. ToSet(events) \subseteq ToSet(kept) \cup {events[k]}
      BY <1>1, <3>7 DEF ToSet
    <3>9. Len(kept) < MaxEvents
      BY <1>1, <3>2, <3>5
    <3>10. QED BY <2>2, <3>3, <3>5, <3>6, <3>8, <3>9
  <2>3. QED BY <2>1, <2>2
<1> HIDE DEF kept, all
<1>4. /\ Append(kept, e) \in Seq(Event) /\ Len(Append(kept, e)) = Len(kept) + 1
      /\ ToSet(Append(kept, e)) = ToSet(kept) \cup {e}
  <2> DEFINE u == Append(kept, e)
             m == Len(kept)
  <2>1. /\ u \in Seq(Event) /\ Len(u) = m + 1 /\ m \in Nat
        /\ \A i \in 1..m : u[i] = kept[i]
        /\ u[m + 1] = e /\ DOMAIN u = 1..(m + 1) /\ DOMAIN kept = 1..m
    BY <1>3
  <2>2. \A i : i \in 1..(m + 1) <=> i \in 1..m \/ i = m + 1
    BY <2>1
  <2> HIDE DEF u, m
  <2>3. ToSet(u) = ToSet(kept) \cup {e}
    BY <2>1, <2>2 DEF ToSet
  <2>4. QED BY <2>1, <2>3 DEF u, m
<1>5. Len(kept) + 1 <= MaxEvents
  <2>1. Len(kept) \in Nat
    BY <1>3
  <2>2. QED BY <1>1, <1>3, <2>1
<1>6. all = Append(kept, e)
  <2>1. Len(kept) \in Nat
    BY <1>3
  <2>2. QED BY <1>1, <1>2, <1>4, <1>5, <2>1
<1>7. QED BY <1>3, <1>4, <1>5, <1>6 DEF all, n

(* A store that holds nothing, and the parts of a new reporter. *)
LEMMA EmptyStore ==
    ASSUME NEW s \in Store, s.current = <<>>, s.closed = <<>>, NEW R, NEW at
    PROVE  StoreOK(s, R, at) /\ AllRows(s) = {}
<1>1. ToSet(s.current) = {} /\ RowsOf(s.closed) = {} /\ AllRows(s) = {} /\ Within({}) = {}
  BY DEF ToSet, RowsOf, AllRows, Within
<1>2. Sound(<<>>, {})
  BY WindowKeysAssumption DEF Sound
<1>3. Punctual(s, at)
  <2>1. 1..Len(s.closed) = {}
    OBVIOUS
  <2>2. QED BY <1>1, <2>1 DEF Punctual
<1>4. QED BY <1>1, <1>2, <1>3 DEF StoreOK, Apart

LEMMA NewReporter ==
    /\ NoItems \in Store /\ NoItems.current = <<>> /\ NoItems.closed = <<>>
    /\ NoItems.dropped = 0
    /\ NoTimes \in Times
    /\ NoThreads \in [Flushers -> [pc : Points, at : Nat, batch : Batch]]
    /\ \A f \in Flushers : NoThreads[f].pc = "none" /\ NoThreads[f].batch = NoBatch
<1>1. /\ NoItems \in Store /\ NoItems.current = <<>> /\ NoItems.closed = <<>>
      /\ NoItems.dropped = 0
  BY ReporterAssumption DEF Store, NoItems
<1>2. NoTimes \in Times
  BY ReporterAssumption DEF Times, NoTimes
<1>3. NoThreads \in [Flushers -> [pc : Points, at : Nat, batch : Batch]]
  BY DEF NoThreads, NoBatch, Points, Batch
<1>4. \A f \in Flushers : NoThreads[f].pc = "none" /\ NoThreads[f].batch = NoBatch
  BY DEF NoThreads
<1>5. QED BY <1>1, <1>2, <1>3, <1>4

LEMMA NothingOnItsWay ==
    ASSUME NEW R, NEW done, NEW s
    PROVE  OnItsWay(NoBatch, R, done, s)
<1>1. NoBatch.events = {} /\ NoBatch.rows = {}
  BY DEF NoBatch
<1>2. Within({}) = {} /\ IsFiniteSet({})
  BY FS_EmptySet DEF Within
<1>3. QED BY <1>1, <1>2 DEF OnItsWay

LEMMA InitReporter == Init => ReporterInv
<1> SUFFICES ASSUME Init PROVE ReporterInv
  OBVIOUS
<1>1. /\ now = 0 /\ events = <<>> /\ store = NoItems /\ timing = NoTimes
      /\ disabled = FALSE /\ closed = FALSE /\ flushLock = "free" /\ flusher = NoThreads
      /\ acked = [events |-> {}, counts |-> {}] /\ reported = 0
      /\ request = [r \in Requests |-> [pc |-> "running", at |-> 0]]
  BY DEF Init
<1>2. Recorded = {} /\ IsFiniteSet({})
  BY <1>1, FS_EmptySet DEF Recorded
<1>3. TypesInv
  <2>1. request \in [Requests -> Running \cup Finished]
    BY <1>1, ReporterAssumption DEF Running
  <2>2. events \in Seq(Event) /\ Len(events) <= MaxEvents
    BY <1>1, ReporterAssumption
  <2>3. now \in 0..MaxTime
    BY <1>1, ReporterAssumption
  <2>4. QED BY <1>1, <2>1, <2>2, <2>3, NewReporter DEF TypesInv
<1>4. LockInv
  BY <1>1, NewReporter DEF LockInv, Flushers
<1>5. StoreOK(store, Recorded, At) /\ AllRows(store) = {} /\ store.dropped = 0
  BY <1>1, NewReporter, EmptyStore
<1>6. StoreInv
  BY <1>2, <1>5 DEF StoreInv
<1>7. Buffered = {} /\ Counted = {}
  BY <1>1, <1>5 DEF Buffered, Counted, Rows, AllRows
<1>8. AckInv
  <2>1. \A f \in Flushers : OnItsWay(flusher[f].batch, Recorded, acked, store)
    BY <1>1, NewReporter, NothingOnItsWay
  <2>2. QED BY <1>1, <1>7, <2>1 DEF AckInv
<1>9. LossInv
  <2>1. LostEvents = {} /\ LostCounts = {}
    BY <1>2 DEF LostEvents, LostCounts
  <2>2. QED BY <1>1, <1>5, <2>1, FS_EmptySet DEF LossInv
<1>10. QED BY <1>3, <1>4, <1>6, <1>8, <1>9 DEF ReporterInv

-----------------------------------------------------------------------------
(* The fields of what the variables hold. *)
LEMMA Fields ==
    ASSUME TypesInv
    PROVE  /\ now \in 0..MaxTime /\ now \in Nat /\ MaxTime \in Nat /\ FlushMinutes \in Nat
           /\ timing.nextFlush \in Nat /\ timing.paused \in Nat
           /\ timing.backoffUntil \in Nat /\ timing.backoff \in Nat
           /\ BlockedUntil \in Nat /\ Deadline \in Nat
           /\ \A f \in Flushers :
                 /\ flusher[f] \in [pc : Points, at : Nat, batch : Batch]
                 /\ flusher[f].batch \in Batch /\ flusher[f].at \in Nat
           /\ \A r \in Requests : /\ request[r] \in Running \cup Finished
                                   /\ request[r].at \in 0..MaxTime
           /\ \A r \in Requests : request[r].pc \in {"recording", "recorded"} =>
                 request[r] \in Finished
<1>1. now \in 0..MaxTime /\ MaxTime \in Nat /\ FlushMinutes \in Nat
  BY ReporterAssumption DEF TypesInv
<1>2. /\ timing.nextFlush \in Nat /\ timing.paused \in Nat
      /\ timing.backoffUntil \in Nat /\ timing.backoff \in Nat
  BY DEF TypesInv, Times
<1>3. BlockedUntil \in Nat /\ Deadline \in Nat
  BY <1>2 DEF BlockedUntil, Deadline
<1>4. ASSUME NEW f \in Flushers
      PROVE  /\ flusher[f] \in [pc : Points, at : Nat, batch : Batch]
             /\ flusher[f].batch \in Batch /\ flusher[f].at \in Nat
  BY DEF TypesInv
<1>5. ASSUME NEW r \in Requests
      PROVE  /\ request[r] \in Running \cup Finished
             /\ request[r].at \in 0..MaxTime
             /\ request[r].pc \in {"recording", "recorded"} => request[r] \in Finished
  <2>1. request[r] \in Running \cup Finished
    BY DEF TypesInv
  <2>2. CASE request[r] \in Running
    BY <2>2 DEF Running
  <2>3. CASE request[r] \in Finished
    BY <2>3 DEF Finished
  <2>4. QED BY <2>1, <2>2, <2>3
<1>6. now \in Nat
  BY <1>1
<1>7. QED BY <1>1, <1>2, <1>3, <1>4, <1>5, <1>6

(* One flusher's point, time and batch change. *)
LEMMA LeaveTypes ==
    ASSUME TypesInv, NEW f \in Flushers, Leave(f)
    PROVE  /\ flusher' \in [Flushers -> [pc : Points, at : Nat, batch : Batch]]
           /\ flushLock' = "free"
           /\ flusher'[f].pc = After(f) /\ flusher'[f].batch = NoBatch
           /\ \A g \in Flushers \ {f} : flusher'[g] = flusher[g]
<1>1. After(f) \in Points /\ NoBatch \in Batch
  BY DEF After, Points, NoBatch, Batch
<1>2. flusher' = [flusher EXCEPT ![f].pc = After(f), ![f].batch = NoBatch]
  BY DEF Leave
<1>3. flusher \in [Flushers -> [pc : Points, at : Nat, batch : Batch]]
  BY DEF TypesInv
<1>4. flusher' \in [Flushers -> [pc : Points, at : Nat, batch : Batch]]
  BY <1>1, <1>2, <1>3
<1>5. flusher'[f].pc = After(f) /\ flusher'[f].batch = NoBatch
  BY <1>2, <1>3
<1>6. \A g \in Flushers \ {f} : flusher'[g] = flusher[g]
  BY <1>2, <1>3
<1>7. QED BY <1>4, <1>5, <1>6 DEF Leave

(* A step in which flusher f goes on without the lock, or nobody moves.    *)
LEMMA IdleLock ==
    ASSUME TypesInv, LockInv, NEW f \in Flushers,
           flusher[f].pc # "flight" \/ flusher'[f] = flusher[f],
           flusher'[f].pc \notin {"select", "flight"} \/ flusher'[f] = flusher[f],
           flusher'[f].batch = flusher[f].batch,
           \A g \in Flushers \ {f} : flusher'[g] = flusher[g],
           now' \in Nat, now' >= now, BlockedUntil' = BlockedUntil, disabled' = disabled,
           flushLock' = flushLock,
           ~closed' => flusher'["final"].pc = "none"
    PROVE  LockInv'
<1>1. BlockedUntil \in Nat /\ now \in Nat
  BY Fields
<1>2. ASSUME NEW g \in Flushers
      PROVE  /\ flusher'[g].pc \in {"select", "flight"} => flushLock' = g
             /\ flusher'[g].pc = "select" =>
                   now' >= BlockedUntil' /\ ~disabled' /\ flusher'[g].at \in 0..MaxTime
             /\ flusher'[g].pc # "flight" => flusher'[g].batch = NoBatch
  <2>1. /\ flusher[g].pc \in {"select", "flight"} => flushLock = g
        /\ flusher[g].pc = "select" =>
              now >= BlockedUntil /\ ~disabled /\ flusher[g].at \in 0..MaxTime
        /\ flusher[g].pc # "flight" => flusher[g].batch = NoBatch
    BY DEF LockInv
  <2>2. CASE flusher'[g] = flusher[g]
    BY <1>1, <2>1, <2>2
  <2>3. CASE flusher'[g] # flusher[g]
    <3>1. g = f
      BY <2>3
    <3>2. QED BY <2>1, <2>3, <3>1
  <2>4. QED BY <2>2, <2>3
<1>3. QED BY <1>2 DEF LockInv

(* A step in which flusher f leaves, having the lock or finding it free. *)
LEMMA LeaveLock ==
    ASSUME TypesInv, LockInv, NEW f \in Flushers, Leave(f), flushLock \in {f, "free"},
           flusher[f].pc # "none", closed' = closed
    PROVE  LockInv'
<1>1. /\ flusher'[f].pc = After(f) /\ flusher'[f].batch = NoBatch
      /\ \A g \in Flushers \ {f} : flusher'[g] = flusher[g]
  BY LeaveTypes
<1>2. After(f) \notin {"select", "flight", "none"}
  BY DEF After
<1>3. ASSUME NEW g \in Flushers
      PROVE  /\ flusher'[g].pc \notin {"select", "flight"}
             /\ flusher'[g].batch = NoBatch
  <2>1. CASE g = f
    BY <1>1, <1>2, <2>1
  <2>2. CASE g # f
    <3>1. flushLock # g /\ flusher'[g] = flusher[g]
      BY <1>1, <2>2 DEF Flushers
    <3>2. flusher[g].pc \notin {"select", "flight"}
      BY <3>1 DEF LockInv
    <3>3. QED BY <3>1, <3>2 DEF LockInv
  <2>3. QED BY <2>1, <2>2
<1>4. ~closed' => flusher'["final"].pc = "none"
  <2>1. SUFFICES ASSUME ~closed PROVE flusher'["final"].pc = "none"
    OBVIOUS
  <2>2. flusher["final"].pc = "none" /\ "final" \in Flushers
    BY <2>1 DEF LockInv, Flushers
  <2>3. "final" # f
    BY <2>2
  <2>4. QED BY <1>1, <2>2, <2>3
<1>5. QED BY <1>3, <1>4 DEF LockInv

(* The steps of the worker outside of a flush. *)
LEMMA WorkerMoves ==
    ASSUME TypesInv, LockInv, WorkerTop \/ WorkerWakes \/ WorkerClears \/ WorkerRests
    PROVE  TypesInv' /\ LockInv' /\ flusher'["worker"].batch = NoBatch
           /\ flusher'["final"] = flusher["final"]
<1> DEFINE w == "worker"
<1>1. /\ w \in Flushers /\ "final" \in Flushers \ {w} /\ \A g \in Flushers \ {w} : g = "final"
  BY DEF Flushers
<1>2. flusher \in [Flushers -> [pc : Points, at : Nat, batch : Batch]]
  BY DEF TypesInv
<1>3. now' = now /\ closed' = closed /\ disabled' = disabled /\ flushLock' = flushLock
  BY DEF WorkerTop, WorkerWakes, WorkerClears, WorkerRests
<1>4. flusher[w].pc \in {"top", "wait", "clear", "rest"}
  BY DEF WorkerTop, WorkerWakes, WorkerClears, WorkerRests
<1>5. /\ flusher' \in [Flushers -> [pc : Points, at : Nat, batch : Batch]]
      /\ flusher'[w].pc \notin {"select", "flight"} /\ flusher'[w].batch = flusher[w].batch
      /\ \A g \in Flushers \ {w} : flusher'[g] = flusher[g]
  <2>1. CASE WorkerTop
    <3>1. Deadline \in Nat
      BY Fields
    <3>2. PICK pc \in {"exited", "want", "wait"}, at \in Nat :
             flusher' = [flusher EXCEPT ![w].pc = pc, ![w].at = at]
      <4>1. CASE stop
        <5>1. flusher' = [flusher EXCEPT ![w].pc = "exited", ![w].at = flusher[w].at]
          BY <1>1, <1>2, <2>1, <4>1 DEF WorkerTop
        <5>2. flusher[w].at \in Nat
          BY <1>1, <1>2
        <5>3. QED BY <5>1, <5>2
      <4>2. CASE ~stop
        <5> DEFINE isUrgent == urgent /\ now >= BlockedUntil
                   p == IF isUrgent \/ now >= Deadline THEN "want" ELSE "wait"
        <5>1. flusher' = [flusher EXCEPT ![w].pc = p, ![w].at = Deadline]
          BY <2>1, <4>2 DEF WorkerTop
        <5>2. p \in {"exited", "want", "wait"}
          OBVIOUS
        <5> HIDE DEF p
        <5>3. QED BY <3>1, <5>1, <5>2
      <4>3. QED BY <4>1, <4>2
    <3>3. pc \in Points
      BY <3>2 DEF Points
    <3>4. QED BY <1>1, <1>2, <3>2, <3>3
  <2>2. CASE WorkerWakes \/ WorkerClears \/ WorkerRests
    <3>1. PICK pc \in {"clear", "top"} : flusher' = [flusher EXCEPT ![w].pc = pc]
      BY <2>2 DEF WorkerWakes, WorkerClears, WorkerRests
    <3>2. pc \in Points
      BY <3>1 DEF Points
    <3>3. QED BY <1>1, <1>2, <3>1, <3>2
  <2>3. QED BY <2>1, <2>2
<1>6. timing' \in Times /\ BlockedUntil' = BlockedUntil
  <2>1. now + FlushMinutes \in Nat
    BY Fields
  <2>2. timing \in Times
    BY DEF TypesInv
  <2>3. timing' = timing \/ timing' = [timing EXCEPT !.nextFlush = now + FlushMinutes]
    BY DEF WorkerTop, WorkerWakes, WorkerClears, WorkerRests
  <2>4. /\ timing' \in Times /\ timing'.paused = timing.paused
        /\ timing'.backoffUntil = timing.backoffUntil
    BY <2>1, <2>2, <2>3 DEF Times
  <2>5. QED BY <2>4 DEF BlockedUntil
<1>7. UNCHANGED <<request, events, acked, reported>>
  BY DEF WorkerTop, WorkerWakes, WorkerClears, WorkerRests
<1>8. TypesInv'
  BY <1>3, <1>5, <1>6, <1>7 DEF TypesInv
<1>9. ~closed' => flusher'["final"].pc = "none"
  BY <1>1, <1>3, <1>5 DEF LockInv
<1>10. now' \in Nat /\ now' >= now
  BY <1>3, Fields
<1>11. LockInv'
  BY <1>1, <1>3, <1>4, <1>5, <1>6, <1>9, <1>10, IdleLock
<1>12. flusher[w].batch = NoBatch
  BY <1>1, <1>4 DEF LockInv
<1>13. QED BY <1>1, <1>5, <1>8, <1>11, <1>12

(* A step that changes nothing recorded, held or confirmed. *)
Quiet ==
    /\ Recorded' = Recorded /\ \A r \in Recorded : request'[r] = request[r]
    /\ UNCHANGED <<events, store, acked, reported, disabled>>
    /\ \A f \in Flushers : flusher'[f].batch \in {flusher[f].batch, NoBatch}

LEMMA QuietKeeps ==
    ASSUME TypesInv, StoreInv, AckInv, LossInv, Quiet
    PROVE  StoreInv' /\ AckInv' /\ LossInv'
<1>1. Recorded \subseteq Requests
  BY DEF Recorded
<1>2. \A r \in Recorded : At'[r] = At[r]
  BY <1>1 DEF Quiet, At
<1>3. StoreInv'
  <2>1. StoreOK(store, Recorded, At')
    BY <1>2, StoreMoves DEF StoreInv
  <2>2. QED BY <2>1 DEF StoreInv, Quiet
<1>4. Buffered' = Buffered /\ Counted' = Counted
  BY DEF Quiet, Buffered, Counted, Rows
<1>5. AckInv'
  <2>1. ASSUME NEW f \in Flushers
        PROVE  OnItsWay(flusher'[f].batch, Recorded', acked', store')
    <3>1. CASE flusher'[f].batch = flusher[f].batch
      BY <3>1 DEF AckInv, Quiet
    <3>2. CASE flusher'[f].batch = NoBatch
      BY <3>2, NothingOnItsWay
    <3>3. QED BY <3>1, <3>2 DEF Quiet
  <2>2. QED BY <1>4, <2>1 DEF AckInv, Quiet
<1>6. LossInv'
  <2>1. LostEvents' = LostEvents
    BY <1>4 DEF LostEvents, Quiet
  <2>2. LostCounts' = LostCounts
    BY <1>4 DEF LostCounts, Quiet
  <2>3. QED BY <2>1, <2>2 DEF LossInv, Quiet
<1>7. QED BY <1>3, <1>5, <1>6

-----------------------------------------------------------------------------
LEMMA WorkerIsQuiet ==
    ASSUME TypesInv, LockInv, WorkerTop \/ WorkerWakes \/ WorkerClears \/ WorkerRests
    PROVE  TypesInv' /\ LockInv' /\ Quiet
<1>1. /\ TypesInv' /\ LockInv' /\ flusher'["worker"].batch = NoBatch
      /\ flusher'["final"] = flusher["final"]
  BY WorkerMoves
<1>2. UNCHANGED <<request, events, store, acked, reported, disabled>>
  BY DEF WorkerTop, WorkerWakes, WorkerClears, WorkerRests
<1>3. \A f \in Flushers : flusher'[f].batch \in {flusher[f].batch, NoBatch}
  BY <1>1 DEF Flushers
<1>4. Recorded' = Recorded
  BY <1>2 DEF Recorded
<1>5. QED BY <1>1, <1>2, <1>3, <1>4 DEF Quiet

LEMMA BeginFlushIsQuiet ==
    ASSUME TypesInv, LockInv, NEW f \in Flushers, BeginFlush(f)
    PROVE  TypesInv' /\ LockInv' /\ Quiet
<1>1. /\ UNCHANGED <<now, request, events, store, timing, disabled, closed, acked, reported>>
      /\ flusher[f].pc = "want" /\ flushLock = "free"
  BY DEF BeginFlush, MayLock
<1>2. flusher \in [Flushers -> [pc : Points, at : Nat, batch : Batch]]
  BY DEF TypesInv
<1>3. BlockedUntil' = BlockedUntil /\ BlockedUntil \in Nat /\ now \in Nat /\ now \in 0..MaxTime
  BY <1>1, Fields DEF BlockedUntil
<1>4. flusher[f].batch = NoBatch
  BY <1>1 DEF LockInv
<1>5. CASE MustNotFlush
  <2>1. Leave(f)
    BY <1>5 DEF BeginFlush
  <2>2. /\ flusher' \in [Flushers -> [pc : Points, at : Nat, batch : Batch]]
        /\ flushLock' = "free" /\ flusher'[f].batch = NoBatch
        /\ \A g \in Flushers \ {f} : flusher'[g] = flusher[g]
    BY <2>1, LeaveTypes
  <2>3. LockInv'
    BY <1>1, <2>1, LeaveLock
  <2>4. TypesInv'
    BY <1>1, <2>2 DEF TypesInv
  <2>5. Quiet
    BY <1>1, <2>2 DEF Quiet, Recorded
  <2>6. QED BY <2>3, <2>4, <2>5
<1>6. CASE ~MustNotFlush
  <2>1. flushLock' = f /\ flusher' = [flusher EXCEPT ![f].pc = "select", ![f].at = now]
    BY <1>6 DEF BeginFlush
  <2>2. /\ flusher' \in [Flushers -> [pc : Points, at : Nat, batch : Batch]]
        /\ flusher'[f].pc = "select" /\ flusher'[f].at = now
        /\ flusher'[f].batch = flusher[f].batch
        /\ \A g \in Flushers \ {f} : flusher'[g] = flusher[g]
    BY <1>2, <1>3, <2>1 DEF Points
  <2>3. now >= BlockedUntil /\ ~disabled
    BY <1>3, <1>6 DEF MustNotFlush
  <2>4. ASSUME NEW g \in Flushers
        PROVE  /\ flusher'[g].pc \in {"select", "flight"} => flushLock' = g
               /\ flusher'[g].pc = "select" =>
                     now' >= BlockedUntil' /\ ~disabled' /\ flusher'[g].at \in 0..MaxTime
               /\ flusher'[g].pc # "flight" => flusher'[g].batch = NoBatch
    <3>1. CASE g = f
      BY <1>1, <1>3, <1>4, <2>1, <2>2, <2>3, <3>1
    <3>2. CASE g # f
      <4>1. flushLock # g /\ flusher'[g] = flusher[g]
        BY <1>1, <2>2, <3>2 DEF Flushers
      <4>2. flusher[g].pc \notin {"select", "flight"}
        BY <4>1 DEF LockInv
      <4>3. QED BY <4>1, <4>2 DEF LockInv
    <3>3. QED BY <3>1, <3>2
  <2>5. ~closed' => flusher'["final"].pc = "none"
    <3>1. SUFFICES ASSUME ~closed PROVE flusher'["final"].pc = "none"
      BY <1>1
    <3>2. flusher["final"].pc = "none" /\ "final" \in Flushers
      BY <3>1 DEF LockInv, Flushers
    <3>3. "final" # f
      BY <1>1, <3>2
    <3>4. QED BY <2>2, <3>2, <3>3
  <2>6. LockInv'
    BY <2>4, <2>5 DEF LockInv
  <2>7. flushLock' \in Flushers \cup {"free"}
    BY <2>1
  <2>8. TypesInv'
    BY <1>1, <2>2, <2>7 DEF TypesInv
  <2>9. Quiet
    BY <1>1, <2>2 DEF Quiet, Recorded
  <2>10. QED BY <2>6, <2>8, <2>9
<1>7. QED BY <1>5, <1>6

LEMMA BackOffIsQuiet ==
    ASSUME TypesInv, LockInv, NEW f \in Flushers, BackOff(f)
    PROVE  TypesInv' /\ LockInv' /\ Quiet
<1>1. /\ UNCHANGED <<now, request, events, store, disabled, closed, acked, reported>>
      /\ flusher[f].pc = "flight" /\ Leave(f)
  BY DEF BackOff
<1>2. flushLock = f
  BY <1>1 DEF LockInv
<1>3. /\ flusher' \in [Flushers -> [pc : Points, at : Nat, batch : Batch]]
      /\ flushLock' = "free" /\ flusher'[f].batch = NoBatch
      /\ \A g \in Flushers \ {f} : flusher'[g] = flusher[g]
  BY <1>1, LeaveTypes
<1>4. LockInv'
  BY <1>1, <1>2, LeaveLock
<1>5. timing' \in Times
  <2>1. PICK retryAfter \in 0..MaxBackoff :
          LET delay == IF retryAfter > timing.backoff THEN retryAfter ELSE timing.backoff
          IN  timing' = [timing EXCEPT
                 !.backoffUntil = now + (IF delay > MaxBackoff THEN MaxBackoff ELSE delay),
                 !.backoff = IF 2 * @ > MaxBackoff THEN MaxBackoff
                             ELSE IF 2 * @ < MinBackoff THEN MinBackoff ELSE 2 * @]
    BY DEF BackOff
  <2> DEFINE delay == IF retryAfter > timing.backoff THEN retryAfter ELSE timing.backoff
             until == now + (IF delay > MaxBackoff THEN MaxBackoff ELSE delay)
             next == IF 2 * timing.backoff > MaxBackoff THEN MaxBackoff
                     ELSE IF 2 * timing.backoff < MinBackoff THEN MinBackoff
                     ELSE 2 * timing.backoff
  <2>2. timing \in Times /\ timing.backoff \in Nat /\ now \in Nat
    BY Fields DEF TypesInv
  <2>3. MaxBackoff \in Nat /\ MinBackoff \in Nat
    BY ReporterAssumption
  <2>4. until \in Nat /\ next \in Nat
    BY <2>2, <2>3
  <2>5. timing' = [timing EXCEPT !.backoffUntil = until, !.backoff = next]
    BY <2>1
  <2> HIDE DEF until, next
  <2>6. QED BY <2>2, <2>4, <2>5 DEF Times
<1>6. TypesInv'
  BY <1>1, <1>3, <1>5 DEF TypesInv
<1>7. Quiet
  BY <1>1, <1>3 DEF Quiet, Recorded
<1>8. QED BY <1>4, <1>6, <1>7

LEMMA CloseIsQuiet ==
    ASSUME TypesInv, LockInv, Close
    PROVE  TypesInv' /\ LockInv' /\ Quiet
<1> DEFINE f == "final"
<1>1. /\ UNCHANGED <<now, request, events, store, timing, disabled, flushLock, acked, reported>>
      /\ ~closed /\ closed' = TRUE
      /\ flusher' = [flusher EXCEPT !["final"].pc = "want"]
  BY DEF Close
<1>2. flusher \in [Flushers -> [pc : Points, at : Nat, batch : Batch]] /\ f \in Flushers
  BY DEF TypesInv, Flushers
<1>3. flusher[f].pc = "none"
  BY <1>1 DEF LockInv
<1>4. /\ flusher' \in [Flushers -> [pc : Points, at : Nat, batch : Batch]]
      /\ flusher'[f].pc = "want" /\ flusher'[f].batch = flusher[f].batch
      /\ \A g \in Flushers \ {f} : flusher'[g] = flusher[g]
  BY <1>1, <1>2 DEF Points
<1>5. now' \in Nat /\ now' >= now /\ BlockedUntil' = BlockedUntil
  BY <1>1, Fields DEF BlockedUntil
<1>6. LockInv'
  BY <1>1, <1>2, <1>3, <1>4, <1>5, IdleLock
<1>7. TypesInv'
  BY <1>1, <1>4 DEF TypesInv
<1>8. Quiet
  BY <1>1, <1>4 DEF Quiet, Recorded
<1>9. QED BY <1>6, <1>7, <1>8

LEMMA TickIsQuiet ==
    ASSUME TypesInv, LockInv, Tick
    PROVE  TypesInv' /\ LockInv' /\ Quiet
<1>1. /\ UNCHANGED <<request, events, store, timing, disabled, closed, flushLock, flusher,
                     acked, reported>>
      /\ now < MaxTime /\ now' = now + 1
  BY DEF Tick
<1>2. now' \in 0..MaxTime /\ now' \in Nat /\ now' >= now /\ BlockedUntil' = BlockedUntil
  BY <1>1, Fields DEF BlockedUntil
<1>3. TypesInv'
  BY <1>1, <1>2 DEF TypesInv
<1>4. ~closed' => flusher'["final"].pc = "none"
  BY <1>1 DEF LockInv
<1>5. "worker" \in Flushers
  BY DEF Flushers
<1>6. LockInv'
  BY <1>1, <1>2, <1>4, <1>5, IdleLock
<1>7. Quiet
  BY <1>1 DEF Quiet, Recorded
<1>8. QED BY <1>3, <1>6, <1>7

(* A request that ends, or that is recorded by nobody. *)
LEMMA RequestIsQuiet ==
    ASSUME TypesInv, LockInv, NEW r \in Requests, NEW new \in Finished,
           request[r].pc # "recorded", new.pc # "recorded",
           request' = [request EXCEPT ![r] = new],
           UNCHANGED <<now, events, store, timing, disabled, closed, flushLock, flusher,
                       acked, reported>>
    PROVE  TypesInv' /\ LockInv' /\ Quiet
<1>1. request \in [Requests -> Running \cup Finished]
  BY DEF TypesInv
<1>2. /\ request' \in [Requests -> Running \cup Finished] /\ request'[r] = new
      /\ \A q \in Requests \ {r} : request'[q] = request[q]
  BY <1>1
<1>3. TypesInv'
  BY <1>2 DEF TypesInv
<1>4. LockInv'
  BY DEF LockInv, BlockedUntil
<1>5. Recorded' = Recorded
  <2>1. ASSUME NEW q \in Requests
        PROVE  request'[q].pc = "recorded" <=> request[q].pc = "recorded"
    BY <1>2
  <2>2. QED BY <2>1 DEF Recorded
<1>6. \A q \in Recorded : request'[q] = request[q]
  BY <1>2 DEF Recorded
<1>7. Quiet
  BY <1>5, <1>6 DEF Quiet
<1>8. QED BY <1>3, <1>4, <1>7

LEMMA FinishRequestIsQuiet ==
    ASSUME TypesInv, LockInv, NEW r \in Requests, FinishRequest(r)
    PROVE  TypesInv' /\ LockInv' /\ Quiet
<1>1. PICK kind \in Kinds, key \in Keys :
         request' = [request EXCEPT ![r] =
              [pc |-> "recording", at |-> now, kind |-> kind, key |-> key]]
  BY DEF FinishRequest
<1> DEFINE new == [pc |-> "recording", at |-> now, kind |-> kind, key |-> key]
<1>2. new \in Finished /\ new.pc # "recorded"
  BY Fields DEF Finished
<1> HIDE DEF new
<1>3. /\ request[r].pc # "recorded" /\ request' = [request EXCEPT ![r] = new]
      /\ UNCHANGED <<now, events, store, timing, disabled, closed, flushLock, flusher,
                     acked, reported>>
  BY <1>1 DEF FinishRequest, new
<1>4. QED BY <1>2, <1>3, RequestIsQuiet

-----------------------------------------------------------------------------
(* The account of what was lost, after a step that loses at most the       *)
(* events of D, and counts only if it adds more than D to what is told.    *)
LEMMA Owes ==
    ASSUME NEW E, IsFiniteSet(E), NEW C, NEW total \in Nat,
           Cardinality(E) + (IF C = {} THEN 0 ELSE 1) <= total,
           NEW D, IsFiniteSet(D), NEW E2, E2 \subseteq E \cup D, NEW C2,
           NEW total2 \in Nat, total2 >= total + Cardinality(D),
           C2 \subseteq C \/ total2 > total + Cardinality(D)
    PROVE  Cardinality(E2) + (IF C2 = {} THEN 0 ELSE 1) <= total2
<1>1. /\ IsFiniteSet(E \cup D)
      /\ Cardinality(E \cup D) = Cardinality(E) + Cardinality(D) - Cardinality(E \cap D)
  BY FS_Union
<1>2. Cardinality(E2) <= Cardinality(E \cup D) /\ IsFiniteSet(E2)
  BY <1>1, FS_Subset
<1>3. IsFiniteSet(E \cap D)
  BY FS_Intersection
<1>4. /\ Cardinality(E) \in Nat /\ Cardinality(D) \in Nat /\ Cardinality(E2) \in Nat
      /\ Cardinality(E \cap D) \in Nat /\ Cardinality(E \cup D) \in Nat
  BY <1>1, <1>2, <1>3, FS_CardinalityType
<1>5. Cardinality(E2) <= Cardinality(E) + Cardinality(D)
  BY <1>1, <1>2, <1>4
<1>6. CASE C2 \subseteq C
  BY <1>4, <1>5, <1>6
<1>7. CASE total2 > total + Cardinality(D)
  BY <1>4, <1>5, <1>7
<1>8. QED BY <1>6, <1>7

LEMMA LostIsFinite ==
    ASSUME StoreInv
    PROVE  IsFiniteSet(LostEvents)
<1>1. IsFiniteSet(Recorded) /\ LostEvents \subseteq Recorded
  BY DEF StoreInv, LostEvents
<1>2. QED BY <1>1, FS_Subset

LEMMA BufferedIs ==
    ASSUME NEW s \in Seq(Event)
    PROVE  {s[i].request : i \in DOMAIN s} = {e.request : e \in ToSet(s)}
BY DEF ToSet

LEMMA CountedIs == Counted = Within(AllRows(store))
BY DEF Counted, Rows, Within, AllRows

LEMMA AgingKeepsWay ==
    ASSUME NEW b, NEW R, NEW done, NEW s, NEW p, OnItsWay(b, R, done, s), Ages(s, p)
    PROVE  OnItsWay(b, R, done, p)
BY DEF OnItsWay, Ages, Within

(* What is dropped only grows, so a window never ages without a trace.     *)
LEMMA RecordMoves ==
    ASSUME TypesInv, StoreInv, AckInv, LossInv, NEW r \in Requests,
           request[r] \in Finished, request[r].pc = "recording", Record(r),
           request' = [request EXCEPT ![r].pc = "recorded"],
           UNCHANGED <<acked, reported, disabled>>,
           \A f \in Flushers : flusher'[f].batch = flusher[f].batch
    PROVE  /\ events' \in Seq(Event) /\ Len(events') <= MaxEvents
           /\ StoreInv' /\ AckInv' /\ LossInv'
<1> DEFINE e == request[r]
           s == RollWindow(store, e.at)
           counted == WithCount(s, e.key, r)
           event == [request |-> r, kind |-> e.kind]
<1>1. /\ e.at \in 0..MaxTime /\ e.kind \in Kinds /\ e.key \in Keys
  BY DEF Finished
<1>2. /\ events \in Seq(Event) /\ Len(events) <= MaxEvents
      /\ request \in [Requests -> Running \cup Finished]
      /\ acked.events \subseteq Requests /\ acked.counts \subseteq Requests
      /\ reported \in Nat
  BY DEF TypesInv
<1>3. r \notin Recorded /\ Recorded \subseteq Requests
  BY DEF Recorded
<1>4. /\ \A q \in Requests \ {r} : request'[q] = request[q]
      /\ request'[r].pc = "recorded" /\ request'[r].kind = e.kind
      /\ request'[r].at = e.at
  BY <1>2 DEF Finished
<1>5. Recorded' = Recorded \cup {r} /\ At' = At
  <2>1. \A q \in Requests : request'[q].pc = "recorded" <=> request[q].pc = "recorded" \/ q = r
    BY <1>4
  <2>2. Recorded' = Recorded \cup {r}
    BY <2>1 DEF Recorded
  <2>3. \A q \in Requests : request'[q].at = request[q].at
    BY <1>4
  <2>4. QED BY <2>2, <2>3 DEF At
<1>6. StoreOK(store, Recorded, At) /\ IsFiniteSet(Recorded) /\ At[r] = e.at
  BY DEF StoreInv, At
<1>7. StoreOK(s, Recorded, At) /\ Ages(store, s) /\ e.at <= s.start
  BY <1>1, <1>6, RollKeeps
<1>8. IF e.kind = "none" THEN store' = counted /\ UNCHANGED events
      ELSE /\ events' = AppendEvent(event)
           /\ store' = IF Overflow THEN [counted EXCEPT !.dropped = @ + 1] ELSE counted
  BY DEF Record, WithCount
<1> HIDE DEF e, s, event
<1>9. /\ StoreOK(counted, Recorded \cup {r}, At)
      /\ counted.start = s.start /\ counted.closed = s.closed
      /\ counted.dropped = s.dropped
      /\ Within(ToSet(counted.current)) = Within(ToSet(s.current)) \cup {r}
  <2>1. r \in Requests \ Recorded /\ At[r] <= s.start /\ e.key \in Keys
    BY <1>1, <1>3, <1>6, <1>7
  <2>2. QED BY <1>7, <2>1, StoreCounts
<1> HIDE DEF counted
<1> DEFINE extra == IF e.kind # "none" /\ Overflow THEN 1 ELSE 0
<1>10. /\ StoreOK(store', Recorded \cup {r}, At)
       /\ store'.closed = s.closed /\ store'.current = counted.current
       /\ store'.dropped = s.dropped + extra
  <2>1. counted \in Store /\ s.dropped \in Nat
    BY <1>7, <1>9 DEF StoreOK, Store
  <2>2. CASE extra = 0
    <3>1. store' = counted
      BY <1>8, <2>2
    <3>2. QED BY <1>9, <2>1, <2>2, <3>1
  <2>3. CASE extra = 1
    <3> DEFINE p == [counted EXCEPT !.dropped = @ + 1]
    <3>1. store' = p
      BY <1>8, <2>3
    <3>2. counted.dropped + 1 \in Nat
      BY <1>9, <2>1
    <3>3. /\ p \in Store /\ p.start = counted.start /\ p.current = counted.current
          /\ p.closed = counted.closed /\ p.dropped = counted.dropped + 1
      BY <2>1, <3>2 DEF Store
    <3> HIDE DEF p
    <3>4. StoreOK(p, Recorded \cup {r}, At)
      BY <1>9, <3>3, SameWindows
    <3>5. QED BY <1>9, <2>3, <3>1, <3>3, <3>4
  <2>4. QED BY <2>2, <2>3
<1>11. StoreInv'
  <2>1. IsFiniteSet(Recorded \cup {r})
    BY <1>6, FS_AddElement
  <2>2. QED BY <1>5, <1>10, <2>1 DEF StoreInv
<1>12. /\ Counted' = Within(AllRows(s)) \cup {r}
       /\ Within(AllRows(s)) \subseteq Counted
       /\ AllRows(s) = AllRows(store) => Within(AllRows(s)) = Counted
  <2>1. Counted' = Within(AllRows(store'))
    BY DEF Counted, Rows, Within, AllRows
  <2>2. Within(AllRows(store')) = Within(RowsOf(s.closed)) \cup Within(ToSet(counted.current))
    BY <1>10 DEF Within, AllRows
  <2>3. Within(AllRows(s)) = Within(RowsOf(s.closed)) \cup Within(ToSet(s.current))
    BY DEF Within, AllRows
  <2>4. Within(AllRows(s)) \subseteq Within(AllRows(store))
    BY <1>7 DEF Ages, Within
  <2>5. QED BY <1>9, <2>1, <2>2, <2>3, <2>4, CountedIs
<1> DEFINE D == Buffered \ Buffered'
<1>13. /\ events' \in Seq(Event) /\ Len(events') <= MaxEvents
       /\ Buffered' \subseteq Buffered \cup {r}
       /\ e.kind # "none" => r \in Buffered'
       /\ extra = 0 => D = {}
       /\ extra = 1 => \E q : D \subseteq {q}
  <2>1. CASE e.kind = "none"
    <3>1. events' = events
      BY <1>8, <2>1
    <3>2. Buffered' = Buffered
      BY <3>1 DEF Buffered
    <3>3. QED BY <1>2, <2>1, <3>1, <3>2
  <2>2. CASE e.kind # "none"
    <3>1. event \in Event /\ events' = AppendEvent(event) /\ event.request = r
      BY <1>1, <1>8, <2>2 DEF Event, event
    <3>2. /\ events' \in Seq(Event) /\ Len(events') <= MaxEvents
          /\ ToSet(events') \subseteq ToSet(events) \cup {event}
          /\ event \in ToSet(events')
          /\ ~Overflow => ToSet(events') = ToSet(events) \cup {event}
          /\ Overflow => \E k \in 1..Len(events) :
                ToSet(events) \subseteq ToSet(events') \cup {events[k]}
      BY <1>2, <3>1, AppendEventIs
    <3>3. Buffered = {x.request : x \in ToSet(events)}
      BY <1>2, BufferedIs DEF Buffered
    <3>4. Buffered' = {x.request : x \in ToSet(events')}
      BY <3>2, BufferedIs DEF Buffered
    <3>5. Buffered' \subseteq Buffered \cup {r} /\ r \in Buffered'
      BY <3>1, <3>2, <3>3, <3>4
    <3>6. CASE ~Overflow
      <4>1. extra = 0
        BY <3>6
      <4>2. Buffered \subseteq Buffered'
        BY <3>2, <3>3, <3>4, <3>6
      <4>3. D = {}
        BY <4>2
      <4> HIDE DEF D, extra
      <4>4. QED BY <2>2, <3>2, <3>5, <4>1, <4>3
    <3>7. CASE Overflow
      <4>1. PICK k \in 1..Len(events) :
              ToSet(events) \subseteq ToSet(events') \cup {events[k]}
        BY <3>2, <3>7
      <4>2. D \subseteq {events[k].request}
        BY <3>3, <3>4, <4>1
      <4>3. extra = 1
        BY <2>2, <3>7
      <4> HIDE DEF D, extra
      <4>4. \E q : D \subseteq {q}
        BY <4>2
      <4>5. QED BY <2>2, <3>2, <3>5, <4>3, <4>4
    <3>8. QED BY <3>6, <3>7
  <2>3. QED BY <2>1, <2>2
<1>14. r \notin acked.events /\ r \notin acked.counts
  BY <1>3 DEF AckInv
<1>15. AckInv'
  <2>1. Buffered' \subseteq Recorded' \ acked.events /\ acked.events \subseteq Recorded'
    BY <1>5, <1>13, <1>14 DEF AckInv
  <2>2. Counted' \subseteq Recorded' \ acked.counts /\ acked.counts \subseteq Recorded'
    BY <1>5, <1>12, <1>14 DEF AckInv
  <2>3. ASSUME NEW f \in Flushers
        PROVE  OnItsWay(flusher'[f].batch, Recorded', acked', store')
    <3> DEFINE b == flusher[f].batch
    <3>1. OnItsWay(b, Recorded, acked, store)
      BY DEF AckInv
    <3>2. OnItsWay(b, Recorded, acked, s)
      BY <1>7, <3>1, AgingKeepsWay
    <3> HIDE DEF b
    <3>3. r \notin Within(b.rows)
      BY <1>3, <3>1 DEF OnItsWay
    <3>4. Within(ToSet(store'.current)) \cap Within(b.rows) = {}
      BY <1>9, <1>10, <3>2, <3>3 DEF OnItsWay
    <3>5. Within(AllRows(store') \ b.rows) \cap Within(b.rows) = {}
      <4>1. Within(RowsOf(s.closed) \ b.rows) \cap Within(b.rows) = {}
        BY <3>2 DEF OnItsWay, Within, AllRows
      <4>2. AllRows(store') = RowsOf(s.closed) \cup ToSet(store'.current)
        BY <1>10 DEF AllRows
      <4>3. Within(AllRows(store') \ b.rows) \subseteq
              Within(RowsOf(s.closed) \ b.rows) \cup Within(ToSet(store'.current))
        BY <4>2 DEF Within
      <4>4. QED BY <3>4, <4>1, <4>3
    <3>6. OnItsWay(b, Recorded', acked, store')
      BY <1>5, <3>1, <3>4, <3>5 DEF OnItsWay
    <3>7. QED BY <3>6 DEF b
  <2>4. QED BY <2>1, <2>2, <2>3 DEF AckInv
<1>16. LossInv'
  <2>1. SUFFICES ASSUME ~disabled
                 PROVE  Cardinality(LostEvents') + (IF LostCounts' = {} THEN 0 ELSE 1)
                           <= reported' + store'.dropped
    BY DEF LossInv
  <2>2. /\ IsFiniteSet(LostEvents)
        /\ Cardinality(LostEvents) + (IF LostCounts = {} THEN 0 ELSE 1)
              <= reported + store.dropped
    BY <2>1, LostIsFinite DEF LossInv
  <2>3. LostEvents' \subseteq LostEvents \cup D
    <3>1. ASSUME NEW q \in Recorded', request'[q].kind # "none", q \notin Buffered',
                 q \notin acked.events
          PROVE  q \in LostEvents \cup D
      <4>1. q # r
        BY <1>4, <1>13, <3>1
      <4>2. q \in Recorded /\ request[q].kind # "none"
        BY <1>3, <1>4, <1>5, <3>1, <4>1
      <4>3. QED BY <3>1, <4>2 DEF LostEvents
    <3> HIDE DEF D
    <3>2. QED BY <3>1 DEF LostEvents
  <2> HIDE DEF D
  <2>0. extra \in {0, 1}
    OBVIOUS
  <2> HIDE DEF extra
  <2>4. IsFiniteSet(D) /\ Cardinality(D) \in Nat /\ Cardinality(D) <= extra
    <3>1. CASE extra = 0
      <4>1. D = {}
        BY <1>13, <3>1
      <4>2. IsFiniteSet({}) /\ Cardinality({}) = 0
        BY FS_EmptySet
      <4>3. QED BY <3>1, <4>1, <4>2
    <3>2. CASE extra = 1
      <4>1. PICK q : D \subseteq {q}
        BY <1>13, <3>2
      <4>2. IsFiniteSet({q}) /\ Cardinality({q}) = 1
        BY FS_Singleton
      <4>3. IsFiniteSet(D) /\ Cardinality(D) <= 1
        BY <4>1, <4>2, FS_Subset
      <4>4. QED BY <3>2, <4>3, FS_CardinalityType
    <3>3. QED BY <2>0, <3>1, <3>2
  <2>5. store.dropped \in Nat /\ s.dropped \in Nat /\ extra \in Nat
    BY <1>6, <1>7, <2>0 DEF StoreOK, Store
  <2> DEFINE total == reported + store.dropped
             total2 == reported' + store'.dropped
  <2>6. /\ total \in Nat /\ total2 \in Nat
        /\ total2 >= total + Cardinality(D)
        /\ AllRows(s) # AllRows(store) => total2 > total + Cardinality(D)
    <3>1. s.dropped >= store.dropped /\ (AllRows(s) # AllRows(store) => s.dropped > store.dropped)
      BY <1>7 DEF Ages
    <3>2. QED BY <1>2, <1>10, <2>4, <2>5, <3>1
  <2>7. AllRows(s) = AllRows(store) => LostCounts' \subseteq LostCounts
    BY <1>5, <1>12 DEF LostCounts
  <2> HIDE DEF total, total2
  <2>8. Cardinality(LostEvents') + (IF LostCounts' = {} THEN 0 ELSE 1) <= total2
    <3> DEFINE E == LostEvents
               C == LostCounts
               E2 == LostEvents'
               C2 == LostCounts'
    <3>1. IsFiniteSet(E) /\ Cardinality(E) + (IF C = {} THEN 0 ELSE 1) <= total
      BY <2>2 DEF total
    <3>2. E2 \subseteq E \cup D /\ (C2 \subseteq C \/ total2 > total + Cardinality(D))
      BY <2>3, <2>6, <2>7
    <3> HIDE DEF E, C, E2, C2
    <3>3. Cardinality(E2) + (IF C2 = {} THEN 0 ELSE 1) <= total2
      BY <2>4, <2>6, <3>1, <3>2, Owes
    <3>4. QED BY <3>3 DEF E2, C2
  <2>9. QED BY <2>8 DEF total2
<1>17. QED BY <1>11, <1>13, <1>15, <1>16

LEMMA RecordRequestKeeps ==
    ASSUME TypesInv, LockInv, StoreInv, AckInv, LossInv, NEW r \in Requests,
           RecordRequest(r)
    PROVE  TypesInv' /\ LockInv' /\ StoreInv' /\ AckInv' /\ LossInv'
<1>1. request[r].pc = "recording" /\ request[r] \in Finished
  BY Fields DEF RecordRequest
<1>2. /\ UNCHANGED <<now, disabled, closed, flushLock, acked, reported>>
      /\ request' = [request EXCEPT ![r].pc = IF Accepts THEN "recorded" ELSE "ignored"]
  BY DEF RecordRequest
<1>3. request \in [Requests -> Running \cup Finished]
  BY DEF TypesInv
<1>4. CASE Accepts
  <2> DEFINE w == "worker"
  <2>1. request' = [request EXCEPT ![r].pc = "recorded"] /\ Record(r)
    BY <1>2, <1>4 DEF RecordRequest
  <2>2. /\ flusher' = flusher \/ /\ flusher[w].pc = "none"
                                 /\ flusher' = [flusher EXCEPT ![w].pc = "top"]
        /\ \/ timing' = timing
           \/ timing' = [timing EXCEPT !.nextFlush = request[r].at + FlushMinutes]
    BY <1>4, Zenon DEF RecordRequest
  <2>3. /\ flusher \in [Flushers -> [pc : Points, at : Nat, batch : Batch]]
        /\ w \in Flushers /\ "top" \in Points
    BY DEF TypesInv, Flushers, Points
  <2>4. /\ flusher' \in [Flushers -> [pc : Points, at : Nat, batch : Batch]]
        /\ flusher'[w].batch = flusher[w].batch
        /\ \A g \in Flushers \ {w} : flusher'[g] = flusher[g]
        /\ flusher[w].pc # "flight" \/ flusher'[w] = flusher[w]
        /\ flusher'[w].pc \notin {"select", "flight"} \/ flusher'[w] = flusher[w]
    <3>1. CASE flusher' = flusher
      BY <2>3, <3>1
    <3>2. CASE flusher[w].pc = "none" /\ flusher' = [flusher EXCEPT ![w].pc = "top"]
      BY <2>3, <3>2
    <3>3. QED BY <2>2, <3>1, <3>2
  <2>5. \A g \in Flushers : flusher'[g].batch = flusher[g].batch
    BY <2>4
  <2>6. /\ events' \in Seq(Event) /\ Len(events') <= MaxEvents
        /\ StoreInv' /\ AckInv' /\ LossInv'
    BY <1>1, <1>2, <2>1, <2>5, RecordMoves
  <2>7. timing' \in Times /\ BlockedUntil' = BlockedUntil
    <3>1. request[r].at + FlushMinutes \in Nat
      <4>1. request[r].at \in 0..MaxTime /\ MaxTime \in Nat /\ FlushMinutes \in Nat
        BY Fields
      <4>2. QED BY <4>1
    <3>2. timing \in Times
      BY DEF TypesInv
    <3>3. /\ timing' \in Times /\ timing'.paused = timing.paused
          /\ timing'.backoffUntil = timing.backoffUntil
      BY <2>2, <3>1, <3>2 DEF Times
    <3>4. QED BY <3>3 DEF BlockedUntil
  <2>8. request' \in [Requests -> Running \cup Finished]
    <3>1. [request[r] EXCEPT !.pc = "recorded"] \in Finished
      BY <1>1 DEF Finished
    <3>2. QED BY <1>3, <2>1, <3>1
  <2>9. TypesInv'
    BY <1>2, <2>4, <2>6, <2>7, <2>8 DEF TypesInv
  <2>10. now' \in Nat /\ now' >= now
    BY <1>2, Fields
  <2>11. ~closed' => flusher'["final"].pc = "none"
    <3>1. "final" \in Flushers \ {w}
      BY DEF Flushers
    <3>2. QED BY <1>2, <2>4, <3>1 DEF LockInv
  <2>12. LockInv'
    BY <1>2, <2>3, <2>4, <2>7, <2>10, <2>11, IdleLock
  <2>13. QED BY <2>6, <2>9, <2>12
<1>5. CASE ~Accepts
  <2> DEFINE new == [request[r] EXCEPT !.pc = "ignored"]
  <2>1. new \in Finished /\ new.pc = "ignored"
    BY <1>1 DEF Finished
  <2>2. request' = [request EXCEPT ![r] = new]
    BY <1>2, <1>5
  <2>3. UNCHANGED <<now, events, store, timing, disabled, closed, flushLock, flusher,
                    acked, reported>>
    BY <1>5 DEF RecordRequest
  <2> HIDE DEF new
  <2>4. TypesInv' /\ LockInv' /\ Quiet
    BY <1>1, <2>1, <2>2, <2>3, RequestIsQuiet
  <2>5. QED BY <2>4, QuietKeeps
<1>6. QED BY <1>4, <1>5

-----------------------------------------------------------------------------
(* The prefixes a batch is made of. *)
LEMMA PrefixIs ==
    ASSUME NEW S, NEW s \in Seq(S), NEW limit, NEW p \in PrefixesUpTo(s, limit)
    PROVE  p \in Seq(S) /\ ToSet(p) \subseteq ToSet(s)
<1>1. PICK n \in 0..Len(s) : p = SubSeq(s, 1, n)
  BY DEF PrefixesUpTo, Prefixes
<1>2. /\ p \in Seq(S) /\ DOMAIN p = 1..n /\ DOMAIN s = 1..Len(s)
      /\ \A i \in 1..n : p[i] = s[i] /\ i \in 1..Len(s)
  BY <1>1
<1>3. QED BY <1>2 DEF ToSet

LEMMA SelectedRowsAre ==
    ASSUME NEW windows \in Seq(Window)
    PROVE  /\ FlattenSeq([i \in DOMAIN windows |-> windows[i].rows]) \in Seq(Row)
           /\ ToSet(FlattenSeq([i \in DOMAIN windows |-> windows[i].rows])) = RowsOf(windows)
<1> DEFINE ss == [i \in DOMAIN windows |-> windows[i].rows]
           n == Len(windows)
<1>1. DOMAIN windows = 1..n /\ n \in Nat
  OBVIOUS
<1>2. \A i \in 1..n : windows[i].rows \in Seq(Row)
  <2>1. \A i \in 1..n : windows[i] \in Window
    BY ElementOfSeq
  <2>2. QED BY <2>1 DEF Window
<1>3. /\ ss \in Seq(Seq(Row)) /\ Len(ss) = n
      /\ \A i \in 1..n : ss[i] = windows[i].rows
  <2>1. ss \in [1..n -> Seq(Row)] /\ \A i \in 1..n : ss[i] = windows[i].rows
    BY <1>1, <1>2
  <2> HIDE DEF ss, n
  <2>2. QED BY <1>1, <2>1
<1> HIDE DEF ss, n
<1>4. /\ FlattenSeq(ss) \in Seq(Row)
      /\ ToSet(FlattenSeq(ss)) = UNION {ToSet(ss[i]) : i \in 1..Len(ss)}
  BY <1>3, FlattenHas
<1>5. UNION {ToSet(ss[i]) : i \in 1..Len(ss)} = RowsOf(windows)
  BY <1>1, <1>3 DEF RowsOf
<1>6. QED BY <1>4, <1>5 DEF ss

LEMMA AgedStore ==
    ASSUME TypesInv, StoreInv, AckInv, LossInv,
           StoreOK(store', Recorded, At), Ages(store, store'),
           UNCHANGED <<request, events, acked, reported, disabled>>,
           \A f \in Flushers : \/ flusher'[f].batch \in {flusher[f].batch, NoBatch}
                               \/ OnItsWay(flusher'[f].batch, Recorded, acked, store')
    PROVE  StoreInv' /\ AckInv' /\ LossInv'
<1>1. Recorded' = Recorded /\ At' = At /\ Buffered' = Buffered
  BY DEF Recorded, At, Buffered
<1>2. StoreInv'
  BY <1>1 DEF StoreInv
<1>3. Counted' = Within(AllRows(store'))
  BY DEF Counted, Rows, Within, AllRows
<1>4. /\ Counted' \subseteq Counted
      /\ AllRows(store') = AllRows(store) => Counted' = Counted
  BY <1>3, CountedIs DEF Ages, Within
<1>5. AckInv'
  <2>1. ASSUME NEW f \in Flushers
        PROVE  OnItsWay(flusher'[f].batch, Recorded, acked, store')
    <3>1. OnItsWay(flusher[f].batch, Recorded, acked, store')
      BY AgingKeepsWay DEF AckInv
    <3>2. QED BY <3>1, NothingOnItsWay
  <2>2. QED BY <1>1, <1>4, <2>1 DEF AckInv
<1>6. LossInv'
  <2>1. LostEvents' = LostEvents
    BY <1>1 DEF LostEvents
  <2>2. AllRows(store') = AllRows(store) => LostCounts' = LostCounts
    BY <1>1, <1>4 DEF LostCounts
  <2>3. /\ store.dropped \in Nat /\ store'.dropped \in Nat /\ reported \in Nat
        /\ store'.dropped >= store.dropped
        /\ AllRows(store') # AllRows(store) => store'.dropped > store.dropped
    BY DEF StoreInv, StoreOK, Store, TypesInv, Ages
  <2>4. IsFiniteSet(LostEvents) /\ Cardinality(LostEvents) \in Nat
    BY LostIsFinite, FS_CardinalityType
  <2>5. SUFFICES ASSUME ~disabled
                 PROVE  Cardinality(LostEvents) + (IF LostCounts' = {} THEN 0 ELSE 1)
                           <= reported + store'.dropped
    BY <2>1 DEF LossInv
  <2>6. Cardinality(LostEvents) + (IF LostCounts = {} THEN 0 ELSE 1)
           <= reported + store.dropped
    BY <2>5 DEF LossInv
  <2>7. CASE AllRows(store') = AllRows(store)
    BY <2>2, <2>3, <2>4, <2>6, <2>7
  <2>8. CASE AllRows(store') # AllRows(store)
    BY <2>3, <2>4, <2>6, <2>8
  <2>9. QED BY <2>7, <2>8
<1>7. QED BY <1>2, <1>5, <1>6

LEMMA ReadyIs ==
    ASSUME StoreInv, NEW t \in 0..MaxTime,
           NEW ready, ready = PruneWindows(CloseWindow(RollWindow(store, t), t), t)
    PROVE  /\ StoreOK(ready, Recorded, At) /\ Ages(store, ready)
           /\ ready.current = <<>>
<1> DEFINE rolled == RollWindow(store, t)
           shut == CloseWindow(rolled, t)
<1>1. StoreOK(rolled, Recorded, At) /\ Ages(store, rolled)
  BY RollKeeps DEF StoreInv
<1> HIDE DEF rolled
<1>2. StoreOK(shut, Recorded, At) /\ Ages(rolled, shut) /\ shut.current = <<>>
  BY <1>1, CloseKeeps
<1>3. ready = PruneWindows(shut, t)
  BY DEF rolled
<1> HIDE DEF shut
<1>4. StoreOK(ready, Recorded, At) /\ Ages(shut, ready) /\ ready.current = shut.current
  BY <1>2, <1>3, PruneKeeps
<1>5. store \in Store /\ rolled \in Store /\ shut \in Store /\ ready \in Store
  BY <1>1, <1>2, <1>4 DEF StoreInv, StoreOK
<1>6. Ages(store, shut)
  BY <1>1, <1>2, <1>5, AgesTransitive
<1>7. Ages(store, ready)
  BY <1>4, <1>5, <1>6, AgesTransitive
<1>8. QED BY <1>2, <1>4, <1>7

(* Any prefix of the events and of the rows of a store that has no current *)
(* window can go on its way. *)
LEMMA BatchGoes ==
    ASSUME TypesInv, AckInv, NEW s, StoreOK(s, Recorded, At), Ages(store, s),
           s.current = <<>>,
           NEW es \in PrefixesUpTo(events, MaxBatchEvents),
           NEW rs \in PrefixesUpTo(
                 FlattenSeq([i \in DOMAIN s.closed |-> s.closed[i].rows]), MaxBatchRows),
           NEW batch, batch = [events  |-> {es[i].request : i \in DOMAIN es},
                               rows    |-> ToSet(rs),
                               dropped |-> s.dropped]
    PROVE  batch \in Batch /\ OnItsWay(batch, Recorded, acked, s)
<1> DEFINE rows == FlattenSeq([i \in DOMAIN s.closed |-> s.closed[i].rows])
<1>1. events \in Seq(Event) /\ s.closed \in Seq(Window) /\ s.dropped \in Nat
  BY DEF TypesInv, StoreOK, Store
<1>2. rows \in Seq(Row) /\ ToSet(rows) = RowsOf(s.closed)
  BY <1>1, SelectedRowsAre
<1> HIDE DEF rows
<1>3. rs \in Seq(Row) /\ ToSet(rs) \subseteq RowsOf(s.closed)
  BY <1>2, PrefixIs DEF rows
<1>4. es \in Seq(Event) /\ ToSet(es) \subseteq ToSet(events)
  BY <1>1, PrefixIs
<1>5. batch.events = {e.request : e \in ToSet(es)}
  BY <1>4, BufferedIs
<1>6. Buffered = {e.request : e \in ToSet(events)}
  BY <1>1, BufferedIs DEF Buffered
<1>7. batch.events \subseteq Buffered
  BY <1>4, <1>5, <1>6
<1>8. batch.rows = ToSet(rs) /\ batch.dropped = s.dropped
  OBVIOUS
<1>9. IsFiniteSet(batch.rows) /\ batch.rows \subseteq Row
  BY <1>3, <1>8, ItemsAreFinite, ItemsOf
<1>10. batch \in Batch
  <2>1. batch.events \subseteq Requests
    BY <1>7 DEF AckInv, Recorded
  <2>2. QED BY <1>1, <1>9, <2>1 DEF Batch
<1>11. Within(batch.rows) \subseteq Recorded \ acked.counts
  <2>1. Within(batch.rows) \subseteq Within(AllRows(store))
    BY <1>3, <1>8 DEF Within, AllRows, Ages
  <2>2. QED BY <2>1, CountedIs DEF AckInv
<1>12. ToSet(s.current) = {}
  BY DEF ToSet
<1>13. Within(ToSet(s.current)) \cap Within(batch.rows) = {}
  BY <1>12 DEF Within
<1>14. Within(AllRows(s) \ batch.rows) \cap Within(batch.rows) = {}
  <2>1. AllRows(s) = RowsOf(s.closed)
    BY <1>12 DEF AllRows
  <2>2. Apart(RowsOf(s.closed))
    BY DEF StoreOK
  <2>3. QED BY <1>3, <1>8, <2>1, <2>2 DEF Within, Apart
<1>15. QED BY <1>7, <1>9, <1>10, <1>11, <1>13, <1>14 DEF OnItsWay, AckInv

LEMMA SelectBatchKeeps ==
    ASSUME TypesInv, LockInv, StoreInv, AckInv, LossInv, NEW f \in Flushers,
           SelectBatch(f)
    PROVE  TypesInv' /\ LockInv' /\ StoreInv' /\ AckInv' /\ LossInv'
<1> DEFINE ready == PruneWindows(CloseWindow(RollWindow(store, flusher[f].at),
                                             flusher[f].at), flusher[f].at)
           rows == FlattenSeq([i \in DOMAIN ready.closed |-> ready.closed[i].rows])
<1>1. /\ flusher[f].pc = "select"
      /\ UNCHANGED <<now, request, events, timing, disabled, closed, acked, reported>>
  BY DEF SelectBatch
<1>2. flushLock = f /\ flusher[f].at \in 0..MaxTime
  BY <1>1 DEF LockInv
<1>3. \/ Leave(f) /\ store' = store
      \/ store' = ready /\ Leave(f)
      \/ /\ store' = ready /\ flushLock' = flushLock
         /\ \E es \in PrefixesUpTo(events, MaxBatchEvents),
               rs \in PrefixesUpTo(rows, MaxBatchRows) :
               flusher' = [flusher EXCEPT
                    ![f].pc = "flight",
                    ![f].batch = [events  |-> {es[i].request : i \in DOMAIN es},
                                  rows    |-> ToSet(rs),
                                  dropped |-> ready.dropped]]
  BY Zenon DEF SelectBatch
<1> DEFINE r == ready
<1>4. StoreOK(r, Recorded, At) /\ Ages(store, r) /\ r.current = <<>>
  BY <1>2, ReadyIs
<1>5. ASSUME Leave(f), store' \in {store, r}
      PROVE  TypesInv' /\ LockInv' /\ StoreInv' /\ AckInv' /\ LossInv'
  <2>1. /\ flusher' \in [Flushers -> [pc : Points, at : Nat, batch : Batch]]
        /\ flushLock' = "free" /\ flusher'[f].batch = NoBatch
        /\ \A g \in Flushers \ {f} : flusher'[g] = flusher[g]
    BY <1>5, LeaveTypes
  <2>2. TypesInv'
    BY <1>1, <2>1 DEF TypesInv
  <2>3. LockInv'
    BY <1>1, <1>2, <1>5, LeaveLock
  <2>4. \A g \in Flushers : flusher'[g].batch \in {flusher[g].batch, NoBatch}
    BY <2>1
  <2> HIDE DEF r
  <2>5. CASE store' = store
    <3>1. Quiet
      BY <1>1, <2>4, <2>5 DEF Quiet, Recorded
    <3>2. QED BY <2>2, <2>3, <3>1, QuietKeeps
  <2>6. CASE store' = r
    BY <1>1, <1>4, <2>2, <2>3, <2>4, <2>6, AgedStore
  <2>7. QED BY <1>5, <2>5, <2>6
<1>6. ASSUME store' = r, flushLock' = flushLock,
             NEW es \in PrefixesUpTo(events, MaxBatchEvents),
             NEW rs \in PrefixesUpTo(
                FlattenSeq([i \in DOMAIN r.closed |-> r.closed[i].rows]), MaxBatchRows),
             flusher' = [flusher EXCEPT
                    ![f].pc = "flight",
                    ![f].batch = [events  |-> {es[i].request : i \in DOMAIN es},
                                  rows    |-> ToSet(rs),
                                  dropped |-> r.dropped]]
      PROVE  TypesInv' /\ LockInv' /\ StoreInv' /\ AckInv' /\ LossInv'
  <2> DEFINE batch == [events  |-> {es[i].request : i \in DOMAIN es},
                       rows    |-> ToSet(rs),
                       dropped |-> r.dropped]
  <2>1. flusher' = [flusher EXCEPT ![f].pc = "flight", ![f].batch = batch]
    BY <1>6
  <2> HIDE DEF r
  <2>2. batch \in Batch /\ OnItsWay(batch, Recorded, acked, r)
    BY <1>4, <1>6, BatchGoes
  <2> HIDE DEF batch
  <2>3. flusher \in [Flushers -> [pc : Points, at : Nat, batch : Batch]]
    BY DEF TypesInv
  <2>4. /\ flusher' \in [Flushers -> [pc : Points, at : Nat, batch : Batch]]
        /\ flusher'[f].pc = "flight" /\ flusher'[f].batch = batch
        /\ \A g \in Flushers \ {f} : flusher'[g] = flusher[g]
    BY <2>1, <2>2, <2>3 DEF Points
  <2>5. TypesInv'
    BY <1>1, <1>6, <2>4 DEF TypesInv
  <2>6. ASSUME NEW g \in Flushers
        PROVE  /\ flusher'[g].pc \in {"select", "flight"} => flushLock' = g
               /\ flusher'[g].pc = "select" =>
                     now' >= BlockedUntil' /\ ~disabled' /\ flusher'[g].at \in 0..MaxTime
               /\ flusher'[g].pc # "flight" => flusher'[g].batch = NoBatch
    <3>1. CASE g = f
      BY <1>2, <1>6, <2>4, <3>1
    <3>2. CASE g # f
      <4>1. flushLock # g /\ flusher'[g] = flusher[g]
        BY <1>2, <2>4, <3>2
      <4>2. flusher[g].pc \notin {"select", "flight"}
        BY <4>1 DEF LockInv
      <4>3. QED BY <4>1, <4>2 DEF LockInv
    <3>3. QED BY <3>1, <3>2
  <2>7. ~closed' => flusher'["final"].pc = "none"
    <3>1. SUFFICES ASSUME ~closed PROVE flusher'["final"].pc = "none"
      BY <1>1
    <3>2. flusher["final"].pc = "none" /\ "final" \in Flushers
      BY <3>1 DEF LockInv, Flushers
    <3>3. "final" # f
      BY <1>1, <3>2
    <3>4. QED BY <2>4, <3>2, <3>3
  <2>8. LockInv'
    BY <2>6, <2>7 DEF LockInv
  <2>9. \A g \in Flushers : \/ flusher'[g].batch \in {flusher[g].batch, NoBatch}
                            \/ OnItsWay(flusher'[g].batch, Recorded, acked, store')
    BY <1>6, <2>2, <2>4
  <2>10. QED BY <1>1, <1>4, <1>6, <2>5, <2>8, <2>9, AgedStore
<1>7. CASE \/ Leave(f) /\ store' = store
           \/ store' = ready /\ Leave(f)
  BY <1>5, <1>7
<1>8. CASE /\ store' = ready /\ flushLock' = flushLock
           /\ \E es \in PrefixesUpTo(events, MaxBatchEvents),
                 rs \in PrefixesUpTo(rows, MaxBatchRows) :
                 flusher' = [flusher EXCEPT
                    ![f].pc = "flight",
                    ![f].batch = [events  |-> {es[i].request : i \in DOMAIN es},
                                  rows    |-> ToSet(rs),
                                  dropped |-> ready.dropped]]
  BY <1>6, <1>8
<1>9. QED BY <1>3, <1>7, <1>8

(* The store and the buffer without a batch. *)
LEMMA EventsWithoutIs ==
    ASSUME TypesInv, NEW batch \in Batch, events' = EventsWithout(batch)
    PROVE  /\ events' \in Seq(Event) /\ Len(events') <= MaxEvents
           /\ Buffered' = Buffered \ batch.events
<1> DEFINE gone == {e \in ToSet(events) : e.request \in batch.events}
<1>1. events \in Seq(Event) /\ Len(events) <= MaxEvents /\ MaxEvents \in Nat
  BY ReporterAssumption DEF TypesInv
<1>2. events' = Without(events, gone)
  BY DEF EventsWithout
<1> HIDE DEF gone
<1>3. events' \in Seq(Event) /\ ToSet(events') = ToSet(events) \ gone
      /\ Len(events') <= Len(events)
  BY <1>1, <1>2, WithoutIs
<1>4. Buffered = {e.request : e \in ToSet(events)}
  BY <1>1, BufferedIs DEF Buffered
<1>5. Buffered' = {e.request : e \in ToSet(events')}
  BY <1>3, BufferedIs DEF Buffered
<1>6. Buffered' = Buffered \ batch.events
  BY <1>3, <1>4, <1>5 DEF gone
<1>7. Len(events') <= MaxEvents
  <2>1. Len(events) \in Nat /\ Len(events') \in Nat
    BY <1>1, <1>3
  <2>2. QED BY <1>1, <1>3, <2>1
<1>8. QED BY <1>3, <1>6, <1>7

LEMMA StoreWithoutIs ==
    ASSUME StoreInv, AckInv, NEW batch \in Batch, OnItsWay(batch, Recorded, acked, store),
           NEW dropped \in Nat, store' = [StoreWithout(batch) EXCEPT !.dropped = dropped]
    PROVE  /\ StoreOK(store', Recorded, At) /\ store'.dropped = dropped
           /\ Counted' = Counted \ Within(batch.rows)
<1> DEFINE windows == WithoutRows(store.closed, batch.rows)
           retained == store.retained - Cardinality(batch.rows)
<1>1. /\ StoreOK(store, Recorded, At) /\ store \in Store
      /\ store.start \in -1..MaxTime /\ store.current \in Seq(Row)
      /\ store.closed \in Seq(Window) /\ store.retained \in Int
  BY DEF StoreInv, StoreOK, Store
<1>2. IsFiniteSet(batch.rows) /\ Cardinality(batch.rows) \in Nat
  BY FS_CardinalityType DEF OnItsWay
<1>3. windows \in Seq(Window) /\ retained \in Int
  BY <1>1, <1>2, WithoutRowsIs
<1>4. store' = StoreWith(store, store.start, store.current, windows, retained, dropped)
  BY <1>1 DEF StoreWithout, StoreWith, Store
<1> HIDE DEF windows, retained
<1>5. /\ store' \in Store /\ store'.start = store.start /\ store'.current = store.current
      /\ store'.closed = windows /\ store'.dropped = dropped
  <2> DEFINE start == store.start
             current == store.current
             p == StoreWith(store, start, current, windows, retained, dropped)
  <2>1. store \in Store /\ start \in -1..MaxTime /\ current \in Seq(Row)
    BY <1>1
  <2> HIDE DEF start, current
  <2>2. /\ p \in Store /\ p.start = start /\ p.current = current
        /\ p.closed = windows /\ p.dropped = dropped
    BY <1>3, <2>1, StoreWithIs
  <2> HIDE DEF p
  <2>3. store' = p
    BY <1>4 DEF p, start, current
  <2>4. QED BY <2>2, <2>3 DEF start, current
<1>6. StoreOK(store', Recorded, At) /\ RowsOf(store'.closed) = RowsOf(store.closed) \ batch.rows
  <2> DEFINE p == store'
  <2>1. /\ p \in Store /\ p.start = store.start /\ p.current = store.current
        /\ p.closed = WithoutRows(store.closed, batch.rows)
    BY <1>5 DEF windows
  <2> HIDE DEF p
  <2>2. StoreOK(p, Recorded, At) /\ RowsOf(p.closed) = RowsOf(store.closed) \ batch.rows
    BY <1>1, <2>1, StoreSheds
  <2>3. QED BY <2>2 DEF p
<1>7. Counted' = Within(AllRows(store'))
  BY DEF Counted, Rows, Within, AllRows
<1>8. AllRows(store') = (RowsOf(store.closed) \ batch.rows) \cup ToSet(store.current)
  BY <1>5, <1>6 DEF AllRows
<1>9. Counted' \subseteq Counted
  BY <1>7, <1>8, CountedIs DEF Within, AllRows
<1>10. Counted \subseteq Counted' \cup Within(batch.rows)
  BY <1>7, <1>8, CountedIs DEF Within, AllRows
<1>11. Counted' \cap Within(batch.rows) = {}
  BY <1>7, <1>8 DEF OnItsWay, Within, AllRows
<1>12. QED BY <1>5, <1>6, <1>9, <1>10, <1>11

LEMMA BatchLeaves ==
    ASSUME TypesInv, LockInv, AckInv, NEW f \in Flushers, flusher[f].pc = "flight",
           Leave(f), UNCHANGED <<disabled, closed>>
    PROVE  /\ LockInv'
           /\ flusher' \in [Flushers -> [pc : Points, at : Nat, batch : Batch]]
           /\ flushLock' \in Flushers \cup {"free"}
           /\ \A g \in Flushers : flusher'[g].batch = NoBatch
           /\ flusher[f].batch \in Batch
           /\ OnItsWay(flusher[f].batch, Recorded, acked, store)
<1>1. flushLock = f
  BY DEF LockInv
<1>2. /\ flusher' \in [Flushers -> [pc : Points, at : Nat, batch : Batch]]
      /\ flushLock' = "free" /\ flusher'[f].batch = NoBatch
      /\ \A g \in Flushers \ {f} : flusher'[g] = flusher[g]
  BY LeaveTypes
<1>3. LockInv'
  BY <1>1, LeaveLock
<1>4. \A g \in Flushers \ {f} : flusher[g].batch = NoBatch
  BY <1>1 DEF LockInv
<1>5. flusher[f].batch \in Batch
  BY Fields
<1>6. QED BY <1>2, <1>3, <1>4, <1>5 DEF AckInv

-----------------------------------------------------------------------------
LEMMA AcceptedKeeps ==
    ASSUME TypesInv, LockInv, StoreInv, AckInv, LossInv, NEW f \in Flushers,
           Accepted(f)
    PROVE  TypesInv' /\ LockInv' /\ StoreInv' /\ AckInv' /\ LossInv'
<1> DEFINE batch == flusher[f].batch
<1>1. /\ flusher[f].pc = "flight" /\ Leave(f) /\ events' = EventsWithout(batch)
      /\ store' = [StoreWithout(batch) EXCEPT !.dropped = DroppedAfter(batch)]
      /\ acked' = [events |-> acked.events \cup batch.events,
                   counts |-> acked.counts \cup Within(batch.rows)]
      /\ reported' = reported + batch.dropped
      /\ UNCHANGED <<now, request, disabled, closed>>
  BY DEF Accepted, Within
<1>2. /\ LockInv' /\ flusher' \in [Flushers -> [pc : Points, at : Nat, batch : Batch]]
      /\ flushLock' \in Flushers \cup {"free"}
      /\ \A g \in Flushers : flusher'[g].batch = NoBatch
      /\ batch \in Batch /\ OnItsWay(batch, Recorded, acked, store)
  BY <1>1, BatchLeaves
<1>3. timing' \in Times
  <2>1. PICK pause \in 0..1 :
          timing' = [timing EXCEPT !.backoff = MinBackoff, !.backoffUntil = 0,
                        !.paused = IF @ > now + pause THEN @ ELSE now + pause]
    BY DEF Accepted
  <2> DEFINE paused == IF timing.paused > now + pause THEN timing.paused ELSE now + pause
  <2>2. timing \in Times /\ now \in Nat /\ timing.paused \in Nat /\ MinBackoff \in Nat
    BY Fields, ReporterAssumption DEF TypesInv
  <2>3. paused \in Nat
    BY <2>2
  <2>4. timing' = [timing EXCEPT !.backoff = MinBackoff, !.backoffUntil = 0, !.paused = paused]
    BY <2>1
  <2> HIDE DEF paused
  <2>5. QED BY <2>2, <2>3, <2>4 DEF Times
<1> HIDE DEF batch
<1>4. /\ reported \in Nat /\ batch.dropped \in Nat /\ store.dropped \in Nat
      /\ batch.events \subseteq Requests
  BY <1>2 DEF TypesInv, Batch, StoreInv, StoreOK, Store
<1>5. /\ DroppedAfter(batch) \in Nat
      /\ batch.dropped + DroppedAfter(batch) >= store.dropped
  BY <1>4 DEF DroppedAfter
<1>6. /\ events' \in Seq(Event) /\ Len(events') <= MaxEvents
      /\ Buffered' = Buffered \ batch.events
  BY <1>1, <1>2, EventsWithoutIs
<1>7. /\ StoreOK(store', Recorded, At) /\ store'.dropped = DroppedAfter(batch)
      /\ Counted' = Counted \ Within(batch.rows)
  BY <1>1, <1>2, <1>5, StoreWithoutIs
<1>8. Recorded' = Recorded /\ At' = At /\ Recorded \subseteq Requests
  BY <1>1 DEF Recorded, At
<1>9. batch.events \subseteq Recorded /\ Within(batch.rows) \subseteq Recorded
  BY <1>2 DEF OnItsWay
<1>10. acked'.events = acked.events \cup batch.events
       /\ acked'.counts = acked.counts \cup Within(batch.rows)
  BY <1>1
<1>11. TypesInv'
  <2>1. acked' \in [events : SUBSET Requests, counts : SUBSET Requests]
    BY <1>1, <1>8, <1>9 DEF TypesInv
  <2>2. reported' \in Nat
    BY <1>1, <1>4
  <2>3. QED BY <1>1, <1>2, <1>3, <1>6, <2>1, <2>2 DEF TypesInv
<1>12. StoreInv'
  BY <1>7, <1>8 DEF StoreInv
<1>13. AckInv'
  <2>1. \A g \in Flushers : OnItsWay(flusher'[g].batch, Recorded', acked', store')
    BY <1>2, NothingOnItsWay
  <2>2. QED BY <1>6, <1>7, <1>8, <1>9, <1>10, <2>1 DEF AckInv
<1>14. LossInv'
  <2>1. SUFFICES ASSUME ~disabled
                 PROVE  Cardinality(LostEvents') + (IF LostCounts' = {} THEN 0 ELSE 1)
                           <= reported' + store'.dropped
    BY <1>1 DEF LossInv
  <2>2. Cardinality(LostEvents) + (IF LostCounts = {} THEN 0 ELSE 1)
           <= reported + store.dropped
    BY <2>1 DEF LossInv
  <2>3. LostEvents' \subseteq LostEvents
    BY <1>1, <1>6, <1>8, <1>10 DEF LostEvents
  <2>4. LostCounts' \subseteq LostCounts
    BY <1>7, <1>8, <1>10 DEF LostCounts
  <2>5. /\ IsFiniteSet(LostEvents) /\ IsFiniteSet(LostEvents')
        /\ Cardinality(LostEvents') <= Cardinality(LostEvents)
    BY <2>3, LostIsFinite, FS_Subset
  <2>6. Cardinality(LostEvents) \in Nat /\ Cardinality(LostEvents') \in Nat
    BY <2>5, FS_CardinalityType
  <2>7. reported' + store'.dropped >= reported + store.dropped
    BY <1>1, <1>4, <1>5, <1>7
  <2> DEFINE total == reported + store.dropped
             total2 == reported' + store'.dropped
             owed == IF LostCounts = {} THEN 0 ELSE 1
             owed2 == IF LostCounts' = {} THEN 0 ELSE 1
  <2>8. total \in Nat /\ total2 \in Nat /\ owed \in Nat /\ owed2 \in Nat /\ owed2 <= owed
    BY <1>1, <1>4, <1>5, <1>7, <2>4
  <2>9. Cardinality(LostEvents) + owed <= total /\ total2 >= total
    BY <2>2, <2>7
  <2> HIDE DEF total, total2, owed, owed2
  <2>10. Cardinality(LostEvents') + owed2 <= total2
    BY <2>5, <2>6, <2>8, <2>9
  <2>11. QED BY <2>10 DEF total2, owed2
<1>15. QED BY <1>2, <1>11, <1>12, <1>13, <1>14

LEMMA TooLargeKeeps ==
    ASSUME TypesInv, LockInv, StoreInv, AckInv, LossInv, NEW f \in Flushers,
           TooLarge(f)
    PROVE  TypesInv' /\ LockInv' /\ StoreInv' /\ AckInv' /\ LossInv'
<1> DEFINE batch == flusher[f].batch
           D == batch.events
           C == Cardinality(batch.rows)
           dropped == store.dropped + Cardinality(D) + C
<1>1. /\ flusher[f].pc = "flight" /\ Leave(f) /\ events' = EventsWithout(batch)
      /\ store' = [StoreWithout(batch) EXCEPT
                    !.dropped = @ + Cardinality(batch.events) + Cardinality(batch.rows)]
      /\ UNCHANGED <<now, request, timing, disabled, closed, acked, reported>>
  BY DEF TooLarge
<1>2. /\ LockInv' /\ flusher' \in [Flushers -> [pc : Points, at : Nat, batch : Batch]]
      /\ flushLock' \in Flushers \cup {"free"}
      /\ \A g \in Flushers : flusher'[g].batch = NoBatch
      /\ batch \in Batch /\ OnItsWay(batch, Recorded, acked, store)
  BY <1>1, BatchLeaves
<1>3. store \in Store
  BY DEF StoreInv, StoreOK
<1>4. store' = [StoreWithout(batch) EXCEPT !.dropped = dropped]
  <2>1. StoreWithout(batch).dropped = store.dropped
    BY <1>3 DEF StoreWithout, Store
  <2>2. QED BY <1>1, <2>1
<1> HIDE DEF batch
<1>5. IsFiniteSet(D) /\ IsFiniteSet(batch.rows) /\ D \subseteq Recorded
  <2>1. D \subseteq Recorded /\ IsFiniteSet(batch.rows)
    BY <1>2 DEF OnItsWay
  <2>2. QED BY <2>1, FS_Subset DEF StoreInv
<1>6. Cardinality(D) \in Nat /\ C \in Nat /\ (batch.rows = {} <=> C = 0)
  BY <1>5, FS_CardinalityType, FS_EmptySet
<1>7. reported \in Nat /\ store.dropped \in Nat
  BY <1>3 DEF TypesInv, Store
<1>8. dropped \in Nat
  BY <1>6, <1>7
<1>9. /\ events' \in Seq(Event) /\ Len(events') <= MaxEvents
      /\ Buffered' = Buffered \ batch.events
  BY <1>1, <1>2, EventsWithoutIs
<1>10. /\ StoreOK(store', Recorded, At) /\ store'.dropped = dropped
       /\ Counted' = Counted \ Within(batch.rows)
  <2> HIDE DEF dropped
  <2>1. QED BY <1>2, <1>4, <1>8, StoreWithoutIs
<1>11. Recorded' = Recorded /\ At' = At
  BY <1>1 DEF Recorded, At
<1>12. TypesInv'
  BY <1>1, <1>2, <1>9 DEF TypesInv
<1>13. StoreInv'
  BY <1>10, <1>11 DEF StoreInv
<1>14. AckInv'
  <2>1. \A g \in Flushers : OnItsWay(flusher'[g].batch, Recorded', acked', store')
    BY <1>2, NothingOnItsWay
  <2>2. QED BY <1>1, <1>9, <1>10, <1>11, <2>1 DEF AckInv
<1>15. LossInv'
  <2>1. SUFFICES ASSUME ~disabled
                 PROVE  Cardinality(LostEvents') + (IF LostCounts' = {} THEN 0 ELSE 1)
                           <= reported' + store'.dropped
    BY <1>1 DEF LossInv
  <2> DEFINE E == LostEvents
             L == LostCounts
             E2 == LostEvents'
             L2 == LostCounts'
             total == reported + store.dropped
             total2 == reported' + store'.dropped
  <2>2. Cardinality(E) + (IF L = {} THEN 0 ELSE 1) <= total
    BY <2>1 DEF LossInv
  <2>3. IsFiniteSet(E)
    BY LostIsFinite
  <2>4. E2 \subseteq E \cup D
    BY <1>1, <1>9, <1>11 DEF LostEvents
  <2>5. batch.rows = {} => L2 \subseteq L
    BY <1>1, <1>10, <1>11 DEF LostCounts, Within
  <2>6. total \in Nat /\ total2 \in Nat /\ total2 = total + Cardinality(D) + C
    <3> HIDE DEF D, C
    <3>1. QED BY <1>1, <1>6, <1>7, <1>10
  <2> HIDE DEF E, L, E2, L2, total, total2, D, C
  <2>7. total2 >= total + Cardinality(D) /\ (L2 \subseteq L \/ total2 > total + Cardinality(D))
    BY <1>6, <2>5, <2>6
  <2>8. Cardinality(E2) + (IF L2 = {} THEN 0 ELSE 1) <= total2
    <3>1. IsFiniteSet(D)
      BY <1>5
    <3>2. total \in Nat /\ total2 \in Nat
      BY <2>6
    <3>3. QED BY <2>2, <2>3, <2>4, <2>7, <3>1, <3>2, Owes
  <2>9. QED BY <2>8 DEF E2, L2, total2
<1>16. QED BY <1>2, <1>12, <1>13, <1>14, <1>15

LEMMA DisableKeeps ==
    ASSUME TypesInv, LockInv, StoreInv, AckInv, NEW f \in Flushers, Disable(f)
    PROVE  TypesInv' /\ LockInv' /\ StoreInv' /\ AckInv' /\ LossInv'
<1>1. /\ flusher[f].pc = "flight" /\ disabled' = TRUE /\ events' = <<>> /\ Leave(f)
      /\ store' = [store EXCEPT !.current = <<>>, !.closed = <<>>,
                                !.retained = 0, !.dropped = 0]
      /\ UNCHANGED <<now, request, timing, closed, acked, reported>>
  BY DEF Disable
<1>2. flushLock = f
  BY <1>1 DEF LockInv
<1>3. /\ flusher' \in [Flushers -> [pc : Points, at : Nat, batch : Batch]]
      /\ flushLock' = "free" /\ flusher'[f].batch = NoBatch
      /\ \A g \in Flushers \ {f} : flusher'[g] = flusher[g]
  BY <1>1, LeaveTypes
<1>4. LockInv'
  BY <1>1, <1>2, LeaveLock
<1>5. \A g \in Flushers : flusher'[g].batch = NoBatch
  <2>1. \A g \in Flushers \ {f} : flusher[g].batch = NoBatch
    BY <1>2 DEF LockInv
  <2>2. QED BY <1>3, <2>1
<1>6. events' \in Seq(Event) /\ Len(events') <= MaxEvents
  BY <1>1, ReporterAssumption
<1>7. TypesInv'
  BY <1>1, <1>3, <1>6 DEF TypesInv
<1>8. store' \in Store /\ store'.current = <<>> /\ store'.closed = <<>>
  <2> DEFINE start == store.start
             nothing == <<>>
             zero == 0
             p == StoreWith(store, start, nothing, nothing, zero, zero)
  <2>1. store \in Store /\ start \in -1..MaxTime
    BY DEF StoreInv, StoreOK, Store
  <2>2. nothing \in Seq(Row) /\ nothing \in Seq(Window) /\ zero \in Int /\ zero \in Nat
    OBVIOUS
  <2>3. store' = p
    BY <1>1, <2>1 DEF StoreWith, Store
  <2> HIDE DEF start, nothing, zero
  <2>4. p \in Store /\ p.current = nothing /\ p.closed = nothing
    BY <2>1, <2>2, StoreWithIs
  <2> HIDE DEF p
  <2>5. QED BY <2>3, <2>4 DEF nothing
<1>9. StoreOK(store', Recorded', At') /\ AllRows(store') = {}
  <2> DEFINE p == store'
             R == Recorded'
             at == At'
  <2>1. p \in Store /\ p.current = <<>> /\ p.closed = <<>>
    BY <1>8
  <2> HIDE DEF p, R, at
  <2>2. StoreOK(p, R, at) /\ AllRows(p) = {}
    BY <2>1, EmptyStore
  <2>3. QED BY <2>2 DEF p, R, at
<1>10. Recorded' = Recorded
  BY <1>1 DEF Recorded
<1>11. StoreInv'
  BY <1>9, <1>10 DEF StoreInv
<1>12. Buffered' = {} /\ Counted' = {}
  BY <1>1, <1>9 DEF Buffered, Counted, Rows, AllRows
<1>13. AckInv'
  <2>1. \A g \in Flushers : OnItsWay(flusher'[g].batch, Recorded', acked', store')
    BY <1>5, NothingOnItsWay
  <2>2. QED BY <1>1, <1>10, <1>12, <2>1 DEF AckInv
<1>14. LossInv'
  BY <1>1 DEF LossInv
<1>15. QED BY <1>4, <1>7, <1>11, <1>13, <1>14

LEMMA ForkRecordsNothing ==
    ASSUME TypesInv, Fork
    PROVE  /\ request' \in [Requests -> Running \cup Finished]
           /\ Recorded' = Recorded
<1>1. PICK survivor \in Requests :
        request' = [r \in Requests |->
            IF request[r].pc = "recorded" \/ (r = survivor /\ request[r].pc = "running")
            THEN request[r]
            ELSE [request[r] EXCEPT !.pc = "ignored"]]
  BY DEF Fork
<1>2. request \in [Requests -> Running \cup Finished]
  BY DEF TypesInv
<1>3. \A r \in Requests : [request[r] EXCEPT !.pc = "ignored"] \in Running \cup Finished
  <2> TAKE r \in Requests
  <2>1. CASE request[r] \in Running
    BY <2>1 DEF Running
  <2>2. CASE request[r] \in Finished
    BY <2>2 DEF Finished
  <2>3. QED BY <1>2, <2>1, <2>2
<1>4. request' \in [Requests -> Running \cup Finished]
  BY <1>1, <1>2, <1>3
<1>5. ASSUME NEW r \in Requests
      PROVE  request'[r].pc = "recorded" <=> request[r].pc = "recorded"
  <2>1. CASE request'[r] = request[r]
    BY <2>1
  <2>2. CASE request'[r] # request[r]
    <3>1. /\ request'[r] = [request[r] EXCEPT !.pc = "ignored"]
          /\ request[r].pc # "recorded"
      BY <1>1, <2>2
    <3>2. request'[r].pc = "ignored"
      BY <1>2, <3>1 DEF Running, Finished
    <3>3. QED BY <3>1, <3>2
  <2>3. QED BY <2>1, <2>2
<1>6. Recorded' = Recorded
  BY <1>5 DEF Recorded
<1>7. QED BY <1>4, <1>6

(* What the parent recorded is not the child's to deliver. *)
LEMMA ForkKeeps ==
    ASSUME TypesInv, StoreInv, LossInv, Fork
    PROVE  TypesInv' /\ LockInv' /\ StoreInv' /\ AckInv' /\ LossInv'
<1>1. /\ events' = <<>> /\ store' = NoItems /\ timing' = NoTimes
      /\ disabled' = FALSE /\ closed' = FALSE /\ flushLock' = "free" /\ flusher' = NoThreads
      /\ UNCHANGED <<now, reported>>
  BY DEF Fork
<1>3. reported \in Nat /\ now \in 0..MaxTime
  BY DEF TypesInv
<1>5. request' \in [Requests -> Running \cup Finished]
  BY ForkRecordsNothing
<1>7. Recorded' = Recorded /\ Recorded \subseteq Requests
  BY ForkRecordsNothing DEF Recorded
<1>8. acked' = [events |-> Recorded, counts |-> Recorded]
  BY DEF Fork, Recorded
<1>9. TypesInv'
  <2>1. events' \in Seq(Event) /\ Len(events') <= MaxEvents
    BY <1>1, ReporterAssumption
  <2>2. acked' \in [events : SUBSET Requests, counts : SUBSET Requests]
    BY <1>7, <1>8
  <2>3. QED BY <1>1, <1>3, <1>5, <2>1, <2>2, NewReporter DEF TypesInv
<1>10. LockInv'
  BY <1>1, NewReporter DEF LockInv, Flushers
<1>11. StoreOK(store', Recorded', At') /\ AllRows(store') = {} /\ store'.dropped = 0
  <2> DEFINE R == Recorded'
             at == At'
  <2> HIDE DEF R, at
  <2>1. StoreOK(NoItems, R, at) /\ AllRows(NoItems) = {}
    BY NewReporter, EmptyStore
  <2>2. QED BY <1>1, <2>1, NewReporter DEF R, at
<1>12. StoreInv'
  BY <1>7, <1>11 DEF StoreInv
<1>13. Buffered' = {} /\ Counted' = {}
  BY <1>1, <1>11 DEF Buffered, Counted, Rows, AllRows
<1>14. AckInv'
  <2>1. \A f \in Flushers : OnItsWay(flusher'[f].batch, Recorded', acked', store')
    BY <1>1, NewReporter, NothingOnItsWay
  <2>2. QED BY <1>7, <1>8, <1>13, <2>1 DEF AckInv
<1>15. LossInv'
  <2>1. LostEvents' = {} /\ LostCounts' = {}
    BY <1>7, <1>8 DEF LostEvents, LostCounts
  <2>2. QED BY <1>1, <1>3, <1>11, <2>1, FS_EmptySet DEF LossInv
<1>16. QED BY <1>9, <1>10, <1>12, <1>14, <1>15

-----------------------------------------------------------------------------
LEMMA StepReporter == ReporterInv /\ [Next]_vars => ReporterInv'
<1> SUFFICES ASSUME TypesInv, LockInv, StoreInv, AckInv, LossInv, [Next]_vars
             PROVE  TypesInv' /\ LockInv' /\ StoreInv' /\ AckInv' /\ LossInv'
  BY DEF ReporterInv
<1>1. ASSUME TypesInv' /\ LockInv' /\ Quiet
      PROVE  TypesInv' /\ LockInv' /\ StoreInv' /\ AckInv' /\ LossInv'
  BY <1>1, QuietKeeps
<1>2. ASSUME NEW r \in Requests, FinishRequest(r)
      PROVE  TypesInv' /\ LockInv' /\ Quiet
  BY <1>2, FinishRequestIsQuiet
<1>3. ASSUME NEW r \in Requests, RecordRequest(r)
      PROVE  TypesInv' /\ LockInv' /\ StoreInv' /\ AckInv' /\ LossInv'
  BY <1>3, RecordRequestKeeps
<1>4. ASSUME WorkerTop \/ WorkerWakes \/ WorkerClears \/ WorkerRests
      PROVE  TypesInv' /\ LockInv' /\ Quiet
  BY <1>4, WorkerIsQuiet
<1>5. ASSUME NEW f \in Flushers, Flush(f)
      PROVE  TypesInv' /\ LockInv' /\ StoreInv' /\ AckInv' /\ LossInv'
  <2>1. CASE BeginFlush(f)
    BY <1>1, <2>1, BeginFlushIsQuiet
  <2>2. CASE SelectBatch(f)
    BY <2>2, SelectBatchKeeps
  <2>3. CASE Accepted(f)
    BY <2>3, AcceptedKeeps
  <2>4. CASE Disable(f)
    BY <2>4, DisableKeeps
  <2>5. CASE TooLarge(f)
    BY <2>5, TooLargeKeeps
  <2>6. CASE BackOff(f)
    BY <1>1, <2>6, BackOffIsQuiet
  <2>7. QED BY <1>5, <2>1, <2>2, <2>3, <2>4, <2>5, <2>6 DEF Flush
<1>6. CASE Close
  BY <1>1, <1>6, CloseIsQuiet
<1>7. CASE Fork
  BY <1>7, ForkKeeps
<1>8. CASE Tick
  BY <1>1, <1>8, TickIsQuiet
<1>9. CASE UNCHANGED vars
  <2>1. TypesInv' /\ LockInv' /\ Quiet
    BY <1>9 DEF vars, TypesInv, LockInv, BlockedUntil, Quiet, Recorded
  <2>2. QED BY <1>1, <2>1
<1>10. "worker" \in Flushers /\ "final" \in Flushers
  BY DEF Flushers
<1>11. QED
  BY <1>1, <1>2, <1>3, <1>4, <1>5, <1>6, <1>7, <1>8, <1>9, <1>10 DEF Next, Worker

(* The reporter's invariant, for every value of the constants: whatever    *)
(* the order of requests, flushers, answers, close() and forks.            *)
THEOREM ReporterInvariance == Spec => []ReporterInv
BY InitReporter, StepReporter, PTL DEF Spec

(***************************************************************************)
(* What is recorded is delivered, still held, or counted as dropped, and   *)
(* the server is or will be told of what was: also of what is lost while a *)
(* report is on its way (_remove_selected_locked, _handle_response).       *)
(***************************************************************************)
THEOREM LossesAreTold == Spec => []LossIsReported
<1>1. ReporterInv => LossIsReported
  BY Zenon DEF ReporterInv, LossInv, LossIsReported, LostEvents, LostCounts
<1>2. QED BY <1>1, ReporterInvariance, PTL

(***************************************************************************)
(* What a 202 confirmed is neither held nor sent again, and no request is  *)
(* counted in two rows, through roll-overs, pruning and delivery in any    *)
(* order (_remove_selected_locked).                                        *)
(***************************************************************************)
THEOREM DeliveredIsDone == Spec => []ConfirmedIsDone
<1>1. ASSUME ReporterInv PROVE ConfirmedIsDone
  <2>1. AckInv /\ StoreOK(store, Recorded, At)
    BY <1>1 DEF ReporterInv, StoreInv
  <2>2. acked.events \cap Buffered = {} /\ acked.counts \cap Counted = {}
    BY <2>1 DEF AckInv
  <2>3. ASSUME NEW f \in Flushers
        PROVE  /\ flusher[f].batch.events \cap acked.events = {}
               /\ \A row \in flusher[f].batch.rows : row.requests \cap acked.counts = {}
    <3>1. OnItsWay(flusher[f].batch, Recorded, acked, store)
      BY <2>1 DEF AckInv
    <3>2. QED BY <3>1 DEF OnItsWay, Within
  <2>4. ASSUME NEW one \in Rows, NEW other \in Rows, one # other
        PROVE  one.requests \cap other.requests = {}
    <3>1. CASE one \in RowsOf(store.closed) /\ other \in RowsOf(store.closed)
      BY <2>1, <2>4, <3>1 DEF StoreOK, Apart
    <3>2. CASE one \in ToSet(store.current) /\ other \in ToSet(store.current)
      <4>1. PICK i \in DOMAIN store.current, j \in DOMAIN store.current :
               one = store.current[i] /\ other = store.current[j]
        BY <3>2 DEF ToSet
      <4>2. store.current \in Seq(Row) /\ DOMAIN store.current = 1..Len(store.current)
        BY <2>1 DEF StoreOK, Store
      <4>3. Sound(store.current, Within(ToSet(store.current)))
        BY <2>1 DEF StoreOK
      <4>4. i # j
        BY <2>4, <4>1
      <4>5. QED BY <4>1, <4>2, <4>3, <4>4 DEF Sound
    <3>3. CASE \/ one \in RowsOf(store.closed) /\ other \in ToSet(store.current)
               \/ other \in RowsOf(store.closed) /\ one \in ToSet(store.current)
      <4>1. Within(RowsOf(store.closed)) \cap Within(ToSet(store.current)) = {}
        BY <2>1 DEF StoreOK
      <4>2. QED BY <3>3, <4>1 DEF Within
    <3>4. QED BY <2>4, <3>1, <3>2, <3>3 DEF Rows
  <2>5. QED BY <2>2, <2>3, <2>4 DEF ConfirmedIsDone
<1>2. QED BY <1>1, ReporterInvariance, PTL

(***************************************************************************)
(* No request is counted in a minute before the one it ended in, and the   *)
(* reporter's state keeps its types, though request threads and flushers   *)
(* read the clock before they take the lock (_roll_window_locked).         *)
(***************************************************************************)
THEOREM MinutesAreTrue == Spec => []NotBackdated
<1>1. ASSUME ReporterInv PROVE NotBackdated
  <2>1. TypesInv /\ AckInv /\ StoreOK(store, Recorded, At)
    BY <1>1 DEF ReporterInv, StoreInv
  <2>2. ReporterTypeOK
    <3>1. \A r \in Requests : request[r].pc \in {"running", "recording", "recorded", "ignored"}
      BY <2>1 DEF TypesInv, Running, Finished
    <3>2. Buffered \subseteq Recorded /\ Counted \subseteq Recorded
      BY <2>1 DEF AckInv
    <3>3. store.start \in -1..MaxTime /\ store.dropped \in Nat
      BY <2>1 DEF StoreOK, Store
    <3>4. \A f \in Flushers : flusher[f].pc \in
             {"none", "top", "wait", "clear", "want", "select", "flight", "rest", "exited"}
      BY <2>1 DEF TypesInv, Points
    <3>5. QED BY <2>1, <3>1, <3>2, <3>3, <3>4 DEF ReporterTypeOK, TypesInv
  <2>3. Counted \subseteq Requests
    BY <2>1 DEF AckInv, Recorded
  <2>4. \A row \in Rows : \A r \in row.requests : r \in Requests /\ At[r] = request[r].at
    BY <2>3 DEF Counted, At
  <2>5. ASSUME NEW row \in ToSet(store.current), NEW r \in row.requests
        PROVE  request[r].at <= store.start
    <3>1. r \in Within(ToSet(store.current)) /\ At[r] = request[r].at
      BY <2>4 DEF Within, Rows
    <3>2. QED BY <2>1, <3>1 DEF StoreOK, Punctual
  <2>6. ASSUME NEW i \in DOMAIN store.closed, NEW row \in ToSet(store.closed[i].rows),
               NEW r \in row.requests
        PROVE  request[r].at <= store.closed[i].start
    <3>1. row \in Rows
      BY DEF Rows, RowsOf
    <3>2. r \in Within(ToSet(store.closed[i].rows)) /\ At[r] = request[r].at
      BY <2>4, <3>1 DEF Within
    <3>3. store.closed \in Seq(Window)
      BY <2>1 DEF StoreOK, Store
    <3>4. i \in 1..Len(store.closed)
      BY <3>3
    <3>5. QED BY <2>1, <3>2, <3>4 DEF StoreOK, Punctual
  <2>7. QED BY <2>2, <2>5, <2>6 DEF NotBackdated
<1>2. QED BY <1>1, ReporterInvariance, PTL

-----------------------------------------------------------------------------
LEMMA OnlySelectingSends ==
    ASSUME TypesInv, Next, NEW f \in Flushers,
           flusher[f].pc # "flight", flusher'[f].pc = "flight"
    PROVE  flusher[f].pc = "select" /\ SelectBatch(f)
<1>1. flusher \in [Flushers -> [pc : Points, at : Nat, batch : Batch]]
  BY DEF TypesInv
<1>2. "worker" \in Flushers /\ "final" \in Flushers
  BY DEF Flushers
<1>3. ASSUME NEW g \in Flushers, Leave(g)
      PROVE  FALSE
  <2>1. After(g) # "flight"
    BY DEF After
  <2>2. QED BY <1>3, <2>1, LeaveTypes
<1>4. flusher' # flusher
  OBVIOUS
<1>5. ASSUME NEW r \in Requests, RecordRequest(r)
      PROVE  FALSE
  <2>1. flusher' = flusher \/ flusher' = [flusher EXCEPT !["worker"].pc = "top"]
    BY <1>5, Zenon DEF RecordRequest
  <2>2. QED BY <1>1, <1>2, <2>1
<1>6. ~(WorkerTop \/ WorkerWakes \/ WorkerClears \/ WorkerRests)
  BY <1>1, <1>2 DEF WorkerTop, WorkerWakes, WorkerClears, WorkerRests
<1>7. ~Close
  BY <1>1, <1>2 DEF Close
<1>8. ~Fork
  BY NewReporter DEF Fork
<1>9. ASSUME NEW g \in Flushers, Flush(g)
      PROVE  flusher[f].pc = "select" /\ SelectBatch(f)
  <2>1. CASE BeginFlush(g)
    <3>1. flusher' = [flusher EXCEPT ![g].pc = "select", ![g].at = now]
      BY <1>3, <2>1 DEF BeginFlush
    <3>2. QED BY <1>1, <3>1
  <2>2. CASE SelectBatch(g)
    <3>1. flusher[g].pc = "select"
      BY <2>2 DEF SelectBatch
    <3>2. \E batch : flusher' = [flusher EXCEPT ![g].pc = "flight", ![g].batch = batch]
      BY <1>3, <2>2, Zenon DEF SelectBatch
    <3>3. f = g
      BY <1>1, <3>2
    <3>4. QED BY <2>2, <3>1, <3>3
  <2>3. CASE Accepted(g)
    BY <1>3, <2>3 DEF Accepted
  <2>4. CASE Disable(g) \/ TooLarge(g) \/ BackOff(g)
    BY <1>3, <2>4 DEF Disable, TooLarge, BackOff
  <2>5. QED BY <1>9, <2>1, <2>2, <2>3, <2>4 DEF Flush
<1>10. CASE Tick \/ \E r \in Requests : FinishRequest(r)
  BY <1>4, <1>10 DEF Tick, FinishRequest
<1>11. QED
  BY <1>2, <1>5, <1>6, <1>7, <1>8, <1>9, <1>10 DEF Next, Worker

(***************************************************************************)
(* No batch leaves during a pause or a backoff, nor after telemetry was    *)
(* switched off, nor while another is on its way, though the lock is       *)
(* released between the look and the sending (_flush_once).                *)
(***************************************************************************)
THEOREM PausesHold == Spec => PausesAreHonoured
<1> DEFINE Sends ==
      \A f \in Flushers :
          flusher[f].pc # "flight" /\ flusher'[f].pc = "flight" =>
              /\ now >= BlockedUntil /\ ~disabled
              /\ \A g \in Flushers : flusher[g].pc # "flight"
<1>1. ReporterInv /\ [Next]_vars => [Sends]_vars
  <2> SUFFICES ASSUME ReporterInv, Next, NEW f \in Flushers,
                      flusher[f].pc # "flight", flusher'[f].pc = "flight"
               PROVE  /\ now >= BlockedUntil /\ ~disabled
                      /\ \A g \in Flushers : flusher[g].pc # "flight"
    OBVIOUS
  <2>1. TypesInv /\ LockInv
    BY DEF ReporterInv
  <2>2. flusher[f].pc = "select"
    BY <2>1, OnlySelectingSends
  <2>3. flushLock = f
    BY <2>1, <2>2 DEF LockInv
  <2>4. QED BY <2>1, <2>2, <2>3 DEF LockInv
<1>2. Spec => [][Sends]_vars
  BY <1>1, ReporterInvariance, PTL DEF Spec
<1>3. QED BY <1>2 DEF PausesAreHonoured

-----------------------------------------------------------------------------
LEMMA OnlyRecordingRecords ==
    ASSUME TypesInv, LockInv, Next, NEW r \in Requests,
           request[r].pc # "recorded", request'[r].pc = "recorded"
    PROVE  \E q \in Requests : RecordRequest(q) /\ Accepts
<1>1. Recorded' # Recorded /\ request' # request
  BY DEF Recorded
<1>2. ~Quiet
  BY <1>1 DEF Quiet
<1>3. ~(\E q \in Requests : FinishRequest(q))
  BY <1>2, FinishRequestIsQuiet
<1>4. ~(WorkerTop \/ WorkerWakes \/ WorkerClears \/ WorkerRests)
  BY <1>2, WorkerIsQuiet
<1>5. ASSUME NEW f \in Flushers PROVE ~Flush(f)
  <2>1. ~BeginFlush(f) /\ ~BackOff(f)
    BY <1>2, BeginFlushIsQuiet, BackOffIsQuiet
  <2>2. ~SelectBatch(f)
    BY <1>1, Zenon DEF SelectBatch
  <2>3. ~Accepted(f)
    BY <1>1, Zenon DEF Accepted
  <2>4. ~Disable(f) /\ ~TooLarge(f)
    BY <1>1, Zenon DEF Disable, TooLarge
  <2>5. QED BY <2>1, <2>2, <2>3, <2>4 DEF Flush
<1>6. ~Close /\ ~Tick
  BY <1>2, CloseIsQuiet, TickIsQuiet
<1>7. ~Fork
  BY <1>1, ForkRecordsNothing
<1>8. ASSUME NEW q \in Requests, RecordRequest(q), ~Accepts
      PROVE  FALSE
  <2>1. /\ request' = [request EXCEPT ![q].pc = "ignored"]
        /\ request \in [Requests -> Running \cup Finished]
    BY <1>8 DEF RecordRequest, TypesInv
  <2>2. request[q] \in Finished
    BY <1>8, Fields DEF RecordRequest
  <2>3. request'[q].pc = "ignored"
    BY <2>1, <2>2 DEF Finished
  <2>4. QED BY <2>1, <2>3
<1>9. "worker" \in Flushers /\ "final" \in Flushers
  BY DEF Flushers
<1>10. QED BY <1>3, <1>4, <1>5, <1>6, <1>7, <1>8, <1>9 DEF Next, Worker

(***************************************************************************)
(* A full buffer drops a failure only when it holds nothing but failures   *)
(* (_append_event_locked).                                                 *)
(***************************************************************************)
THEOREM FailuresAreKept == Spec => FailuresOutliveSuccesses
<1> DEFINE Kept ==
      \A i, j \in DOMAIN events :
          /\ \E r \in Requests : request[r].pc # request'[r].pc /\ request'[r].pc = "recorded"
          /\ events[i].kind = "failure" /\ events[i].request \notin Buffered'
          => events[j].kind = "failure"
<1>1. ReporterInv /\ [Next]_vars => [Kept]_vars
  <2> SUFFICES ASSUME ReporterInv, Next, NEW i \in DOMAIN events, NEW j \in DOMAIN events,
                      NEW r \in Requests,
                      request[r].pc # request'[r].pc, request'[r].pc = "recorded",
                      events[i].kind = "failure", events[i].request \notin Buffered'
               PROVE  events[j].kind = "failure"
    OBVIOUS
  <2>1. TypesInv /\ LockInv /\ events \in Seq(Event) /\ Len(events) <= MaxEvents
    BY DEF ReporterInv, TypesInv
  <2>2. PICK q \in Requests : RecordRequest(q) /\ Accepts
    BY <2>1, OnlyRecordingRecords
  <2> DEFINE e == [request |-> q, kind |-> request[q].kind]
  <2>3. request[q] \in Finished /\ Record(q)
    BY <2>1, <2>2, Fields DEF RecordRequest
  <2>4. DOMAIN events = 1..Len(events) /\ events[i] \in ToSet(events)
    BY <2>1 DEF ToSet
  <2>5. Buffered = {x.request : x \in ToSet(events)}
    BY <2>1, BufferedIs DEF Buffered
  <2>6. events' = AppendEvent(e) /\ e \in Event
    <3>1. request[q].kind # "none"
      <4>1. events' # events
        BY <2>4, <2>5 DEF Buffered
      <4>2. QED BY <2>3, <4>1 DEF Record
    <3>2. QED BY <2>3, <3>1 DEF Record, Event, Finished
  <2> HIDE DEF e
  <2>7. /\ events' \in Seq(Event)
        /\ ~Overflow => ToSet(events') = ToSet(events) \cup {e}
        /\ Overflow => \E k \in 1..Len(events) :
              /\ ToSet(events) \subseteq ToSet(events') \cup {events[k]}
              /\ events[k].kind = "ok" \/ \A m \in 1..Len(events) : events[m].kind # "ok"
    BY <2>1, <2>6, AppendEventIs
  <2>8. events[i] \notin ToSet(events')
    <3>1. Buffered' = {x.request : x \in ToSet(events')}
      BY <2>7, BufferedIs DEF Buffered
    <3>2. QED BY <3>1
  <2>9. \A m \in 1..Len(events) : events[m].kind # "ok"
    BY <2>4, <2>7, <2>8
  <2>10. events[j] \in Event
    BY <2>1, <2>4, ElementOfSeq
  <2>11. events[j].kind \in {"ok", "failure"}
    BY <2>10, ReporterAssumption DEF Event
  <2>12. QED BY <2>4, <2>9, <2>11
<1>2. Spec => [][Kept]_vars
  BY <1>1, ReporterInvariance, PTL DEF Spec
<1>3. QED BY <1>2 DEF FailuresOutliveSuccesses
=============================================================================
