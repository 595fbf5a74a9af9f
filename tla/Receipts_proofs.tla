--------------------------- MODULE Receipts_proofs ---------------------------
(***************************************************************************)
(* What a verified receipt says, for streams of any length and payload,    *)
(* cut anywhere, and for any receipts that were issued.  The digest is a   *)
(* fold over the events; it is unrolled into its steps (DigestRuns), and   *)
(* Walked says where the walk stands after each of them as long as no      *)
(* check failed.                                                           *)
(***************************************************************************)
EXTENDS Receipts, SequenceTheorems, WellFoundedInduction, TLAPS

(* What a digest is fed, and the states of the walk. *)
Lines == {"", "named"} \cup Payloads

Digests == [ok : BOOLEAN, done : BOOLEAN, receipt : BOOLEAN, lines : Seq(Lines), events : Nat]

-----------------------------------------------------------------------------
(* A set of numbers has a least one. *)
LEMMA LeastExists ==
    ASSUME NEW I \in SUBSET Nat, I # {}
    PROVE  \E m \in I : \A i \in I : m <= i
<1> DEFINE R == {ss \in Nat \X Nat : ss[1] < ss[2]}
<1>1. IsWellFoundedOn(R, Nat)
  BY Zenon, NatLessThanWellFounded DEF OpToRel
<1>2. PICK m \in I : \A i \in I : <<i, m>> \notin R
  <2> HIDE DEF R
  <2> QED BY <1>1, WFMin
<1>3. ASSUME NEW i \in I PROVE m <= i
  <2>1. i \in Nat /\ m \in Nat /\ <<i, m>> \in Nat \X Nat /\ <<i, m>> \notin R
    BY <1>2
  <2>2. ~(i < m)
    BY <2>1
  <2>3. QED BY <2>1, <2>2
<1>4. QED BY <1>3

(* A set of numbers with 0 and every successor has them all. *)
LEMMA SetInduction ==
    ASSUME NEW T \in SUBSET Nat, 0 \in T, \A n \in T : n + 1 \in T
    PROVE  T = Nat
<1> SUFFICES ASSUME Nat \ T # {} PROVE FALSE
  OBVIOUS
<1>1. PICK m \in Nat \ T : \A n \in Nat \ T : m <= n
  BY LeastExists
<1>2. m # 0 /\ m - 1 \in Nat /\ (m - 1) + 1 = m /\ ~(m <= m - 1)
  BY <1>1
<1>3. m - 1 \in T
  BY <1>1, <1>2
<1>4. m \in T
  BY <1>2, <1>3
<1>5. QED BY <1>1, <1>4

(* The last of the numbers up to n. *)
LEMMA LastIsMax ==
    ASSUME NEW n \in Nat, NEW T \in SUBSET (1..n), n \in T
    PROVE  Max(T) = n
<1>1. \A i \in T : i \in Nat /\ n >= i
  OBVIOUS
<1>2. Max(T) \in T /\ \A i \in T : Max(T) >= i
  <2>1. \E x \in T : \A y \in T : x >= y
    BY <1>1
  <2>2. QED BY <2>1 DEF Max
<1> DEFINE m == Max(T)
<1>3. m \in Nat /\ m >= n /\ n >= m
  BY <1>1, <1>2
<1> HIDE DEF m
<1>4. m = n
  BY <1>3
<1>5. QED BY <1>4 DEF m

-----------------------------------------------------------------------------
(* I[T] is the digest of the events at the places T, of the first n.       *)
DigestTable(I, events, domain, expected, n) ==
    I = [T \in SUBSET (1..n) |->
            IF T = {} THEN Start
            ELSE DigestEvent(I[T \ {Max(T)}], events[Max(T)], domain, expected)]

(* There is such a table, row by row. *)
LEMMA TableExists ==
    ASSUME NEW events, NEW domain, NEW expected, NEW n \in Nat
    PROVE  \E I : DigestTable(I, events, domain, expected, n)
<1> DEFINE Add(d, e) == DigestEvent(d, e, domain, expected)
           N == {m \in Nat : \E I : DigestTable(I, events, domain, expected, m)}
<1>1. 0 \in N
  <2> DEFINE I == [T \in SUBSET (1..0) |-> Start]
  <2>1. \A T \in SUBSET (1..0) : T = {}
    OBVIOUS
  <2>2. I = [T \in SUBSET (1..0) |->
               IF T = {} THEN Start ELSE Add(I[T \ {Max(T)}], events[Max(T)])]
    BY <2>1
  <2> HIDE DEF I
  <2>3. QED BY <2>2 DEF DigestTable
<1>2. ASSUME NEW m \in N PROVE m + 1 \in N
  <2>1. m \in Nat
    OBVIOUS
  <2>2. PICK I : DigestTable(I, events, domain, expected, m)
    OBVIOUS
  <2> DEFINE H == [T \in SUBSET (1..(m + 1)) |->
                      IF m + 1 \in T THEN Add(I[T \ {m + 1}], events[m + 1]) ELSE I[T]]
             Value(T) == IF T = {} THEN Start ELSE Add(H[T \ {Max(T)}], events[Max(T)])
  <2>3. \A T \in SUBSET (1..m) : I[T] = IF T = {} THEN Start ELSE Add(I[T \ {Max(T)}], events[Max(T)])
    BY <2>2 DEF DigestTable
  <2>4. \A T \in SUBSET (1..(m + 1)) : m + 1 \notin T => T \in SUBSET (1..m)
    BY <2>1
  <2>5. \A T \in SUBSET (1..(m + 1)) : H[T] =
            IF m + 1 \in T THEN Add(I[T \ {m + 1}], events[m + 1]) ELSE I[T]
    OBVIOUS
  <2>6. H = [T \in SUBSET (1..(m + 1)) |-> H[T]]
    OBVIOUS
  <2> HIDE DEF H, Add
  <2>7. ASSUME NEW T \in SUBSET (1..(m + 1)) PROVE H[T] = Value(T)
    <3>1. CASE m + 1 \in T
      <4>1. Max(T) = m + 1 /\ T # {}
        BY <2>1, <3>1, LastIsMax
      <4>2. T \ {m + 1} \in SUBSET (1..(m + 1)) /\ m + 1 \notin T \ {m + 1}
        OBVIOUS
      <4>3. H[T \ {m + 1}] = I[T \ {m + 1}]
        BY <2>5, <4>2
      <4>4. H[T] = Add(I[T \ {m + 1}], events[m + 1])
        BY <2>5, <3>1
      <4>5. QED BY <4>1, <4>3, <4>4
    <3>2. CASE m + 1 \notin T
      <4>1. H[T] = I[T] /\ T \in SUBSET (1..m)
        BY <2>4, <2>5, <3>2
      <4>2. CASE T = {}
        BY <2>3, <4>1, <4>2
      <4>3. CASE T # {}
        <5> DEFINE S == T \ {Max(T)}
        <5>1. S \in SUBSET (1..(m + 1)) /\ m + 1 \notin S
          BY <3>2
        <5>2. H[S] = I[S]
          BY <2>5, <5>1
        <5>3. I[T] = Add(I[S], events[Max(T)])
          BY <2>3, <4>1, <4>3
        <5>4. QED BY <4>1, <4>3, <5>2, <5>3
      <4>4. QED BY <4>2, <4>3
    <3>3. QED BY <3>1, <3>2
  <2>8. H = [T \in SUBSET (1..(m + 1)) |-> Value(T)]
    <3> HIDE DEF Value
    <3> QED BY <2>6, <2>7
  <2>9. DigestTable(H, events, domain, expected, m + 1)
    BY <2>8 DEF DigestTable, Add
  <2>10. QED BY <2>1, <2>9
<1> HIDE DEF N
<1>3. N = Nat
  <2>1. N \in SUBSET Nat
    BY DEF N
  <2>2. QED BY <1>1, <1>2, <2>1, SetInduction
<1>4. QED BY <1>3 DEF N

(* G[k] is the digest of the first k events. *)
Runs(G, events, domain, expected) ==
    /\ G[0] = Start
    /\ \A k \in 1..Len(events) : G[k] = DigestEvent(G[k - 1], events[k], domain, expected)

(* That is what the fold over the events computes. *)
LEMMA DigestRuns ==
    ASSUME NEW S, NEW events \in Seq(S), NEW domain, NEW expected
    PROVE  \E G : /\ Runs(G, events, domain, expected)
                  /\ StreamDigest(events, domain, expected) = G[Len(events)]
<1> DEFINE n == Len(events)
<1>1. n \in Nat /\ DOMAIN events = 1..n
  OBVIOUS
<1>2. \E I : DigestTable(I, events, domain, expected, n)
  BY <1>1, TableExists
<1>3. PICK I : /\ DigestTable(I, events, domain, expected, n)
               /\ StreamDigest(events, domain, expected) = I[1..n]
  <2>1. StreamDigest(events, domain, expected) =
           (CHOOSE I : DigestTable(I, events, domain, expected, n))[1..n]
    BY Zenon, <1>1 DEF StreamDigest, FoldLeft, MapThenFoldSet, DigestTable
  <2>2. QED BY <1>2, <2>1
<1> DEFINE G == [k \in 0..n |-> I[1..k]]
<1>4. G[0] = Start
  <2>1. 1..0 = {} /\ {} \in SUBSET (1..n) /\ 0 \in 0..n
    BY <1>1
  <2>2. I[{}] = Start
    BY <1>3, <2>1 DEF DigestTable
  <2>3. QED BY <2>1, <2>2
<1>5. ASSUME NEW k \in 1..n
      PROVE  G[k] = DigestEvent(G[k - 1], events[k], domain, expected)
  <2>0. \A m \in Nat : \A i \in 1..m :
           /\ i \in Nat /\ i \in 1..i /\ (1..i) \ {i} = 1..(i - 1)
           /\ i \in 0..m /\ i - 1 \in 0..m /\ \A j \in 1..i : j \in 1..m
    OBVIOUS
  <2>1. /\ k \in Nat /\ k \in 1..k /\ 1..k # {} /\ 1..k \in SUBSET (1..n)
        /\ (1..k) \ {k} = 1..(k - 1) /\ k \in 0..n /\ k - 1 \in 0..n
    <3> HIDE DEF n, G
    <3>1. n \in Nat
      BY <1>1
    <3>2. QED BY <2>0, <3>1
  <2>2. Max(1..k) = k
    BY <2>1, LastIsMax
  <2>3. I[1..k] = DigestEvent(I[(1..k) \ {k}], events[k], domain, expected)
    BY <1>3, <2>1, <2>2 DEF DigestTable
  <2>4. QED BY <2>1, <2>3
<1>6. G[n] = I[1..n]
  BY <1>1
<1> HIDE DEF G
<1>7. Runs(G, events, domain, expected)
  BY <1>4, <1>5 DEF Runs
<1>8. QED BY <1>3, <1>6, <1>7

-----------------------------------------------------------------------------
(* The lines of one data event. *)
Fed(e, domain) == IF domain = "sse-data-v1" THEN <<e.payload>> ELSE <<e.name, e.payload>>

(* What event e makes of digest d, as long as the digest f still holds.    *)
Follows(d, e, f, domain, expected) ==
    /\ f \in Digests
    /\ f.ok => d.ok /\ ~d.done /\ e.what \in {"data", "receipt", "done"}
    /\ f.ok /\ e.what = "done" =>
          f.done /\ f.receipt = d.receipt /\ f.lines = d.lines /\ f.events = d.events
    /\ f.ok /\ e.what = "receipt" =>
          /\ ~d.receipt /\ e.id = expected
          /\ f.receipt /\ ~f.done /\ f.lines = d.lines /\ f.events = d.events
    /\ f.ok /\ e.what = "data" =>
          /\ ~d.receipt /\ (domain = "sse-data-v1" => e.name = "")
          /\ ~f.receipt /\ ~f.done
          /\ f.lines = d.lines \o Fed(e, domain) /\ f.events = d.events + 1

(* And when it still does.                                                 *)
Passes(d, e, domain, expected) ==
    /\ d.ok /\ ~d.done
    /\ \/ e.what = "done"
       \/ e.what = "receipt" /\ ~d.receipt /\ e.id = expected
       \/ e.what = "data" /\ ~d.receipt /\ (domain = "sse-data-v1" => e.name = "")

LEMMA EventDoes ==
    ASSUME NEW d \in Digests, NEW e \in Events, NEW expected,
           NEW domain \in {"sse-data-v1", "sse-events-v1"}
    PROVE  /\ Follows(d, e, DigestEvent(d, e, domain, expected), domain, expected)
           /\ Passes(d, e, domain, expected) => DigestEvent(d, e, domain, expected).ok
<1> DEFINE f == DigestEvent(d, e, domain, expected)
           bad == [d EXCEPT !.ok = FALSE]
<1>1. /\ d.ok \in BOOLEAN /\ d.done \in BOOLEAN /\ d.receipt \in BOOLEAN
      /\ d.lines \in Seq(Lines) /\ d.events \in Nat
  BY DEF Digests
<1>2. bad \in Digests /\ bad.ok = FALSE
  BY DEF Digests
<1> HIDE DEF bad
<1>3. e.what \in {"data", "receipt", "done", "shapeless", "junk", "misframed"}
  BY DEF Events, DataEvents, ReceiptEvents
<1>4. CASE ~d.ok \/ d.done \/ e.what \in {"shapeless", "junk", "misframed"}
  <2>1. f = bad
    BY <1>4 DEF DigestEvent, bad
  <2> HIDE DEF f
  <2>2. QED BY <1>1, <1>2, <1>4, <2>1 DEF f, Follows, Passes
<1>5. CASE d.ok /\ ~d.done /\ e.what = "done"
  <2>1. f = [d EXCEPT !.done = TRUE]
    BY <1>5 DEF DigestEvent
  <2>2. /\ f \in Digests /\ f.ok /\ f.done /\ f.receipt = d.receipt /\ f.lines = d.lines
        /\ f.events = d.events
    BY <1>5, <2>1 DEF Digests
  <2> HIDE DEF f
  <2>3. QED BY <1>5, <2>2 DEF f, Follows, Passes
<1>6. CASE d.ok /\ ~d.done /\ e.what = "receipt"
  <2>1. f = IF d.receipt \/ e.id # expected THEN bad ELSE [d EXCEPT !.receipt = TRUE]
    BY <1>6 DEF DigestEvent, bad
  <2> DEFINE g == [d EXCEPT !.receipt = TRUE]
  <2>2. /\ g \in Digests /\ g.ok /\ ~g.done /\ g.receipt /\ g.lines = d.lines
        /\ g.events = d.events
    BY <1>6 DEF Digests
  <2> HIDE DEF f, g
  <2>3. f = IF d.receipt \/ e.id # expected THEN bad ELSE g
    BY <2>1 DEF g
  <2>4. QED BY <1>2, <1>6, <2>2, <2>3 DEF f, Follows, Passes
<1>7. CASE d.ok /\ ~d.done /\ e.what = "data"
  <2> DEFINE lines == d.lines \o Fed(e, domain)
             events == d.events + 1
             g == [d EXCEPT !.events = events, !.lines = lines]
  <2>1. f = IF d.receipt \/ (domain = "sse-data-v1" /\ e.name # "") THEN bad ELSE g
    BY <1>7 DEF DigestEvent, DigestData, Misplaced, bad, Fed
  <2>2. e.name \in Lines /\ e.payload \in Lines
    BY <1>7 DEF Events, DataEvents, ReceiptEvents, Names, Lines
  <2>3. Fed(e, domain) \in Seq(Lines)
    BY <2>2 DEF Fed
  <2>4. lines \in Seq(Lines) /\ events \in Nat
    BY <1>1, <2>3
  <2>5. /\ lines = d.lines \o Fed(e, domain) /\ events = d.events + 1
    OBVIOUS
  <2> HIDE DEF lines, events, f
  <2>6. /\ g \in Digests /\ g.ok /\ ~g.done /\ g.receipt = d.receipt /\ g.lines = lines
        /\ g.events = events
    BY <1>7, <2>4 DEF Digests
  <2> HIDE DEF g
  <2>7. /\ f \in Digests
        /\ f.ok <=> ~d.receipt /\ (domain = "sse-data-v1" => e.name = "")
        /\ f.ok => ~f.done /\ ~f.receipt /\ f.lines = d.lines \o Fed(e, domain) /\ f.events = d.events + 1
    BY <1>2, <2>1, <2>5, <2>6
  <2>8. QED BY <1>7, <2>7 DEF f, Follows, Passes
<1>8. QED BY <1>1, <1>3, <1>4, <1>5, <1>6, <1>7

-----------------------------------------------------------------------------
(* lines is what m data events of w feed to a digest. *)
LinesOf(lines, w, m, domain) ==
    /\ lines \in Seq(Lines)
    /\ domain = "sse-data-v1" => Len(lines) = m /\ \A j \in 1..m : lines[j] = w[j].payload
    /\ domain = "sse-events-v1" =>
          /\ Len(lines) = 2 * m
          /\ \A j \in 1..m : lines[2 * j - 1] = w[j].name /\ lines[2 * j] = w[j].payload

(* Where a walk over w stands after k events, if no check failed. *)
Walked(d, w, k, domain, expected) ==
    /\ d \in Digests
    /\ d.ok =>
          /\ ~d.receipt /\ ~d.done => k = d.events
          /\ d.receipt /\ ~d.done => k = d.events + 1
          /\ ~d.receipt /\ d.done => k = d.events + 1
          /\ d.receipt /\ d.done => k = d.events + 2
          /\ \A j \in 1..d.events :
                w[j].what = "data" /\ (domain = "sse-data-v1" => w[j].name = "")
          /\ d.receipt => w[d.events + 1].what = "receipt" /\ w[d.events + 1].id = expected
          /\ d.done => w[k].what = "done"
          /\ LinesOf(d.lines, w, d.events, domain)

LEMMA LinesGrow ==
    ASSUME NEW w \in Seq(Events), NEW m \in Nat, m + 1 <= Len(w), w[m + 1].what = "data",
           NEW domain \in {"sse-data-v1", "sse-events-v1"},
           NEW lines, LinesOf(lines, w, m, domain)
    PROVE  LinesOf(lines \o Fed(w[m + 1], domain), w, m + 1, domain)
<1> DEFINE e == w[m + 1]
<1>1. e \in Events /\ e.what = "data"
  OBVIOUS
<1>2. e.name \in Lines /\ e.payload \in Lines
  BY <1>1 DEF Events, DataEvents, ReceiptEvents, Names, Lines
<1>3. lines \in Seq(Lines)
  BY DEF LinesOf
<1>4. CASE domain = "sse-data-v1"
  <2> DEFINE t == lines \o <<e.payload>>
  <2>1. Len(lines) = m /\ \A j \in 1..m : lines[j] = w[j].payload
    BY <1>4 DEF LinesOf
  <2>2. t \in Seq(Lines) /\ Len(t) = m + 1 /\ \A j \in 1..m : t[j] = lines[j]
    BY <1>2, <1>3, <2>1
  <2>3. t[m + 1] = e.payload
    BY <1>2, <1>3, <2>1
  <2> HIDE DEF t
  <2>4. ASSUME NEW j \in 1..(m + 1) PROVE t[j] = w[j].payload
    <3>1. j \in 1..m \/ j = m + 1
      OBVIOUS
    <3>2. QED BY <2>1, <2>2, <2>3, <3>1
  <2>5. QED BY <1>4, <2>2, <2>4 DEF LinesOf, t, Fed
<1>5. CASE domain = "sse-events-v1"
  <2> DEFINE p == <<e.name, e.payload>>
             t == lines \o p
  <2>1. /\ Len(lines) = 2 * m
        /\ \A j \in 1..m : lines[2 * j - 1] = w[j].name /\ lines[2 * j] = w[j].payload
    BY <1>5 DEF LinesOf
  <2>2. p \in Seq(Lines) /\ Len(p) = 2 /\ p[1] = e.name /\ p[2] = e.payload
    BY <1>2
  <2> HIDE DEF p
  <2>3. /\ t \in Seq(Lines) /\ Len(t) = 2 * m + 2
        /\ \A i \in 1..(2 * m) : t[i] = lines[i]
        /\ t[2 * m + 1] = p[1] /\ t[2 * m + 2] = p[2]
    <3> DEFINE n == 2 * m
    <3>1. n \in Nat /\ Len(lines) = n
      BY <2>1
    <3> HIDE DEF n
    <3>2. /\ t \in Seq(Lines) /\ Len(t) = Len(lines) + Len(p)
          /\ \A i \in 1..(Len(lines) + Len(p)) :
                t[i] = IF i <= Len(lines) THEN lines[i] ELSE p[i - Len(lines)]
      BY <1>3, <2>2, ConcatProperties
    <3> HIDE DEF t
    <3>3. /\ Len(t) = n + 2
          /\ \A i \in 1..(n + 2) : t[i] = IF i <= n THEN lines[i] ELSE p[i - n]
      BY <2>2, <3>1, <3>2
    <3>4. /\ (n + 1) - n = 1 /\ (n + 2) - n = 2
          /\ n + 1 \in 1..(n + 2) /\ n + 2 \in 1..(n + 2)
          /\ ~(n + 1 <= n) /\ ~(n + 2 <= n)
          /\ \A i \in 1..n : i \in 1..(n + 2) /\ i <= n
      BY <3>1
    <3>5. t[n + 1] = p[1] /\ t[n + 2] = p[2] /\ \A i \in 1..n : t[i] = lines[i]
      BY <3>3, <3>4
    <3>6. QED BY <3>2, <3>3, <3>5 DEF n
  <2> HIDE DEF t
  <2>4. ASSUME NEW j \in 1..(m + 1)
        PROVE  t[2 * j - 1] = w[j].name /\ t[2 * j] = w[j].payload
    <3>1. CASE j \in 1..m
      <4>1. 2 * j - 1 \in 1..(2 * m) /\ 2 * j \in 1..(2 * m)
        BY <3>1
      <4>2. QED BY <2>1, <2>3, <3>1, <4>1
    <3>2. CASE j = m + 1
      <4>1. 2 * j - 1 = 2 * m + 1 /\ 2 * j = 2 * m + 2
        BY <3>2
      <4>2. QED BY <2>2, <2>3, <3>2, <4>1
    <3>3. QED BY <3>1, <3>2
  <2>5. 2 * (m + 1) = 2 * m + 2
    OBVIOUS
  <2>6. QED BY <1>5, <2>3, <2>4, <2>5 DEF LinesOf, t, p, Fed
<1>6. QED BY <1>4, <1>5

-----------------------------------------------------------------------------
(* One event further on. *)
LEMMA WalksOn ==
    ASSUME NEW w \in Seq(Events), NEW k \in Nat, k + 1 <= Len(w),
           NEW domain \in {"sse-data-v1", "sse-events-v1"}, NEW expected,
           NEW d, Walked(d, w, k, domain, expected)
    PROVE  Walked(DigestEvent(d, w[k + 1], domain, expected), w, k + 1, domain, expected)
<1> DEFINE e == w[k + 1]
           f == DigestEvent(d, e, domain, expected)
           m == d.events
<1>1. d \in Digests /\ e \in Events /\ m \in Nat
  <2>1. d \in Digests
    BY DEF Walked
  <2>2. e \in Events
    OBVIOUS
  <2>3. QED BY <2>1, <2>2 DEF Digests
<1> HIDE DEF e, m
<1>2. Follows(d, e, f, domain, expected)
  BY <1>1, EventDoes
<1> HIDE DEF f
<1>3. SUFFICES ASSUME f.ok PROVE Walked(f, w, k + 1, domain, expected)
  BY <1>2 DEF Walked, Follows, f, e
<1>4. f \in Digests /\ e.what \in {"data", "receipt", "done"}
  BY <1>2, <1>3 DEF Follows
<1>5. /\ d.ok /\ ~d.done
      /\ ~d.receipt => k = m
      /\ d.receipt => k = m + 1
      /\ \A j \in 1..m : w[j].what = "data" /\ (domain = "sse-data-v1" => w[j].name = "")
      /\ d.receipt => w[m + 1].what = "receipt" /\ w[m + 1].id = expected
      /\ LinesOf(d.lines, w, m, domain)
  BY <1>2, <1>3 DEF Walked, Follows, m
<1>6. CASE e.what = "done"
  <2>1. f.done /\ f.receipt = d.receipt /\ f.lines = d.lines /\ f.events = m
    BY <1>2, <1>3, <1>6 DEF Follows, m
  <2>2. CASE d.receipt
    <3>0. k = m + 1
      BY <1>5, <2>2
    <3>1. k + 1 = m + 2
      BY <1>1, <3>0
    <3>2. QED BY <1>4, <1>3, <1>5, <1>6, <2>1, <2>2, <3>1 DEF Walked, e
  <2>3. CASE ~d.receipt
    <3>1. k + 1 = m + 1
      BY <1>5, <2>3
    <3>2. QED BY <1>4, <1>3, <1>5, <1>6, <2>1, <2>3, <3>1 DEF Walked, e
  <2>4. QED BY <2>2, <2>3
<1>7. CASE e.what = "receipt"
  <2>1. ~d.receipt /\ e.id = expected /\ f.events = m /\ f.receipt /\ ~f.done /\ f.lines = d.lines
    BY <1>2, <1>3, <1>7 DEF Follows, m
  <2>2. k = m /\ k + 1 = m + 1 /\ e = w[m + 1]
    BY <1>5, <2>1 DEF e
  <2>3. QED BY <1>4, <1>3, <1>5, <1>7, <2>1, <2>2 DEF Walked
<1>8. CASE e.what = "data"
  <2>1. /\ ~d.receipt /\ f.events = m + 1 /\ ~f.receipt /\ ~f.done /\ f.lines = d.lines \o Fed(e, domain)
        /\ domain = "sse-data-v1" => e.name = ""
    BY <1>2, <1>3, <1>8 DEF Follows, m
  <2>2. k = m /\ e = w[m + 1]
    BY <1>5, <2>1 DEF e
  <2>3. LinesOf(f.lines, w, m + 1, domain)
    <3> DEFINE lines == d.lines
    <3>1. m + 1 <= Len(w) /\ w[m + 1].what = "data" /\ m \in Nat /\ LinesOf(lines, w, m, domain)
      BY <1>1, <1>5, <1>8, <2>2
    <3>2. f.lines = lines \o Fed(w[m + 1], domain)
      BY <2>1, <2>2
    <3> HIDE DEF lines
    <3>3. LinesOf(lines \o Fed(w[m + 1], domain), w, m + 1, domain)
      BY <3>1, LinesGrow
    <3>4. QED BY <3>2, <3>3
  <2>4. \A j \in 1..(m + 1) : w[j].what = "data" /\ (domain = "sse-data-v1" => w[j].name = "")
    <3>1. \A j \in 1..(m + 1) : j \in 1..m \/ j = m + 1
      BY <1>1
    <3>2. QED BY <1>5, <1>8, <2>1, <2>2, <3>1
  <2>5. k + 1 = f.events
    BY <1>1, <2>1, <2>2
  <2>6. QED BY <1>4, <1>3, <2>1, <2>3, <2>4, <2>5 DEF Walked
<1>9. QED BY <1>4, <1>6, <1>7, <1>8

(* So after every event. *)
LEMMA WalkedAll ==
    ASSUME NEW w \in Seq(Events), NEW domain \in {"sse-data-v1", "sse-events-v1"},
           NEW expected, NEW G, Runs(G, w, domain, expected)
    PROVE  \A k \in 0..Len(w) : Walked(G[k], w, k, domain, expected)
<1> DEFINE n == Len(w)
           T == {k \in Nat : k <= n => Walked(G[k], w, k, domain, expected)}
<1>1. n \in Nat /\ G[0] = Start
      /\ \A k \in 1..n : G[k] = DigestEvent(G[k - 1], w[k], domain, expected)
  BY DEF Runs
<1>2. Walked(Start, w, 0, domain, expected)
  <2> DEFINE nothing == <<>>
             zero == 0
  <2>1. nothing \in Seq(Lines) /\ zero \in Nat /\ Len(nothing) = zero
    OBVIOUS
  <2>2. Start = [ok |-> TRUE, done |-> FALSE, receipt |-> FALSE, lines |-> nothing, events |-> zero]
    BY DEF Start
  <2>3. zero = 0 /\ \A j \in 1..zero : FALSE
    OBVIOUS
  <2> HIDE DEF nothing, zero
  <2>4. Start \in Digests
    BY <2>1, <2>2 DEF Digests
  <2>5. LinesOf(nothing, w, zero, domain)
    BY <2>1, <2>3 DEF LinesOf
  <2>6. /\ Start.ok /\ ~Start.done /\ ~Start.receipt /\ Start.lines = nothing /\ Start.events = zero
    BY <2>2
  <2>7. QED BY <2>3, <2>4, <2>5, <2>6 DEF Walked
<1>3. 0 \in T
  BY <1>1, <1>2
<1>4. ASSUME NEW k \in T PROVE k + 1 \in T
  <2>1. SUFFICES ASSUME k + 1 <= n PROVE Walked(G[k + 1], w, k + 1, domain, expected)
    OBVIOUS
  <2>2. k \in Nat /\ Walked(G[k], w, k, domain, expected)
    BY <1>1, <2>1
  <2>3. k + 1 \in 1..n /\ (k + 1) - 1 = k
    BY <1>1, <2>1, <2>2
  <2>4. G[k + 1] = DigestEvent(G[k], w[k + 1], domain, expected)
    BY <1>1, <2>3
  <2>5. QED BY <2>1, <2>2, <2>4, WalksOn
<1> HIDE DEF T
<1>5. T = Nat
  <2>1. T \in SUBSET Nat
    BY DEF T
  <2>2. QED BY <1>3, <1>4, <2>1, SetInduction
<1>6. QED BY <1>1, <1>5 DEF T

-----------------------------------------------------------------------------
(* What an issuer signed, as lines.                                        *)
LEMMA SignedIs ==
    ASSUME NEW s \in Signed
    PROVE  /\ s.domain \in {"sse-data-v1", "sse-events-v1"}
           /\ s.data \in Seq(DataEvents) /\ s.data \in Seq(Events)
           /\ s.mine \in BOOLEAN
           /\ s.domain = "sse-data-v1" => \A j \in 1..Len(s.data) : s.data[j].name = ""
           /\ LinesOf(SignedLines(s), s.data, Len(s.data), s.domain)
<1>1. /\ s.domain \in {"sse-data-v1", "sse-events-v1"} /\ s.data \in Seq(DataEvents)
      /\ s.mine \in BOOLEAN
      /\ s.domain = "sse-data-v1" => \A j \in DOMAIN s.data : s.data[j].name = ""
  BY DEF Signed
<1> DEFINE data == s.data
           n == Len(data)
<1>2. /\ n \in Nat /\ DOMAIN data = 1..n
      /\ \A j \in 1..n : data[j] \in DataEvents
  <2>1. data \in Seq(DataEvents)
    BY <1>1
  <2> HIDE DEF data
  <2>2. QED BY <2>1, ElementOfSeq, LenProperties
<1>3. data \in Seq(Events)
  <2>1. data \in Seq(DataEvents) /\ DataEvents \subseteq Events
    BY <1>1 DEF Events
  <2> HIDE DEF data
  <2>2. QED BY <2>1, SeqMonotonic
<1>4. \A j \in 1..n : data[j].name \in Lines /\ data[j].payload \in Lines
  BY <1>2 DEF DataEvents, Names, Lines
<1> HIDE DEF data, n
<1>5. CASE s.domain = "sse-data-v1"
  <2> DEFINE t == [k \in 1..n |-> data[k].payload]
  <2>1. SignedLines(s) = t
    BY <1>2, <1>5 DEF SignedLines, data
  <2>2. t \in Seq(Lines) /\ Len(t) = n /\ \A j \in 1..n : t[j] = data[j].payload
    BY <1>2, <1>4
  <2> HIDE DEF t
  <2>3. LinesOf(t, data, n, s.domain)
    BY <1>5, <2>2 DEF LinesOf
  <2>4. QED BY <1>1, <1>2, <1>3, <2>1, <2>3 DEF data, n
<1>6. CASE s.domain = "sse-events-v1"
  <2> DEFINE Nth(k) == IF k % 2 = 1 THEN data[(k + 1) \div 2].name
                                    ELSE data[(k + 1) \div 2].payload
             N == 2 * n
             t == [k \in 1..N |-> Nth(k)]
  <2>1. SignedLines(s) = t
    BY <1>6 DEF SignedLines, data, n
  <2>2. N \in Nat
    BY <1>2
  <2>3. ASSUME NEW k \in 1..N PROVE (k + 1) \div 2 \in 1..n
    BY <1>2
  <2>4. \A k \in 1..N : Nth(k) \in Lines
    BY <1>4, <2>3
  <2>5. ASSUME NEW j \in 1..n
        PROVE  /\ 2 * j - 1 \in 1..N /\ 2 * j \in 1..N
               /\ Nth(2 * j - 1) = data[j].name /\ Nth(2 * j) = data[j].payload
    <3>1. /\ 2 * j - 1 \in 1..N /\ 2 * j \in 1..N
          /\ (2 * j - 1) % 2 = 1 /\ (2 * j) % 2 # 1
          /\ (2 * j - 1 + 1) \div 2 = j /\ (2 * j + 1) \div 2 = j
      BY <1>2
    <3>2. QED BY <3>1
  <2> HIDE DEF Nth, N
  <2>6. t \in Seq(Lines) /\ Len(t) = N /\ \A k \in 1..N : t[k] = Nth(k)
    BY <2>2, <2>4
  <2> HIDE DEF t
  <2>7. \A j \in 1..n : t[2 * j - 1] = data[j].name /\ t[2 * j] = data[j].payload
    BY <2>5, <2>6
  <2>8. LinesOf(t, data, n, s.domain)
    BY <1>6, <2>6, <2>7 DEF LinesOf, N
  <2>9. QED BY <1>1, <1>2, <1>3, <2>1, <2>8 DEF data, n
<1>7. QED BY <1>1, <1>5, <1>6

(* Two streams that feed the same lines have the same data.                *)
SameData(w, v, m, domain) ==
    \A j \in 1..m : /\ w[j].payload = v[j].payload
                    /\ domain = "sse-events-v1" => w[j].name = v[j].name

LEMMA LinesAgree ==
    ASSUME NEW w, NEW v, NEW m \in Nat, NEW lines,
           NEW domain \in {"sse-data-v1", "sse-events-v1"},
           LinesOf(lines, w, m, domain), LinesOf(lines, v, m, domain)
    PROVE  SameData(w, v, m, domain)
<1>1. CASE domain = "sse-data-v1"
  BY <1>1 DEF LinesOf, SameData
<1>2. CASE domain = "sse-events-v1"
  BY <1>2 DEF LinesOf, SameData
<1>3. QED BY <1>1, <1>2

(* And the same data feed the same lines.                                  *)
LEMMA DataAgree ==
    ASSUME NEW w, NEW v, NEW m \in Nat, NEW lines, NEW others,
           NEW domain \in {"sse-data-v1", "sse-events-v1"},
           LinesOf(lines, w, m, domain), LinesOf(others, v, m, domain),
           \A j \in 1..m : w[j] = v[j]
    PROVE  lines = others
<1>1. lines \in Seq(Lines) /\ others \in Seq(Lines)
  BY DEF LinesOf
<1>2. CASE domain = "sse-data-v1"
  <2>1. /\ Len(lines) = m /\ Len(others) = m
        /\ \A j \in 1..m : lines[j] = others[j]
    BY <1>2 DEF LinesOf
  <2>2. QED BY <1>1, <2>1, SeqEqual
<1>3. CASE domain = "sse-events-v1"
  <2>0. Len(lines) = 2 * m /\ Len(others) = 2 * m
    BY <1>3 DEF LinesOf
  <2>1. ASSUME NEW j \in 1..m
        PROVE  lines[2 * j - 1] = others[2 * j - 1] /\ lines[2 * j] = others[2 * j]
    <3>1. w[j] = v[j] /\ lines[2 * j - 1] = w[j].name /\ lines[2 * j] = w[j].payload
      BY Zenon, <1>3 DEF LinesOf
    <3>2. others[2 * j - 1] = v[j].name /\ others[2 * j] = v[j].payload
      BY Zenon, <1>3 DEF LinesOf
    <3>3. QED BY <3>1, <3>2
  <2>2. ASSUME NEW k \in 1..(2 * m) PROVE lines[k] = others[k]
    <3>1. \E j \in 1..m : k = 2 * j - 1 \/ k = 2 * j
      <4> DEFINE j == (k + 1) \div 2
      <4>1. j \in 1..m /\ (k = 2 * j - 1 \/ k = 2 * j)
        OBVIOUS
      <4> HIDE DEF j
      <4>2. QED BY <4>1
    <3>2. QED BY <2>1, <3>1
  <2> DEFINE n == 2 * m
  <2>3. Len(lines) = n /\ Len(others) = n /\ \A k \in 1..n : lines[k] = others[k]
    BY <2>0, <2>2
  <2> HIDE DEF n
  <2>4. QED BY <1>1, <2>3, SeqEqual
<1>4. QED BY <1>2, <1>3

-----------------------------------------------------------------------------
(* What a capture's digest has to be, for verify() to accept the stream.   *)
Fits(d, s) ==
    /\ d.ok /\ d.receipt /\ d.done
    /\ d.lines = SignedLines(s) /\ d.events = Len(s.data)

(* What the receipt covers of a stream w is as s says (CoveredAsSigned).   *)
Honest(w, s, id) ==
    LET n == Len(s.data)
    IN  /\ Len(w) = n + 2
        /\ \A k \in 1..n : w[k] = s.data[k]
        /\ w[n + 1].what = "receipt" /\ w[n + 1].id = id
        /\ w[n + 2].what = "done"

(* A stream that fits is covered as signed ...                             *)
LEMMA FitsIsHonest ==
    ASSUME NEW w \in Seq(Events), NEW s \in Signed, NEW id \in ReceiptIds,
           Fits(StreamDigest(w, s.domain, id), s)
    PROVE  Honest(w, s, id)
<1> DEFINE domain == s.domain
           data == s.data
           m == Len(data)
           d == StreamDigest(w, domain, id)
<1>1. /\ domain \in {"sse-data-v1", "sse-events-v1"}
      /\ data \in Seq(DataEvents) /\ data \in Seq(Events)
      /\ domain = "sse-data-v1" => \A j \in 1..m : data[j].name = ""
      /\ LinesOf(SignedLines(s), data, m, domain)
  BY SignedIs
<1>2. m \in Nat /\ \A j \in 1..m : data[j] \in DataEvents
  <2>1. data \in Seq(DataEvents)
    BY <1>1
  <2> HIDE DEF data
  <2>2. QED BY <2>1, LenProperties, ElementOfSeq
<1>3. Len(w) \in Nat /\ \A j \in 1..Len(w) : w[j] \in Events
  BY LenProperties, ElementOfSeq
<1>5. Fits(d, s)
  OBVIOUS
<1> HIDE DEF domain, data, d
<1>6. Walked(d, w, Len(w), domain, id)
  <2>1. PICK G : Runs(G, w, domain, id) /\ StreamDigest(w, domain, id) = G[Len(w)]
    BY DigestRuns
  <2>2. Len(w) \in 0..Len(w)
    BY <1>3
  <2>3. Walked(G[Len(w)], w, Len(w), domain, id)
    BY <1>1, <2>1, <2>2, WalkedAll
  <2>4. QED BY <2>1, <2>3 DEF d
<1>7. d.ok /\ d.receipt /\ d.done /\ d.lines = SignedLines(s) /\ d.events = m
  BY <1>5 DEF Fits, m, data
<1> HIDE DEF m
<1>8. /\ Len(w) = m + 2
      /\ \A j \in 1..m : w[j].what = "data" /\ (domain = "sse-data-v1" => w[j].name = "")
      /\ w[m + 1].what = "receipt" /\ w[m + 1].id = id
      /\ w[m + 2].what = "done"
      /\ LinesOf(SignedLines(s), w, m, domain)
  <2>1. /\ Len(w) = m + 2
        /\ \A j \in 1..m : w[j].what = "data" /\ (domain = "sse-data-v1" => w[j].name = "")
        /\ w[m + 1].what = "receipt" /\ w[m + 1].id = id
        /\ w[Len(w)].what = "done"
        /\ LinesOf(d.lines, w, m, domain)
    BY Zenon, <1>6, <1>7 DEF Walked
  <2>2. QED BY <1>7, <2>1
<1>9. SameData(w, data, m, domain)
  <2> DEFINE lines == SignedLines(s)
  <2>1. LinesOf(lines, w, m, domain) /\ LinesOf(lines, data, m, domain)
    BY <1>1, <1>8 DEF m
  <2> HIDE DEF lines
  <2>2. QED BY <1>1, <1>2, <2>1, LinesAgree
<1>10. \A j \in 1..(m + 2) : w[j] \in Events
  BY <1>3, <1>8
<1>11. m + 1 \in 1..(m + 2) /\ m + 2 \in 1..(m + 2) /\ \A j \in 1..m : j \in 1..(m + 2)
  BY <1>2
<1>12. ASSUME NEW j \in 1..m PROVE w[j] = data[j]
  <2>1. w[j] \in Events /\ w[j].what = "data" /\ data[j] \in DataEvents
    BY Zenon, <1>2, <1>8, <1>10, <1>11
  <2>2. w[j] \in DataEvents
    BY <2>1 DEF Events, ReceiptEvents
  <2>3. w[j].payload = data[j].payload
    BY Zenon, <1>9 DEF SameData
  <2>4. w[j].name = data[j].name
    <3>1. CASE domain = "sse-data-v1"
      BY Zenon, <1>1, <1>8, <3>1
    <3>2. CASE domain = "sse-events-v1"
      BY Zenon, <1>9, <3>2 DEF SameData
    <3>3. QED BY <1>1, <3>1, <3>2
  <2> DEFINE a == w[j]
             b == data[j]
  <2>5. a \in DataEvents /\ b \in DataEvents /\ a.payload = b.payload /\ a.name = b.name
    BY <2>1, <2>2, <2>3, <2>4
  <2> HIDE DEF a, b
  <2>6. /\ a = [what |-> "data", name |-> a.name, payload |-> a.payload]
        /\ b = [what |-> "data", name |-> b.name, payload |-> b.payload]
    BY <2>5 DEF DataEvents
  <2>7. a = b
    BY <2>5, <2>6
  <2>8. QED BY <2>7 DEF a, b
<1>13. QED BY <1>8, <1>12 DEF Honest, m, data

(* ... and any such stream fits.                                           *)
LEMMA HonestFits ==
    ASSUME NEW s \in Signed, NEW id \in ReceiptIds, NEW w \in Seq(Events), Honest(w, s, id)
    PROVE  Fits(StreamDigest(w, s.domain, id), s)
<1> DEFINE domain == s.domain
           data == s.data
           m == Len(data)
<1>1. /\ domain \in {"sse-data-v1", "sse-events-v1"}
      /\ data \in Seq(DataEvents) /\ data \in Seq(Events)
      /\ domain = "sse-data-v1" => \A j \in 1..m : data[j].name = ""
      /\ LinesOf(SignedLines(s), data, m, domain)
  BY SignedIs
<1>2. m \in Nat /\ \A j \in 1..m : data[j] \in DataEvents
  <2>1. data \in Seq(DataEvents)
    BY <1>1
  <2> HIDE DEF data
  <2>2. QED BY <2>1, LenProperties, ElementOfSeq
<1>3. /\ w \in Seq(Events) /\ Len(w) = m + 2
      /\ \A j \in 1..m : w[j] = data[j]
      /\ w[m + 1].what = "receipt" /\ w[m + 1].id = id
      /\ w[m + 2].what = "done"
  BY DEF Honest
<1> HIDE DEF domain, m
<1>4. /\ \A j \in 1..m : w[j].what = "data" /\ (domain = "sse-data-v1" => w[j].name = "")
      /\ w[m + 1].what = "receipt" /\ w[m + 1].id = id
      /\ w[m + 2].what = "done"
  <2>1. \A j \in 1..m : data[j].what = "data"
    <3> HIDE DEF data
    <3>1. QED BY <1>2 DEF DataEvents
  <2>2. ASSUME NEW j \in 1..m
        PROVE  w[j].what = "data" /\ (domain = "sse-data-v1" => w[j].name = "")
    <3>1. w[j] = data[j] /\ data[j].what = "data"
      BY Zenon, <1>3, <2>1
    <3>2. domain = "sse-data-v1" => data[j].name = ""
      BY Zenon, <1>1
    <3>3. QED BY Zenon, <3>1, <3>2
  <2>3. QED BY <1>3, <2>2
<1>5. PICK G : Runs(G, w, domain, id) /\ StreamDigest(w, domain, id) = G[Len(w)]
  BY <1>3, DigestRuns
<1>6. \A k \in 0..(m + 2) : Walked(G[k], w, k, domain, id)
  BY <1>1, <1>3, <1>5, WalkedAll
<1> HIDE DEF data
<1>7. ASSUME NEW k \in 0..(m + 1), G[k].ok PROVE G[k + 1].ok
  <2> DEFINE d == G[k]
             e == w[k + 1]
  <2>1. k \in Nat /\ k \in 0..(m + 2) /\ k + 1 \in 1..(m + 2) /\ (k + 1) - 1 = k
    BY <1>2
  <2>2. Walked(d, w, k, domain, id) /\ d.ok
    BY <1>6, <1>7, <2>1
  <2>3. G[k + 1] = DigestEvent(d, e, domain, id)
    BY <1>3, <1>5, <2>1 DEF Runs
  <2>4. d \in Digests /\ e \in Events
    BY <1>3, <2>1, <2>2, ElementOfSeq DEF Walked
  <2> HIDE DEF d
  <2>5. d.events \in Nat
    BY <2>4 DEF Digests
  <2>6. /\ d.done => w[k].what = "done" /\ k # 0
        /\ d.receipt /\ ~d.done => w[k].what = "receipt" /\ k # 0
    <3>1. /\ d.done => w[k].what = "done" /\ (k = d.events + 1 \/ k = d.events + 2)
          /\ d.receipt /\ ~d.done => w[d.events + 1].what = "receipt" /\ k = d.events + 1
      BY Zenon, <2>2 DEF Walked
    <3>2. QED BY <2>5, <3>1
  <2>7. ~d.done
    <3>1. ASSUME k # 0 PROVE k \in 1..m \/ k = m + 1
      BY <1>2, <3>1
    <3>2. QED BY <1>4, <2>6, <3>1
  <2>8. k < m + 1 => ~d.receipt
    <3>1. ASSUME k # 0, k < m + 1 PROVE k \in 1..m
      BY <1>2, <3>1
    <3>2. QED BY <1>4, <2>6, <2>7, <3>1
  <2>9. Passes(d, e, domain, id)
    <3>1. CASE k = m + 1
      <4>1. k + 1 = m + 2
        BY <1>2, <3>1
      <4>2. QED BY <1>4, <2>2, <2>7, <4>1 DEF Passes
    <3>2. CASE k = m
      <4>1. k < m + 1 /\ e = w[m + 1]
        BY <1>2, <3>2
      <4>2. QED BY <1>4, <2>2, <2>7, <2>8, <4>1 DEF Passes
    <3>3. CASE k < m
      <4>1. k < m + 1 /\ k + 1 \in 1..m
        BY <1>2, <3>3
      <4>2. QED BY <1>4, <2>2, <2>7, <2>8, <4>1 DEF Passes
    <3>4. QED BY <1>2, <3>1, <3>2, <3>3
  <2> HIDE DEF e
  <2>10. QED BY <1>1, <2>3, <2>4, <2>9, EventDoes
<1>8. G[m + 2].ok
  <2> DEFINE T == {k \in Nat : k <= m + 2 => G[k].ok}
  <2>1. 0 \in T
    BY <1>5 DEF Runs, Start
  <2>2. ASSUME NEW k \in T PROVE k + 1 \in T
    <3>1. SUFFICES ASSUME k + 1 <= m + 2 PROVE G[k + 1].ok
      OBVIOUS
    <3>2. k \in 0..(m + 1) /\ G[k].ok
      BY <1>2, <3>1
    <3>3. QED BY <1>7, <3>2
  <2>3. T \in SUBSET Nat
    OBVIOUS
  <2> HIDE DEF T
  <2>4. T = Nat
    BY <2>1, <2>2, <2>3, SetInduction
  <2>5. m + 2 \in T /\ m + 2 <= m + 2
    BY <1>2, <2>4
  <2>6. QED BY <2>5 DEF T
<1> DEFINE d == G[m + 2]
<1>9. Walked(d, w, m + 2, domain, id) /\ d.ok
  BY <1>2, <1>6, <1>8
<1> HIDE DEF d
<1>10. d.events \in Nat
  BY <1>9 DEF Walked, Digests
<1>11. ~(m + 1 <= d.events)
  <2>1. SUFFICES ASSUME m + 1 <= d.events PROVE FALSE
    OBVIOUS
  <2>2. m + 1 \in 1..d.events
    BY <1>2, <1>10, <2>1
  <2>3. w[m + 1].what = "data"
    BY Zenon, <1>9, <2>2 DEF Walked
  <2>4. QED BY <1>4, <2>3
<1>12. d.receipt /\ d.done /\ d.events = m
  <2>1. /\ ~d.receipt /\ ~d.done => m + 2 = d.events
        /\ d.receipt /\ ~d.done => m + 2 = d.events + 1
        /\ ~d.receipt /\ d.done => m + 2 = d.events + 1
        /\ d.receipt /\ d.done => m + 2 = d.events + 2
    BY Zenon, <1>9 DEF Walked
  <2>2. m + 2 # d.events /\ m + 2 # d.events + 1
    BY <1>2, <1>10, <1>11
  <2>3. d.receipt /\ d.done
    BY <2>1, <2>2
  <2>4. QED BY <1>2, <1>10, <2>1, <2>3
<1>13. d.lines = SignedLines(s)
  <2>1. LinesOf(d.lines, w, m, domain)
    BY Zenon, <1>9, <1>12 DEF Walked
  <2> DEFINE lines == d.lines
             others == SignedLines(s)
  <2>2. LinesOf(lines, w, m, domain) /\ LinesOf(others, data, m, domain)
    BY <1>1, <2>1
  <2> HIDE DEF lines, others
  <2>3. lines = others
    BY <1>1, <1>2, <1>3, <2>2, DataAgree
  <2>4. QED BY <2>3 DEF lines, others
<1>14. QED BY <1>3, <1>5, <1>8, <1>12, <1>13 DEF Fits, d, domain, m, data

-----------------------------------------------------------------------------
(* Of some numbers up to n, one is the last.                               *)
LEMMA MaxIsThere ==
    ASSUME NEW n \in Nat, NEW T \in SUBSET (1..n), T # {}
    PROVE  Max(T) \in T
<1> DEFINE B == {u \in Nat : \A t \in T : t <= u}
<1>1. n \in B
  OBVIOUS
<1>2. PICK u \in B : \A i \in B : u <= i
  <2>1. B \in SUBSET Nat /\ B # {}
    BY <1>1
  <2> HIDE DEF B
  <2>2. QED BY <2>1, LeastExists
<1>3. u \in Nat /\ \A t \in T : t \in Nat /\ t <= u
  OBVIOUS
<1>4. u \in T
  <2>1. SUFFICES ASSUME u \notin T PROVE FALSE
    OBVIOUS
  <2>2. PICK t \in T : t >= 1
    <3>1. PICK i \in T : TRUE
      OBVIOUS
    <3>2. i >= 1
      OBVIOUS
    <3>3. QED BY <3>2
  <2>3. u - 1 \in Nat /\ ~(u <= u - 1)
    BY <1>3, <2>2
  <2>4. \A i \in T : i <= u - 1
    BY <1>3, <2>1
  <2>5. QED BY <1>2, <2>3, <2>4
<1>5. \E x \in T : \A y \in T : x >= y
  BY <1>3, <1>4
<1>6. QED BY <1>5 DEF Max

(* The receipt found in a stream is one, and in one covered as signed it   *)
(* is the only one.                                                             *)
LEMMA FoundIsReceipt ==
    ASSUME NEW w \in Seq(Events), ReceiptsIn(w) # {}
    PROVE  w[Max(ReceiptsIn(w))].id \in ReceiptIds
<1> DEFINE k == Max(ReceiptsIn(w))
<1>1. /\ Len(w) \in Nat /\ DOMAIN w = 1..Len(w)
      /\ \A j \in 1..Len(w) : w[j] \in Events
  BY LenProperties, ElementOfSeq
<1>2. ReceiptsIn(w) \in SUBSET (1..Len(w))
  BY <1>1 DEF ReceiptsIn
<1>3. k \in ReceiptsIn(w)
  BY <1>1, <1>2, MaxIsThere
<1> HIDE DEF k
<1>4. w[k] \in Events /\ w[k].what = "receipt"
  BY <1>1, <1>3 DEF ReceiptsIn
<1> DEFINE e == w[k]
<1>5. e \in Events /\ e.what = "receipt"
  BY <1>4
<1> HIDE DEF e
<1>6. e.id \in ReceiptIds
  BY <1>5 DEF Events, DataEvents, ReceiptEvents
<1>7. QED BY <1>6 DEF e, k

LEMMA HonestFound ==
    ASSUME NEW s \in Signed, NEW id \in ReceiptIds, NEW w \in Seq(Events), Honest(w, s, id)
    PROVE  ReceiptsIn(w) # {} /\ w[Max(ReceiptsIn(w))].id = id
<1> DEFINE data == s.data
           n == Len(data)
<1>1. data \in Seq(DataEvents) /\ data \in Seq(Events)
  BY SignedIs
<1>2. n \in Nat /\ \A j \in 1..n : data[j].what = "data"
  <2> HIDE DEF data
  <2>1. n \in Nat /\ \A j \in 1..n : data[j] \in DataEvents
    BY <1>1, LenProperties, ElementOfSeq
  <2>2. QED BY <2>1 DEF DataEvents
<1>3. /\ w \in Seq(Events) /\ Len(w) = n + 2
      /\ \A j \in 1..n : w[j] = data[j]
      /\ w[n + 1].what = "receipt" /\ w[n + 1].id = id
      /\ w[n + 2].what = "done"
  BY DEF Honest
<1> HIDE DEF n, data
<1>4. DOMAIN w = 1..(n + 2)
  BY <1>3, LenProperties
<1>5. w[n + 1].what = "receipt" /\ w[n + 1].id = id /\ w[n + 2].what # "receipt"
  BY <1>3
<1>6. \A j \in 1..n : w[j].what # "receipt"
  BY <1>2, <1>3
<1>7. ReceiptsIn(w) = {n + 1}
  <2>1. \A j \in 1..(n + 2) : j \in 1..n \/ j = n + 1 \/ j = n + 2
    BY <1>2
  <2>2. n + 1 \in 1..(n + 2)
    BY <1>2
  <2>3. QED BY <1>4, <1>5, <1>6, <2>1, <2>2 DEF ReceiptsIn
<1>8. Max({n + 1}) = n + 1
  <2> DEFINE m == n + 1
  <2>1. m \in Nat /\ {m} \in SUBSET (1..m) /\ m \in {m}
    BY <1>2
  <2> HIDE DEF m
  <2>2. Max({m}) = m
    BY <2>1, LastIsMax
  <2>3. QED BY <2>2 DEF m
<1>9. QED BY <1>5, <1>7, <1>8

-----------------------------------------------------------------------------
(* A captured stream verifies exactly when what its receipt covers, the    *)
(* data events, their order and the end, is as signed: for every length,   *)
(* payload, cut and set of receipts, whatever else the receipt's event and *)
(* [DONE] carry.  The property is inductive as it stands, its type part    *)
(* giving the receipt the capture has found.                               *)
THEOREM UntouchedVerifies == Spec => []VerifiedIsUntouched
<1>1. Init => VerifiedIsUntouched
  <2> SUFFICES ASSUME Init PROVE VerifiedIsUntouched
    OBVIOUS
  <2>1. /\ issued \in Issued /\ tail = FALSE /\ receipt = "none" /\ verdict.how = "none"
    BY DEF Init
  <2>2. wire \in Seq(Events) /\ Len(wire) = 0 /\ DOMAIN wire = {}
    BY DEF Init
  <2>3. ReceiptsIn(wire) = {}
    BY <2>2 DEF ReceiptsIn
  <2>4. Len(wire) <= MaxEvents
    BY <2>2, ReceiptsAssumption
  <2>5. ReceiptsTypeOK
    BY <2>1, <2>2, <2>3, <2>4 DEF ReceiptsTypeOK
  <2>6. QED BY <2>1, <2>5 DEF VerifiedIsUntouched
<1>2. VerifiedIsUntouched /\ [Next]_vars => VerifiedIsUntouched'
  <2> SUFFICES ASSUME VerifiedIsUntouched, [Next]_vars PROVE VerifiedIsUntouched'
    OBVIOUS
  <2>1. CASE NextChunk
    <3>1. ReceiptsTypeOK /\ verdict.how = "none"
      BY <2>1 DEF NextChunk, VerifiedIsUntouched
    <3>2. PICK n \in 0..MaxPerChunk : \E new \in [1..n -> Events], cut \in BOOLEAN :
             Len(wire) + n <= MaxEvents /\ wire' = wire \o new /\ tail' = cut
      BY <2>1 DEF NextChunk
    <3>3. PICK new \in [1..n -> Events], cut \in BOOLEAN :
             Len(wire) + n <= MaxEvents /\ wire' = wire \o new /\ tail' = cut
      BY <3>2
    <3>4. n \in Nat /\ new \in Seq(Events) /\ Len(new) = n
      BY <3>2, ReceiptsAssumption
    <3>5. wire \in Seq(Events) /\ Len(wire) \in Nat /\ DOMAIN wire = 1..Len(wire)
      BY <3>1 DEF ReceiptsTypeOK
    <3> DEFINE w == wire'
    <3>6. /\ w \in Seq(Events) /\ Len(w) = Len(wire) + n /\ DOMAIN w = 1..(Len(wire) + n)
          /\ \A k \in 1..Len(wire) : w[k] = wire[k]
      <4>1. w = wire \o new
        BY <3>3
      <4> HIDE DEF w
      <4>2. /\ w \in Seq(Events) /\ Len(w) = Len(wire) + n
            /\ \A k \in 1..(Len(wire) + n) : w[k] = IF k <= Len(wire) THEN wire[k] ELSE new[k - Len(wire)]
        BY <3>4, <3>5, <4>1, ConcatProperties
      <4>3. \A k \in 1..Len(wire) : k \in 1..(Len(wire) + n) /\ k <= Len(wire)
        BY <3>4, <3>5
      <4>4. QED BY <4>2, <4>3, LenProperties
    <3>7. /\ receipt' = RefreshReceipt(wire') /\ UNCHANGED <<issued, verdict>>
          /\ tail' \in BOOLEAN
      BY <2>1, <3>3 DEF NextChunk
    <3> HIDE DEF w
    <3>8. /\ receipt' \in ReceiptIds \cup {"none"}
          /\ receipt' = IF ReceiptsIn(w) = {} THEN "none" ELSE w[Max(ReceiptsIn(w))].id
      <4>1. CASE ReceiptsIn(w) = {}
        <5>1. ReceiptsIn(wire) = {}
          <6>1. ReceiptsIn(wire) \subseteq ReceiptsIn(w)
            BY <3>5, <3>6, <3>4 DEF ReceiptsIn
          <6>2. QED BY <4>1, <6>1
        <5>2. receipt = "none"
          BY <3>1, <5>1 DEF ReceiptsTypeOK
        <5>3. receipt' = receipt
          BY <3>7, <4>1 DEF RefreshReceipt, w
        <5>4. QED BY <4>1, <5>2, <5>3
      <4>2. CASE ReceiptsIn(w) # {}
        <5>1. receipt' = w[Max(ReceiptsIn(w))].id
          BY <3>7, <4>2 DEF RefreshReceipt, w
        <5>2. w[Max(ReceiptsIn(w))].id \in ReceiptIds
          BY <3>6, <4>2, FoundIsReceipt
        <5>3. QED BY <4>2, <5>1, <5>2
      <4>3. QED BY <4>1, <4>2
    <3>9. issued' \in Issued /\ verdict'.how = "none"
      BY <3>1, <3>7 DEF ReceiptsTypeOK
    <3>10. ReceiptsTypeOK'
      <4>1. wire' \in Seq(Events) /\ Len(wire') <= MaxEvents
        BY <3>3, <3>6 DEF w
      <4>2. QED BY <3>7, <3>8, <3>9, <4>1 DEF ReceiptsTypeOK, w, ReceiptsIn
    <3>11. QED BY <3>9, <3>10 DEF VerifiedIsUntouched
  <2>2. CASE VerifyCapture
    <3>1. ReceiptsTypeOK /\ UNCHANGED <<issued, wire, tail, receipt>>
      BY <2>2 DEF VerifyCapture, VerifiedIsUntouched
    <3> DEFINE Accepts == receipt # "none" /\ issued[receipt].mine /\ StreamMatches(receipt)
    <3>2. verdict'.how = IF Accepts THEN "capture_verified" ELSE "capture_rejected"
      BY <2>2 DEF VerifyCapture
    <3>3. /\ wire \in Seq(Events) /\ receipt \in ReceiptIds \cup {"none"}
          /\ receipt = IF ReceiptsIn(wire) = {} THEN "none" ELSE wire[Max(ReceiptsIn(wire))].id
          /\ issued \in [ReceiptIds -> Signed]
      BY <3>1, ReceiptsAssumption DEF ReceiptsTypeOK
    <3>4. \A id \in ReceiptIds : issued[id] \in Signed
      BY <3>3
    <3>5. \A id \in ReceiptIds :
             StreamMatches(id) <=> ~tail /\ Fits(StreamDigest(wire, issued[id].domain, id), issued[id])
      BY Zenon DEF StreamMatches, Fits
    <3>6. \A id \in ReceiptIds : CoveredAsSigned(id) <=> Honest(wire, issued[id], id)
      BY DEF CoveredAsSigned, Honest
    <3>7. ReceiptsTypeOK'
      <4>1. verdict'.how \in {"none", "capture_verified", "capture_rejected", "verified", "rejected"}
        BY <3>2
      <4>2. QED BY <3>1, <4>1 DEF ReceiptsTypeOK, ReceiptsIn
    <3>8. ASSUME Accepts PROVE CoveredAsSigned(receipt) /\ ~tail
      <4>1. receipt \in ReceiptIds
        BY <3>3, <3>8
      <4> DEFINE s == issued[receipt]
      <4>2. s \in Signed /\ Fits(StreamDigest(wire, s.domain, receipt), s) /\ ~tail
        BY <3>4, <3>5, <3>8, <4>1
      <4> HIDE DEF s
      <4>3. Honest(wire, s, receipt)
        BY <3>3, <4>1, <4>2, FitsIsHonest
      <4>4. QED BY <3>6, <4>1, <4>2, <4>3 DEF s
    <3>9. ASSUME NEW id \in ReceiptIds, issued[id].mine, CoveredAsSigned(id), ~tail
          PROVE  Accepts
      <4> DEFINE s == issued[id]
      <4>1. s \in Signed /\ Honest(wire, s, id)
        BY <3>4, <3>6, <3>9
      <4> HIDE DEF s
      <4>2. ReceiptsIn(wire) # {} /\ wire[Max(ReceiptsIn(wire))].id = id
        BY <3>3, <4>1, HonestFound
      <4>3. receipt = id /\ receipt # "none"
        BY <3>3, <4>2 DEF ReceiptIds
      <4>4. Fits(StreamDigest(wire, s.domain, id), s)
        BY <3>3, <4>1, HonestFits
      <4>5. StreamMatches(id)
        BY <3>5, <3>9, <4>4 DEF s
      <4>6. QED BY <3>9, <4>3, <4>5
    <3> HIDE DEF Accepts
    <3>10. CASE Accepts
      <4>1. receipt # "none" /\ issued[receipt].mine
        BY <3>10 DEF Accepts
      <4>2. verdict'.how = "capture_verified"
        BY <3>2, <3>10
      <4>3. (CoveredAsSigned(receipt))'
        BY <3>1, <3>8, <3>10 DEF CoveredAsSigned
      <4>4. QED BY <3>1, <3>7, <3>8, <3>10, <4>1, <4>2, <4>3 DEF VerifiedIsUntouched
    <3>11. CASE ~Accepts
      <4>1. verdict'.how = "capture_rejected"
        BY <3>2, <3>11
      <4>2. \A id \in ReceiptIds : issued[id].mine => ~CoveredAsSigned(id) \/ tail
        BY <3>9, <3>11
      <4>3. (\A id \in ReceiptIds : issued[id].mine => ~CoveredAsSigned(id) \/ tail)'
        BY <3>1, <4>2 DEF CoveredAsSigned
      <4>4. QED BY <3>7, <4>1, <4>3 DEF VerifiedIsUntouched
    <3>12. QED BY <3>10, <3>11
  <2>3. CASE VerifyReceipt
    <3>1. UNCHANGED <<issued, wire, tail, receipt>> /\ verdict'.how \in {"verified", "rejected"}
      BY <2>3 DEF VerifyReceipt
    <3>2. ReceiptsTypeOK'
      BY <3>1 DEF VerifiedIsUntouched, ReceiptsTypeOK, ReceiptsIn
    <3>3. QED BY <3>1, <3>2 DEF VerifiedIsUntouched
  <2>4. CASE UNCHANGED vars
    BY <2>4 DEF vars, VerifiedIsUntouched, ReceiptsTypeOK, ReceiptsIn, CoveredAsSigned
  <2>5. QED BY <2>1, <2>2, <2>3, <2>4 DEF Next
<1>3. QED BY <1>1, <1>2, PTL DEF Spec

(* What verify_receipt makes of a receipt and what it is given, when it    *)
(* accepts them.                                                           *)
Accepted(r, o) ==
    /\ BindingsPresent(o) /\ ClaimsHold(r)
    /\ AttestationStatus(r, o) # "raised"
    /\ o.request # "wrong"
    /\ ResponseMatches(r, o)

(* A step that ends verified is verify_receipt's, which accepted.          *)
LEMMA OnlyVerifyReceipt ==
    ASSUME Next, verdict'.how = "verified"
    PROVE  \E r \in Receipt, o \in Options :
              /\ Accepted(r, o)
              /\ verdict'.with = o /\ verdict'.of = r /\ verdict'.status = AttestationStatus(r, o)
<1>1. ~NextChunk /\ ~VerifyCapture
  <2>1. NextChunk => verdict'.how = "none"
    BY DEF NextChunk
  <2>2. VerifyCapture => verdict'.how \in {"capture_verified", "capture_rejected"}
    BY DEF VerifyCapture
  <2>3. QED BY <2>1, <2>2
<1>2. VerifyReceipt
  BY <1>1 DEF Next
<1>3. PICK r \in Receipt, o \in Options :
         verdict' = [how |-> IF Accepted(r, o) THEN "verified" ELSE "rejected",
                     status |-> AttestationStatus(r, o), of |-> r, with |-> o]
  BY Zenon, <1>2 DEF VerifyReceipt, Accepted
<1>4. verdict'.how = IF Accepted(r, o) THEN "verified" ELSE "rejected"
  BY <1>3
<1>5. Accepted(r, o)
  BY <1>4
<1>6. QED BY <1>3, <1>5

(* Under the default options a verified receipt is bound to the caller's   *)
(* request and to exactly one form of the response.                        *)
THEOREM VerifiedBinds == Spec => []VerifiedIsBound
<1>1. Init => VerifiedIsBound
  BY DEF Init, VerifiedIsBound
<1>2. VerifiedIsBound /\ [Next]_vars => VerifiedIsBound'
  <2> SUFFICES ASSUME VerifiedIsBound, [Next]_vars PROVE VerifiedIsBound'
    OBVIOUS
  <2>1. CASE UNCHANGED vars
    BY <2>1 DEF vars, VerifiedIsBound
  <2>2. CASE Next /\ verdict'.how = "verified"
    <3>1. PICK r \in Receipt, o \in Options :
             /\ Accepted(r, o)
             /\ verdict'.with = o /\ verdict'.of = r /\ verdict'.status = AttestationStatus(r, o)
      BY <2>2, OnlyVerifyReceipt
    <3>2. o.request \in Given /\ o.body \in Given /\ o.stream \in Given
      BY DEF Options
    <3>3. /\ o.requireBindings => o.request # "none" /\ (o.body # "none" \/ o.stream # "none")
          /\ o.request # "wrong"
          /\ o.body = "none" \/ o.stream = "none"
          /\ o.body # "none" => r.of = "body" /\ o.body = "right"
          /\ o.stream # "none" => r.of = "stream" /\ o.stream = "right"
      BY <3>1 DEF Accepted, BindingsPresent, ResponseMatches
    <3>4. /\ o.requireBindings =>
                /\ o.request = "right"
                /\ <<o.body, o.stream>> \in {<<"right", "none">>, <<"none", "right">>}
          /\ o.body # "none" => r.of = "body"
          /\ o.stream # "none" => r.of = "stream"
      BY <3>2, <3>3 DEF Given
    <3>5. QED BY <3>1, <3>4 DEF VerifiedIsBound
  <2>3. CASE verdict'.how # "verified"
    BY <2>3 DEF VerifiedIsBound
  <2>4. QED BY <2>1, <2>2, <2>3
<1>3. QED BY <1>1, <1>2, PTL DEF Spec

(* Nothing unattested is called verified, and evidence that was supplied   *)
(* is never ignored.                                                       *)
THEOREM EvidenceHolds == Spec => []EvidenceIsNeverAssumed
<1>1. Init => EvidenceIsNeverAssumed
  BY DEF Init, EvidenceIsNeverAssumed
<1>2. EvidenceIsNeverAssumed /\ [Next]_vars => EvidenceIsNeverAssumed'
  <2> SUFFICES ASSUME EvidenceIsNeverAssumed, [Next]_vars PROVE EvidenceIsNeverAssumed'
    OBVIOUS
  <2>1. CASE UNCHANGED vars
    BY <2>1 DEF vars, EvidenceIsNeverAssumed
  <2>2. CASE Next /\ verdict'.how = "verified"
    <3>1. PICK r \in Receipt, o \in Options :
             /\ Accepted(r, o)
             /\ verdict'.with = o /\ verdict'.of = r /\ verdict'.status = AttestationStatus(r, o)
      BY <2>2, OnlyVerifyReceipt
    <3> DEFINE v == r.envelope
               a == o.attestation
    <3>2. a \in {"none", "doc", "wrong"} /\ o.requireAttestation \in BOOLEAN /\ v \in Forms
      BY DEF Options, Receipt
    <3>3. CASE v.form = "compact"
      <4>1. v.embedded = "none"
        <5> HIDE DEF v
        <5>1. QED BY <3>2, <3>3 DEF Forms
      <4>2. CASE a = "none" /\ ~o.requireAttestation
        <5>1. AttestationStatus(r, o) = "unverified_by_this_sdk"
          BY <3>3, <4>2 DEF AttestationStatus, MaySkipEvidence
        <5>2. QED BY <3>1, <3>3, <4>2, <5>1 DEF EvidenceIsNeverAssumed
      <4>3. CASE ~(a = "none" /\ ~o.requireAttestation)
        <5>1. /\ AttestationStatus(r, o) # "raised"
              /\ AttestationStatus(r, o) \in {"verified", "raised"}
              /\ AttestationStatus(r, o) = "verified" => a = "doc"
          BY <3>1, <3>3, <4>3 DEF AttestationStatus, MaySkipEvidence, Evidence, Accepted
        <5>2. QED BY <3>1, <4>1, <5>1 DEF EvidenceIsNeverAssumed
      <4>4. QED BY <4>2, <4>3
    <3>4. CASE v.form = "flattened"
      <4>1. /\ AttestationStatus(r, o) # "raised"
            /\ AttestationStatus(r, o) \in {"verified", "raised"}
            /\ AttestationStatus(r, o) = "verified" => v.embedded = "doc" /\ a \in {"none", "doc"}
        BY <3>1, <3>4 DEF AttestationStatus, MaySkipEvidence, Evidence, Accepted
      <4>2. QED BY <3>1, <4>1 DEF EvidenceIsNeverAssumed
    <3>5. v.form \in {"compact", "flattened"}
      <4> HIDE DEF v
      <4>1. QED BY <3>2 DEF Forms
    <3>6. QED BY <3>3, <3>4, <3>5
  <2>3. CASE verdict'.how # "verified"
    BY <2>3 DEF EvidenceIsNeverAssumed
  <2>4. QED BY <2>1, <2>2, <2>3
<1>3. QED BY <1>1, <1>2, PTL DEF Spec
=============================================================================
