------------------------ MODULE CounterWindow_proofs ------------------------
(***************************************************************************)
(* A window loses no request and counts none twice, and a fold stays in    *)
(* its family, for every bound on the rows, every set of requests and      *)
(* every set of keys.                                                      *)
(*                                                                         *)
(* First what counting one more request does to the rows of a window: the  *)
(* lemmas about Count say which of its four outcomes it has, and leave out *)
(* by which fold it got there, then that every outcome keeps the rows      *)
(* sound (CountKeeps).                                                     *)
(***************************************************************************)
EXTENDS CounterWindow, SequenceTheorems, WellFoundedInduction, TLAPS

AllKeys == [endpoint : Endpoints \cup {"inference_other"},
            error    : Errors \cup {"unknown"},
            rest     : Families]

Row == [key : AllKeys, requests : SUBSET Requests]

HasKey(s, k) == \E i \in 1..Len(s) : s[i].key = k

HasRest(s, k) == \E i \in 1..Len(s) : s[i].key.rest = k.rest

-----------------------------------------------------------------------------
(* The minimum of a set of positions is in it, and nothing in it is less. *)
LEMMA MinIsLeast ==
    ASSUME NEW I \in SUBSET Nat, I # {}
    PROVE  Min(I) \in I /\ \A i \in I : Min(I) <= i
<1> DEFINE R == {ss \in Nat \X Nat : ss[1] < ss[2]}
<1>1. IsWellFoundedOn(R, Nat)
  BY Zenon, NatLessThanWellFounded DEF OpToRel
<1>2. PICK m \in I : \A i \in I : <<i, m>> \notin R
  <2> HIDE DEF R
  <2> QED BY <1>1, WFMin
<1>3. ASSUME NEW i \in I PROVE m <= i
  <2>1. i \in Nat /\ m \in Nat /\ <<i, m>> \in Nat \X Nat /\ <<i, m>> \notin R
    BY <1>2
  <2>2. ~(i < m)
    BY <2>1
  <2>3. QED BY <2>1, <2>2
<1>4. QED BY <1>3 DEF Min

(* FirstRow is the position of a row that the test accepts, or 0 and there *)
(* is none.  The five tests of Count, as sets of positions.                *)
First(s, I) == IF I # {} THEN Min(I) ELSE 0

LEMMA FirstIsIn ==
    ASSUME NEW s \in Seq(Row), NEW I \in SUBSET (1..Len(s))
    PROVE  /\ First(s, I) \in 0..Len(s)
           /\ First(s, I) > 0 <=> I # {}
           /\ First(s, I) > 0 => First(s, I) \in I
<1>1. I \in SUBSET Nat
  OBVIOUS
<1>2. CASE I # {}
  <2>1. First(s, I) = Min(I) /\ Min(I) \in I
    BY <1>1, <1>2, MinIsLeast DEF First
  <2>2. Min(I) \in 1..Len(s)
    BY <2>1
  <2>3. First(s, I) > 0
    BY <2>1, <2>2
  <2>4. QED BY <1>2, <2>1, <2>2, <2>3
<1>3. CASE I = {}
  BY <1>3 DEF First
<1>4. QED BY <1>2, <1>3

(* A rename makes a row under key k, with what row i had and the new       *)
(* requests, last; the rows behind row i come one forward.                 *)
Renamed(s, i, k, requests) ==
    [j \in 1..Len(s) |->
        CASE j < i              -> s[j]
          [] i <= j /\ j < Len(s) -> s[j + 1]
          [] OTHER              -> [key |-> k, requests |-> s[i].requests \cup requests]]

LEMMA RenameIs ==
    ASSUME NEW s \in Seq(Row), NEW i \in 1..Len(s), NEW k \in AllKeys,
           NEW requests \in SUBSET Requests
    PROVE  /\ Rename(s, i, k, requests) \in Seq(Row)
           /\ Rename(s, i, k, requests) = Renamed(s, i, k, requests)
<1> DEFINE new == [key |-> k, requests |-> s[i].requests \cup requests]
           a == SubSeq(s, 1, i - 1)
           b == SubSeq(s, i + 1, Len(s))
<1>1. s[i] \in Row /\ new \in Row
  <2>1. s[i] \in Row
    BY ElementOfSeq
  <2>2. s[i].requests \in SUBSET Requests
    BY <2>1 DEF Row
  <2>3. QED BY <2>1, <2>2 DEF Row
<1>2. /\ a \in Seq(Row) /\ Len(a) = i - 1 /\ \A j \in 1..(i - 1) : a[j] = s[j]
      /\ b \in Seq(Row) /\ Len(b) = Len(s) - i
      /\ \A j \in 1..(Len(s) - i) : b[j] = s[i + j]
  OBVIOUS
<1> HIDE DEF a, b
<1> DEFINE c == a \o b
<1>3. /\ c \in Seq(Row) /\ Len(c) = Len(s) - 1
      /\ \A j \in 1..(Len(s) - 1) : c[j] = IF j < i THEN s[j] ELSE s[j + 1]
  <2>1. /\ c \in Seq(Row) /\ Len(c) = Len(a) + Len(b)
        /\ \A j \in 1..(Len(a) + Len(b)) :
              c[j] = IF j <= Len(a) THEN a[j] ELSE b[j - Len(a)]
    BY <1>2, ConcatProperties
  <2>2. Len(s) \in Nat /\ i \in 1..Len(s)
    OBVIOUS
  <2>3. ASSUME NEW j \in 1..(Len(s) - 1)
        PROVE  c[j] = IF j < i THEN s[j] ELSE s[j + 1]
    <3>1. CASE j < i
      BY <1>2, <2>1, <2>2, <3>1
    <3>2. CASE ~(j < i)
      <4>1. c[j] = b[j - (i - 1)] /\ j - (i - 1) \in 1..(Len(s) - i)
        BY <1>2, <2>1, <2>2, <3>2
      <4>2. i + (j - (i - 1)) = j + 1
        BY <2>2
      <4>3. QED BY <1>2, <3>2, <4>1, <4>2
    <3>3. QED BY <3>1, <3>2
  <2>4. QED BY <1>2, <2>1, <2>2, <2>3
<1>4. Rename(s, i, k, requests) = Append(c, new)
  BY DEF Rename, NewRow, RemoveAt, a, b
<1> HIDE DEF c, new
<1> DEFINE d == Append(c, new)
<1>5. /\ d \in Seq(Row) /\ Len(d) = Len(s) /\ d[Len(s)] = new
      /\ \A j \in 1..(Len(s) - 1) : d[j] = c[j]
  BY <1>1, <1>3, AppendProperties
<1> HIDE DEF d
<1>6. \A j \in 1..Len(s) : d[j] = Renamed(s, i, k, requests)[j]
  <2>1. ASSUME NEW j \in 1..Len(s) PROVE d[j] = Renamed(s, i, k, requests)[j]
    <3>1. CASE j = Len(s)
      BY <1>5, <3>1 DEF Renamed, new
    <3>2. CASE j # Len(s)
      BY <1>3, <1>5, <3>2 DEF Renamed
    <3>3. QED BY <3>1, <3>2
  <2>2. QED BY <2>1
<1>7. Renamed(s, i, k, requests) = [j \in 1..Len(s) |-> Renamed(s, i, k, requests)[j]]
  BY DEF Renamed
<1>8. d = [j \in 1..Len(s) |-> d[j]]
  BY <1>5
<1>9. d = Renamed(s, i, k, requests)
  BY <1>6, <1>7, <1>8
<1>10. QED BY <1>4, <1>5, <1>9 DEF d

-----------------------------------------------------------------------------
(* What Count can do with a key. *)
AddsToOwn(s, k, requests, t) ==
    \E i \in 1..Len(s) : s[i].key = k /\ t = AddTo(s, i, requests)

OpensRow(s, k, requests, t) ==
    /\ ~HasKey(s, k) /\ Len(s) < MaxWindowKeys
    /\ t = NewRow(s, k, requests)

AddsToOther(s, k, requests, t) ==
    /\ ~HasKey(s, k) /\ Len(s) = MaxWindowKeys
    /\ \E i \in 1..Len(s) :
          /\ HasRest(s, k) => s[i].key.rest = k.rest
          /\ t = AddTo(s, i, requests)

RenamesRow(s, k, requests, t) ==
    /\ ~HasKey(s, k) /\ Len(s) = MaxWindowKeys
    /\ \E i \in 1..Len(s), folded \in {FoldError(k), FoldEndpoint(k)} :
          /\ s[i].key.rest = k.rest
          /\ ~HasKey(s, folded)
          /\ t = Rename(s, i, folded, requests)

LEMMA CountDoes ==
    ASSUME NEW s \in Seq(Row), Len(s) <= MaxWindowKeys, NEW k \in AllKeys,
           NEW requests \in SUBSET Requests
    PROVE  \/ AddsToOwn(s, k, requests, Count(s, k, requests))
           \/ OpensRow(s, k, requests, Count(s, k, requests))
           \/ AddsToOther(s, k, requests, Count(s, k, requests))
           \/ RenamesRow(s, k, requests, Count(s, k, requests))
<1> DEFINE At(key1) == {i \in 1..Len(s) : s[i].key = key1}
           Own == At(k)
           ErrorFolded == At(FoldError(k))
           Sibling == {i \in 1..Len(s) : s[i].key.endpoint = k.endpoint /\ s[i].key.rest = k.rest}
           EndpointFolded == At(FoldEndpoint(k))
           Kin == {i \in 1..Len(s) : s[i].key.rest = k.rest}
           own == First(s, Own)
           errorFolded == First(s, ErrorFolded)
           sibling == First(s, Sibling)
           endpointFolded == First(s, EndpointFolded)
           kin == First(s, Kin)
<1>1. Count(s, k, requests) =
        IF own > 0 THEN AddTo(s, own, requests)
        ELSE IF Len(s) < MaxWindowKeys THEN NewRow(s, k, requests)
        ELSE IF errorFolded > 0 THEN AddTo(s, errorFolded, requests)
        ELSE IF sibling > 0
             THEN Rename(s, sibling, FoldError(s[sibling].key), requests)
        ELSE IF endpointFolded > 0 THEN AddTo(s, endpointFolded, requests)
        ELSE IF kin > 0
             THEN Rename(s, kin, FoldEndpoint(s[kin].key), requests)
        ELSE AddTo(s, 1, requests)
  BY Zenon DEF Count, FirstRow, SelectInSeq, First
<1>2. /\ own \in 0..Len(s) /\ (own > 0 <=> Own # {}) /\ (own > 0 => own \in Own)
      /\ errorFolded \in 0..Len(s) /\ (errorFolded > 0 <=> ErrorFolded # {})
      /\ errorFolded > 0 => errorFolded \in ErrorFolded
      /\ sibling \in 0..Len(s) /\ (sibling > 0 <=> Sibling # {})
      /\ sibling > 0 => sibling \in Sibling
      /\ endpointFolded \in 0..Len(s) /\ (endpointFolded > 0 <=> EndpointFolded # {})
      /\ endpointFolded > 0 => endpointFolded \in EndpointFolded
      /\ kin \in 0..Len(s) /\ (kin > 0 <=> Kin # {}) /\ (kin > 0 => kin \in Kin)
  BY FirstIsIn
<1> HIDE DEF own, errorFolded, sibling, endpointFolded, kin
<1>3. /\ FoldError(k) \in AllKeys /\ FoldError(k).rest = k.rest
      /\ FoldEndpoint(k) \in AllKeys /\ FoldEndpoint(k).rest = k.rest
  BY DEF AllKeys, FoldError, FoldEndpoint
<1>4. \A i \in 1..Len(s) : s[i].key \in AllKeys
  <2>1. \A i \in 1..Len(s) : s[i] \in Row
    BY ElementOfSeq
  <2>2. QED BY <2>1 DEF Row
<1>5. Len(s) \in Nat /\ MaxWindowKeys \in Nat \ {0}
  BY WindowKeysAssumption
<1>6. CASE own > 0
  BY <1>1, <1>2, <1>6 DEF AddsToOwn
<1>7. CASE own = 0
  <2>1. ~HasKey(s, k)
    BY <1>2, <1>7 DEF HasKey
  <2>2. CASE Len(s) < MaxWindowKeys
    BY <1>1, <1>7, <2>1, <2>2 DEF OpensRow
  <2>3. CASE Len(s) = MaxWindowKeys
    <3>1. CASE errorFolded > 0
      BY <1>1, <1>2, <1>3, <1>7, <2>1, <2>3, <3>1 DEF AddsToOther
    <3>2. CASE errorFolded = 0 /\ sibling > 0
      <4>1. FoldError(s[sibling].key) = FoldError(k)
        BY <1>2, <1>4, <3>2 DEF AllKeys, FoldError
      <4>2. ~HasKey(s, FoldError(k))
        <5>1. ErrorFolded = {}
          BY <1>2, <3>2
        <5>2. QED BY <5>1 DEF HasKey
      <4>3. Count(s, k, requests) = Rename(s, sibling, FoldError(k), requests)
        BY <1>1, <1>7, <2>3, <3>2, <4>1
      <4>4. QED BY <1>2, <2>1, <2>3, <3>2, <4>2, <4>3 DEF RenamesRow
    <3>3. CASE errorFolded = 0 /\ sibling = 0 /\ endpointFolded > 0
      BY <1>1, <1>2, <1>3, <1>7, <2>1, <2>3, <3>3 DEF AddsToOther
    <3>4. CASE errorFolded = 0 /\ sibling = 0 /\ endpointFolded = 0 /\ kin > 0
      <4>1. FoldEndpoint(s[kin].key) = FoldEndpoint(k)
        BY <1>2, <1>4, <3>4 DEF AllKeys, FoldEndpoint
      <4>2. ~HasKey(s, FoldEndpoint(k))
        BY <1>2, <3>4 DEF HasKey
      <4>3. Count(s, k, requests) = Rename(s, kin, FoldEndpoint(k), requests)
        BY <1>1, <1>7, <2>3, <3>4, <4>1
      <4>4. QED BY <1>2, <2>1, <2>3, <3>4, <4>2, <4>3 DEF RenamesRow
    <3>5. CASE errorFolded = 0 /\ sibling = 0 /\ endpointFolded = 0 /\ kin = 0
      <4>1. Count(s, k, requests) = AddTo(s, 1, requests) /\ 1 \in 1..Len(s)
        BY <1>1, <1>5, <1>7, <2>3, <3>5
      <4>2. ~HasRest(s, k)
        BY <1>2, <3>5 DEF HasRest
      <4>3. QED BY <2>1, <2>3, <4>1, <4>2 DEF AddsToOther
    <3>6. QED BY <1>2, <3>1, <3>2, <3>3, <3>4, <3>5
  <2>4. QED BY <1>5, <2>2, <2>3
<1>8. QED BY <1>2, <1>6, <1>7

-----------------------------------------------------------------------------
(* The rows s of a window that has counted K: as CountedOnce, with types,  *)
(* and nothing in a row that was not counted.                              *)
Sound(s, K) ==
    /\ s \in Seq(Row) /\ Len(s) <= MaxWindowKeys
    /\ \A i \in 1..Len(s) : s[i].requests # {} /\ s[i].requests \subseteq K
    /\ \A i, j \in 1..Len(s) : s[i].key = s[j].key => i = j
    /\ \A i, j \in 1..Len(s) : s[i].requests \cap s[j].requests # {} => i = j
    /\ \A r \in K : \E i \in 1..Len(s) : r \in s[i].requests

(* Where the new request r is, and that its row is of its family if it can *)
(* be.                                                                     *)
Placed(s, k, r, t) ==
    \E m \in 1..Len(t) :
        /\ r \in t[m].requests
        /\ HasRest(s, k) => t[m].key.rest = k.rest

(* The rows t are those of s in another order, one of which has r as well  *)
(* and may have a key that no row of s had.                                *)
LEMMA OneRowGrows ==
    ASSUME NEW s, NEW K, Sound(s, K), NEW r \in Requests \ K,
           NEW t \in Seq(Row), Len(t) = Len(s),
           NEW f \in [1..Len(s) -> 1..Len(s)],
           \A i, j \in 1..Len(s) : i # j => f[i] # f[j],
           \A i \in 1..Len(s) : \E j \in 1..Len(s) : f[j] = i,
           NEW m \in 1..Len(s),
           t[m].requests = s[f[m]].requests \cup {r},
           \A j \in (1..Len(s)) \ {m} : t[j] = s[f[j]],
           t[m].key = s[f[m]].key \/ ~HasKey(s, t[m].key)
    PROVE  Sound(t, K \cup {r})
<1> DEFINE D == 1..Len(s)
           g(j) == s[f[j]]
<1>1. /\ \A j \in D : f[j] \in D /\ (j # m => t[j] = g(j))
      /\ \A i, j \in D : i # j => f[i] # f[j]
      /\ \A i \in D : \E j \in D : f[j] = i
      /\ m \in D /\ t[m].requests = g(m).requests \cup {r}
  OBVIOUS
<1>2. /\ \A i \in D : s[i].requests # {} /\ s[i].requests \subseteq K
      /\ \A i, j \in D : s[i].key = s[j].key => i = j
      /\ \A i, j \in D : s[i].requests \cap s[j].requests # {} => i = j
      /\ \A q \in K : \E i \in D : q \in s[i].requests
  BY DEF Sound
<1>3. t[m].key = g(m).key \/ \A i \in D : s[i].key # t[m].key
  BY DEF HasKey
<1> HIDE DEF D
<1>4. \A j \in D : /\ g(j).requests # {} /\ g(j).requests \subseteq K
                   /\ r \notin g(j).requests
                   /\ \A q : q \in t[j].requests <=>
                              q \in g(j).requests \/ (j = m /\ q = r)
  BY <1>1, <1>2
<1>5. ASSUME NEW i \in D, NEW j \in D, g(i).key = g(j).key PROVE i = j
  <2>1. f[i] \in D /\ f[j] \in D /\ s[f[i]].key = s[f[j]].key
    BY <1>1, <1>5
  <2>2. f[i] = f[j]
    BY <1>2, <2>1
  <2>3. QED BY <1>1, <2>2
<1>6. ASSUME NEW i \in D, NEW j \in D, NEW q, q \in g(i).requests, q \in g(j).requests
      PROVE  i = j
  <2>1. f[i] \in D /\ f[j] \in D /\ s[f[i]].requests \cap s[f[j]].requests # {}
    BY <1>1, <1>6
  <2>2. f[i] = f[j]
    BY <1>2, <2>1
  <2>3. QED BY <1>1, <2>2
<1> HIDE DEF g
<1>7. ASSUME NEW j \in D PROVE t[j].requests # {} /\ t[j].requests \subseteq K \cup {r}
  <2>1. PICK q \in g(j).requests : TRUE
    BY <1>4
  <2>2. q \in t[j].requests
    BY <1>4, <2>1
  <2>3. \A x \in t[j].requests : x \in K \/ x = r
    BY <1>4
  <2>4. QED BY <2>2, <2>3
<1>8. ASSUME NEW i \in D, NEW j \in D, t[i].key = t[j].key PROVE i = j
  <2>1. ASSUME NEW a \in D, a # m PROVE t[a].key = g(a).key /\ t[m].key # t[a].key
    <3>1. t[a] = g(a) /\ f[a] \in D /\ g(a) = s[f[a]]
      BY <1>1, <2>1 DEF g
    <3>2. CASE t[m].key = g(m).key
      <4>1. m \in D
        BY <1>1
      <4>2. g(m).key # g(a).key
        BY <1>5, <2>1, <4>1
      <4>3. QED BY <3>1, <3>2, <4>2
    <3>3. CASE s[f[a]].key # t[m].key
      BY <3>1, <3>3
    <3>4. QED BY <1>3, <3>1, <3>2, <3>3
  <2>2. CASE i = m \/ j = m
    BY <1>8, <2>1, <2>2
  <2>3. CASE i # m /\ j # m
    <3>1. g(i).key = g(j).key
      BY <1>8, <2>1, <2>3
    <3>2. QED BY <1>5, <3>1
  <2>4. QED BY <2>2, <2>3
<1>9. ASSUME NEW i \in D, NEW j \in D, t[i].requests \cap t[j].requests # {} PROVE i = j
  <2>1. PICK q \in t[i].requests : q \in t[j].requests
    BY <1>9
  <2>2. CASE q = r
    BY <1>4, <2>1, <2>2
  <2>3. CASE q # r
    <3>1. q \in g(i).requests /\ q \in g(j).requests
      BY <1>4, <2>1, <2>3
    <3>2. QED BY <1>6, <3>1
  <2>4. QED BY <2>2, <2>3
<1>10. ASSUME NEW q \in K \cup {r} PROVE \E j \in D : q \in t[j].requests
  <2>1. CASE q = r
    BY <1>1, <1>4, <2>1
  <2>2. CASE q \in K
    <3>1. PICK i \in D : q \in s[i].requests
      BY <1>2, <2>2
    <3>2. PICK j \in D : f[j] = i
      BY <1>1
    <3>3. QED BY <1>4, <3>1, <3>2 DEF g
  <2>3. QED BY <2>1, <2>2
<1>11. t \in Seq(Row) /\ Len(t) <= MaxWindowKeys /\ D = 1..Len(t)
  BY DEF Sound, D
<1>12. QED BY <1>7, <1>8, <1>9, <1>10, <1>11 DEF Sound

LEMMA AddToKeeps ==
    ASSUME NEW s, NEW K, Sound(s, K), NEW r \in Requests \ K, NEW i \in 1..Len(s)
    PROVE  /\ Sound(AddTo(s, i, {r}), K \cup {r})
           /\ Len(AddTo(s, i, {r})) = Len(s)
           /\ r \in AddTo(s, i, {r})[i].requests
           /\ AddTo(s, i, {r})[i].key = s[i].key
<1> DEFINE t == AddTo(s, i, {r})
           e == [s[i] EXCEPT !.requests = @ \cup {r}]
           f == [j \in 1..Len(s) |-> j]
<1>1. s \in Seq(Row)
  BY DEF Sound
<1>2. s[i] \in Row
  BY <1>1, ElementOfSeq
<1>3. e \in Row /\ e.requests = s[i].requests \cup {r} /\ e.key = s[i].key
  BY <1>2 DEF Row
<1>4. t = [s EXCEPT ![i] = e]
  BY DEF AddTo
<1> HIDE DEF e, t
<1>5. /\ t \in Seq(Row) /\ Len(t) = Len(s)
      /\ \A j \in 1..Len(s) : t[j] = IF j = i THEN e ELSE s[j]
  BY <1>1, <1>3, <1>4, ExceptSeq
<1>6. Sound(t, K \cup {r})
  <2>1. /\ f \in [1..Len(s) -> 1..Len(s)]
        /\ \A j \in 1..Len(s) : f[j] = j
    OBVIOUS
  <2> HIDE DEF f
  <2>2. /\ t[i].requests = s[f[i]].requests \cup {r}
        /\ t[i].key = s[f[i]].key
        /\ \A j \in 1..Len(s) : j # i => t[j] = s[f[j]]
    BY <1>3, <1>5, <2>1
  <2>3. QED BY <1>5, <2>1, <2>2, OneRowGrows
<1>7. QED BY <1>3, <1>5, <1>6 DEF t

LEMMA RenameKeeps ==
    ASSUME NEW s, NEW K, Sound(s, K), NEW r \in Requests \ K, NEW i \in 1..Len(s),
           NEW k \in AllKeys, ~HasKey(s, k), NEW q \in AllKeys, q.rest = k.rest
    PROVE  /\ Sound(Rename(s, i, k, {r}), K \cup {r})
           /\ Placed(s, q, r, Rename(s, i, k, {r}))
<1> DEFINE t == Rename(s, i, k, {r})
           n == Len(s)
           f == [j \in 1..n |-> IF j < i THEN j ELSE IF j < n THEN j + 1 ELSE i]
<1>1. s \in Seq(Row) /\ n \in Nat /\ i \in 1..n
  BY DEF Sound
<1>2. t \in Seq(Row) /\ t = Renamed(s, i, k, {r})
  BY <1>1, RenameIs
<1> HIDE DEF t
<1>3. /\ Len(t) = n
      /\ t[n] = [key |-> k, requests |-> s[i].requests \cup {r}]
      /\ \A j \in 1..n : j < i => t[j] = s[j]
      /\ \A j \in 1..n : i <= j /\ j < n => t[j] = s[j + 1]
  BY <1>1, <1>2 DEF Renamed
<1>4. Sound(t, K \cup {r})
  <2>1. /\ f \in [1..n -> 1..n]
        /\ \A j \in 1..n : f[j] = IF j < i THEN j ELSE IF j < n THEN j + 1 ELSE i
    BY <1>1
  <2> HIDE DEF f, n
  <2>2. ASSUME NEW a \in 1..n, NEW b \in 1..n, f[a] = f[b] PROVE a = b
    <3>1. n \in Nat /\ i \in Nat /\ a \in Nat /\ b \in Nat /\ a <= n /\ b <= n
      BY <1>1
    <3>2. (IF a < i THEN a ELSE IF a < n THEN a + 1 ELSE i)
            = (IF b < i THEN b ELSE IF b < n THEN b + 1 ELSE i)
      BY <2>1, <2>2
    <3>3. QED BY <3>1, <3>2
  <2>3. ASSUME NEW a \in 1..n PROVE \E b \in 1..n : f[b] = a
    <3>1. CASE a < i
      BY <1>1, <2>1, <3>1
    <3>2. CASE a = i
      BY <1>1, <2>1, <3>2
    <3>3. CASE a > i
      <4>1. a - 1 \in 1..n /\ ~(a - 1 < i) /\ a - 1 < n /\ (a - 1) + 1 = a
        BY <1>1, <3>3
      <4>2. QED BY <2>1, <4>1
    <3>4. QED BY <1>1, <3>1, <3>2, <3>3
  <2>4. /\ n \in 1..n /\ f[n] = i
        /\ t[n].requests = s[f[n]].requests \cup {r} /\ t[n].key = k
    BY <1>1, <1>3, <2>1
  <2>5. ASSUME NEW j \in (1..n) \ {n} PROVE t[j] = s[f[j]]
    <3>1. j \in 1..n /\ j < n
      BY <1>1
    <3>2. CASE j < i
      BY <1>3, <2>1, <3>1, <3>2
    <3>3. CASE ~(j < i)
      BY <1>1, <1>3, <2>1, <3>1, <3>3
    <3>4. QED BY <3>2, <3>3
  <2>6. t[n].key = s[f[n]].key \/ ~HasKey(s, t[n].key)
    BY <2>4
  <2>7. /\ f \in [1..Len(s) -> 1..Len(s)] /\ Len(s) \in 1..Len(s)
        /\ \A a, b \in 1..Len(s) : a # b => f[a] # f[b]
        /\ \A a \in 1..Len(s) : \E b \in 1..Len(s) : f[b] = a
        /\ t \in Seq(Row) /\ Len(t) = Len(s)
        /\ t[Len(s)].requests = s[f[Len(s)]].requests \cup {r}
        /\ \A j \in (1..Len(s)) \ {Len(s)} : t[j] = s[f[j]]
        /\ t[Len(s)].key = s[f[Len(s)]].key \/ ~HasKey(s, t[Len(s)].key)
    BY <1>2, <1>3, <2>1, <2>2, <2>3, <2>4, <2>5, <2>6 DEF n
  <2>8. QED BY <2>7, OneRowGrows
<1>5. n \in 1..Len(t) /\ r \in t[n].requests /\ t[n].key.rest = q.rest
  BY <1>1, <1>3
<1>6. QED BY <1>4, <1>5 DEF t, Placed

LEMMA NewRowKeeps ==
    ASSUME NEW s, NEW K, Sound(s, K), NEW r \in Requests \ K, NEW k \in AllKeys,
           ~HasKey(s, k), Len(s) < MaxWindowKeys
    PROVE  /\ Sound(NewRow(s, k, {r}), K \cup {r})
           /\ Len(NewRow(s, k, {r})) = Len(s) + 1
           /\ r \in NewRow(s, k, {r})[Len(s) + 1].requests
           /\ NewRow(s, k, {r})[Len(s) + 1].key = k
<1> DEFINE t == NewRow(s, k, {r})
           e == [key |-> k, requests |-> {r}]
           n == Len(s)
<1>1. s \in Seq(Row) /\ n \in Nat /\ e \in Row /\ n + 1 <= MaxWindowKeys
  BY WindowKeysAssumption DEF Sound, Row
<1>2. t = Append(s, e)
  BY DEF NewRow
<1>3. e.key = k /\ e.requests = {r}
  OBVIOUS
<1> HIDE DEF e, t
<1>4. /\ t \in Seq(Row) /\ Len(t) = n + 1 /\ t[n + 1] = e
      /\ \A j \in 1..n : t[j] = s[j]
  BY <1>1, <1>2, AppendProperties
<1> HIDE DEF n
<1>5. \A j \in 1..(n + 1) : j \in 1..n \/ j = n + 1
  BY <1>1
<1>6. \A j \in 1..n : s[j].requests \subseteq K /\ s[j].requests # {} /\ s[j].key # k
  BY DEF Sound, HasKey, n
<1>7. \A j \in 1..(n + 1) : t[j].requests # {} /\ t[j].requests \subseteq K \cup {r}
  BY <1>3, <1>4, <1>5, <1>6
<1>8. \A i, j \in 1..(n + 1) : t[i].key = t[j].key => i = j
  BY <1>3, <1>4, <1>5, <1>6 DEF Sound, n
<1>9. \A i, j \in 1..(n + 1) : t[i].requests \cap t[j].requests # {} => i = j
  BY <1>3, <1>4, <1>5, <1>6 DEF Sound, n
<1>10. ASSUME NEW q \in K \cup {r} PROVE \E j \in 1..(n + 1) : q \in t[j].requests
  <2>1. CASE q = r
    BY <1>1, <1>3, <1>4, <2>1
  <2>2. CASE q \in K
    <3>1. PICK j \in 1..n : q \in s[j].requests
      BY <2>2 DEF Sound, n
    <3>2. j \in 1..(n + 1)
      BY <1>1, <3>1
    <3>3. QED BY <1>4, <3>1, <3>2
  <2>3. QED BY <2>1, <2>2
<1>11. Sound(t, K \cup {r})
  BY <1>1, <1>4, <1>7, <1>8, <1>9, <1>10 DEF Sound
<1>12. QED BY <1>3, <1>4, <1>11 DEF t, n

-----------------------------------------------------------------------------
(* One increment, whatever Count does with it. *)
LEMMA CountKeeps ==
    ASSUME NEW s, NEW K, Sound(s, K), NEW r \in Requests \ K, NEW k \in AllKeys
    PROVE  /\ Sound(Count(s, k, {r}), K \cup {r})
           /\ Placed(s, k, r, Count(s, k, {r}))
<1> DEFINE t == Count(s, k, {r})
<1>1. s \in Seq(Row) /\ Len(s) \in Nat /\ Len(s) <= MaxWindowKeys
  BY DEF Sound
<1>2. \/ AddsToOwn(s, k, {r}, t) \/ OpensRow(s, k, {r}, t)
      \/ AddsToOther(s, k, {r}, t) \/ RenamesRow(s, k, {r}, t)
  BY <1>1, CountDoes
<1> HIDE DEF t
<1>3. CASE AddsToOwn(s, k, {r}, t) \/ AddsToOther(s, k, {r}, t)
  <2>1. PICK i \in 1..Len(s) :
            t = AddTo(s, i, {r}) /\ (HasRest(s, k) => s[i].key.rest = k.rest)
    BY <1>3 DEF AddsToOwn, AddsToOther
  <2>2. /\ Sound(t, K \cup {r}) /\ Len(t) = Len(s)
        /\ r \in t[i].requests /\ t[i].key = s[i].key
    BY <2>1, AddToKeeps
  <2>3. QED BY <2>1, <2>2 DEF Placed, t
<1>4. CASE OpensRow(s, k, {r}, t)
  <2>1. /\ Sound(t, K \cup {r}) /\ Len(t) = Len(s) + 1
        /\ r \in t[Len(s) + 1].requests /\ t[Len(s) + 1].key = k
    BY <1>4, NewRowKeeps DEF OpensRow
  <2>2. Len(s) + 1 \in 1..Len(t)
    BY <1>1, <2>1
  <2>3. QED BY <2>1, <2>2 DEF Placed, t
<1>5. CASE RenamesRow(s, k, {r}, t)
  <2>1. PICK i \in 1..Len(s), folded \in {FoldError(k), FoldEndpoint(k)} :
            ~HasKey(s, folded) /\ t = Rename(s, i, folded, {r})
    BY <1>5 DEF RenamesRow
  <2>2. folded \in AllKeys /\ folded.rest = k.rest
    BY <2>1 DEF AllKeys, FoldError, FoldEndpoint
  <2>3. QED BY <2>1, <2>2, RenameKeeps DEF t
<1>6. QED BY <1>2, <1>3, <1>4, <1>5

-----------------------------------------------------------------------------
WindowInv == Sound(window, DOMAIN countedAs)

LEMMA InitWindow == WindowInit => WindowInv
<1> SUFFICES ASSUME WindowInit PROVE WindowInv
  OBVIOUS
<1>1. window = <<>> /\ DOMAIN countedAs = {}
  BY DEF WindowInit
<1>2. Len(window) = 0 /\ window \in Seq(Row) /\ 0 <= MaxWindowKeys
  BY <1>1, WindowKeysAssumption
<1>3. QED BY <1>1, <1>2 DEF WindowInv, Sound

LEMMA CountRequestWindow ==
    ASSUME WindowInv, NEW r \in Requests, NEW k \in Keys, CountRequest(r, k)
    PROVE  /\ WindowInv'
           /\ DOMAIN countedAs' = DOMAIN countedAs \cup {r} /\ r \notin DOMAIN countedAs
           /\ countedAs'[r] = k
           /\ Placed(window, k, r, window')
<1>1. k \in AllKeys
  BY DEF Keys, AllKeys
<1>2. r \notin DOMAIN countedAs /\ window' = Count(window, k, {r})
  BY DEF CountRequest
<1>3. DOMAIN countedAs' = DOMAIN countedAs \cup {r} /\ countedAs'[r] = k
  BY DEF CountRequest
<1>4. Sound(window', DOMAIN countedAs \cup {r}) /\ Placed(window, k, r, window')
  BY <1>1, <1>2, CountKeeps DEF WindowInv
<1>5. QED BY <1>2, <1>3, <1>4 DEF WindowInv

LEMMA StepWindow == WindowInv /\ [WindowNext]_windowVars => WindowInv'
<1> SUFFICES ASSUME WindowInv, [WindowNext]_windowVars PROVE WindowInv'
  OBVIOUS
<1>1. CASE WindowNext
  BY <1>1, CountRequestWindow DEF WindowNext
<1>2. CASE UNCHANGED windowVars
  BY <1>2 DEF windowVars, WindowInv
<1>3. QED BY <1>1, <1>2

LEMMA WindowInvariance == WindowSpec => []WindowInv
BY InitWindow, StepWindow, PTL DEF WindowSpec

(* Folding loses no request and counts none twice, in a window that keeps  *)
(* its bound and never has two rows under a key (_merge_counters_locked).  *)
THEOREM EachIsCountedOnce == WindowSpec => []CountedOnce
<1>1. WindowInv => CountedOnce
  <2> SUFFICES ASSUME WindowInv PROVE CountedOnce
    OBVIOUS
  <2>1. DOMAIN window = 1..Len(window)
    BY DEF WindowInv, Sound
  <2>2. WindowTypeOK
    BY <2>1 DEF WindowInv, Sound, WindowTypeOK
  <2>3. \A i, j \in DOMAIN window : window[i].key = window[j].key => i = j
    BY <2>1 DEF WindowInv, Sound
  <2>4. ASSUME NEW r \in DOMAIN countedAs
        PROVE  \E i \in DOMAIN window :
                   /\ r \in window[i].requests
                   /\ \A j \in DOMAIN window : r \in window[j].requests => j = i
    <3>1. PICK i \in DOMAIN window : r \in window[i].requests
      BY <2>1 DEF WindowInv, Sound
    <3>2. \A j \in DOMAIN window : r \in window[j].requests => j = i
      BY <2>1, <3>1 DEF WindowInv, Sound
    <3>3. QED BY <3>1, <3>2
  <2>5. QED BY <2>2, <2>3, <2>4 DEF CountedOnce
<1>2. QED BY <1>1, WindowInvariance, PTL

(* A request whose family has a row is counted in a row of its family,     *)
(* also when the window is full (the order of the folds in                 *)
(* _merge_counters_locked).                                                *)
THEOREM FamilyIsKept == WindowSpec => FoldsStayInTheFamily
<1>1. ASSUME WindowInv, [WindowNext]_windowVars
      PROVE  [\A r \in DOMAIN countedAs' \ DOMAIN countedAs :
                 (\E i \in DOMAIN window : window[i].key.rest = countedAs'[r].rest)
                   => window'[RowOf(r)'].key.rest = countedAs'[r].rest]_windowVars
  <2>1. CASE UNCHANGED windowVars
    BY <2>1
  <2>2. CASE WindowNext
    <3>1. PICK r \in Requests, k \in Keys : CountRequest(r, k)
      BY <2>2 DEF WindowNext
    <3>2. /\ WindowInv' /\ DOMAIN countedAs' = DOMAIN countedAs \cup {r} /\ countedAs'[r] = k
          /\ Placed(window, k, r, window')
      BY <1>1, <3>1, CountRequestWindow
    <3>3. /\ DOMAIN window = 1..Len(window) /\ DOMAIN window' = 1..Len(window')
          /\ \A i, j \in DOMAIN window' :
                window'[i].requests \cap window'[j].requests # {} => i = j
      BY <1>1, <3>2 DEF WindowInv, Sound
    <3>4. PICK m \in DOMAIN window' :
              r \in window'[m].requests /\ (HasRest(window, k) => window'[m].key.rest = k.rest)
      BY <3>2, <3>3 DEF Placed
    <3>5. RowOf(r)' = m
      <4>1. \A i \in DOMAIN window' : r \in window'[i].requests <=> i = m
        BY <3>3, <3>4
      <4>2. QED BY <4>1 DEF RowOf
    <3>6. ASSUME NEW i \in DOMAIN window, window[i].key.rest = k.rest
          PROVE  window'[m].key.rest = k.rest
      BY <3>3, <3>4, <3>6 DEF HasRest
    <3>7. QED BY <3>2, <3>5, <3>6
  <2>3. QED BY <1>1, <2>1, <2>2
<1>2. QED BY <1>1, WindowInvariance, PTL DEF WindowSpec, FoldsStayInTheFamily
=============================================================================
