------------------------ MODULE GatewaySession_proofs ------------------------
(***************************************************************************)
(* An attested session, for any number of fetches over its connection.     *)
(* What a fetch reads is judged by where it stands in the stream, so the   *)
(* inductive invariant is about the stream: what was received and what is  *)
(* still to come are together a run of whole answers of which only the     *)
(* beginning can be missing (WellFormed).  A header is then followed by    *)
(* the body of the same answer and preceded by its status line, whatever   *)
(* an earlier fetch left behind; and while every fetch was accepted the    *)
(* stream holds at most the one answer that is waited for (InStep).        *)
(***************************************************************************)
EXTENDS GatewaySession, SequenceTheorems, WellFoundedInduction, TLAPS

Chunk == [part : Parts, answer : Answers]

(* b can come behind a: answers are sent whole, one after the other.       *)
Adjoins(a, b) ==
    \/ a.part = "status" /\ b.part = "headers" /\ b.answer = a.answer
    \/ a.part = "headers" /\ b.part = "half" /\ b.answer = a.answer
    \/ a.part = "half" /\ b.part = "rest" /\ b.answer = a.answer
    \/ a.part = "rest" /\ b.part = "status"

WellFormed(s) ==
    /\ s \in Seq(Chunk)
    /\ \A i \in 1..Len(s) :
          /\ i < Len(s) => Adjoins(s[i], s[i + 1])
          /\ i = Len(s) => s[i].part = "rest"
          /\ s[i].answer.nonce <= s[i].answer.born

Stream == got \o inbox

Block(answer) == <<[part |-> "status", answer |-> answer],
                   [part |-> "headers", answer |-> answer],
                   [part |-> "half", answer |-> answer],
                   [part |-> "rest", answer |-> answer]>>

Results == [how : {"raised", "interrupted"}] \cup [how : {"accepted"}, answer : Answers]

Requests == {"whole", "torn", "garbled"}

(* The connection is open while it is used, and the first fetch pins it.   *)
LinkInv ==
    /\ pc = "connect" => link = "none"
    /\ pc \in {"handshake", "send", "head", "idle"} => link = "open"
    /\ pinned => pc \in {"send", "head", "idle"}
    /\ ~pinned => fetch = 1 /\ pc # "idle"
    /\ pinned /\ pc # "idle" => fetch > 1
    /\ pc = "end" => /\ results[1].how # "accepted"
                     /\ results[1].how = "raised" => link # "open"

AllAccepted == \A n \in DOMAIN results : results[n].how = "accepted"

InStep ==
    AllAccepted =>
        /\ pc \notin {"head", "end"} => inbox = <<>> /\ asked = <<>>
        /\ pc = "head" =>
            \/ asked = <<"whole">> /\ Len(Stream) = 0
            \/ asked = <<>> /\ Len(Stream) = 4 /\ Stream[1].part = "status"

SessionInv ==
    /\ SessionTypeOK
    /\ results \in Seq(Results)
    /\ WellFormed(Stream)
    /\ pc # "head" => got = <<>>
    /\ LinkInv /\ AcceptedIsFresh /\ InStep

-----------------------------------------------------------------------------
(* A nonempty set of positions has a first one.                            *)
LEMMA FirstIsLeast ==
    ASSUME NEW I \in SUBSET Nat, I # {}
    PROVE  Min(I) \in I /\ \A i \in I : Min(I) <= i
<1> DEFINE R == {ss \in Nat \X Nat : ss[1] < ss[2]}
<1>1. IsWellFoundedOn(R, Nat)
  BY Zenon, NatLessThanWellFounded DEF OpToRel
<1>2. PICK m \in I : \A i \in I : <<i, m>> \notin R
  <2> HIDE DEF R
  <2> QED BY <1>1, WFMin
<1>3. ASSUME NEW i \in I PROVE m <= i
  <2>1. i \in Nat /\ m \in Nat /\ <<i, m>> \in Nat \X Nat /\ <<i, m>> \notin R
    BY <1>2
  <2>2. ~(i < m)
    BY <2>1
  <2>3. QED BY <2>1, <2>2
<1>4. QED BY <1>3 DEF Min

(* Where the header ends: at the first blank line that was received.       *)
LEMMA HeadEndIsFirst ==
    ASSUME NEW s \in Seq(Chunk)
    PROVE  /\ HeadEnd(s) \in 0..Len(s)
           /\ HeadEnd(s) > 0 => /\ s[HeadEnd(s)].part = "headers"
                                /\ \A i \in 1..Len(s) :
                                      s[i].part = "headers" => HeadEnd(s) <= i
<1> DEFINE I == {i \in 1..Len(s) : s[i].part = "headers"}
<1>1. HeadEnd(s) = IF I # {} THEN Min(I) ELSE 0
  BY DEF HeadEnd, SelectInSeq
<1>2. I \in SUBSET Nat
  OBVIOUS
<1>3. CASE I # {}
  <2>1. Min(I) \in I /\ \A i \in I : Min(I) <= i
    BY <1>2, <1>3, FirstIsLeast
  <2>2. QED BY <1>1, <1>3, <2>1
<1>4. CASE I = {}
  BY <1>1, <1>4
<1>5. QED BY <1>3, <1>4

(* The status that is read is that of a chunk among the first ones.        *)
LEMMA StatusIsAmong ==
    ASSUME NEW s \in Seq(Chunk), NEW lineEnd \in BOOLEAN, HeadEnd(s) > 0,
           StatusLineIs200(s, lineEnd)
    PROVE  \E j \in 1..HeadEnd(s) : s[j].part = "status" /\ s[j].answer.flaw # "status"
<1> DEFINE k == HeadEnd(s)
           h == SubSeq(s, 1, k)
           I == {i \in 1..Len(h) : h[i].part = "status"}
           j == SelectInSeq(h, LAMBDA t : t.part = "status")
<1>1. k \in 1..Len(s)
  BY HeadEndIsFirst
<1>2. Len(h) = k /\ \A i \in 1..k : h[i] = s[i]
  BY <1>1
<1>3. j = IF I # {} THEN Min(I) ELSE 0
  BY DEF SelectInSeq
<1>4. j > 0 /\ s[j].answer.flaw # "status"
  BY DEF StatusLineIs200
<1>5. I # {}
  <2> HIDE DEF I, j, h
  <2>1. QED BY <1>3, <1>4
<1>6. I \in SUBSET Nat
  OBVIOUS
<1>7. j \in I
  BY <1>3, <1>5, <1>6, FirstIsLeast
<1>8. QED BY <1>2, <1>4, <1>7

-----------------------------------------------------------------------------
(* Streams: what is left behind a part, what is split in two, and what a   *)
(* whole answer is added to.                                               *)
LEMMA RestIsWellFormed ==
    ASSUME NEW a \in Seq(Chunk), NEW b \in Seq(Chunk), WellFormed(a \o b)
    PROVE  WellFormed(b)
<1> DEFINE s == a \o b
           m == Len(a)
<1>1. /\ Len(s) = m + Len(b) /\ m \in Nat /\ Len(b) \in Nat
      /\ \A i \in 1..Len(b) : m + i \in 1..Len(s) /\ s[m + i] = b[i]
  OBVIOUS
<1>2. ASSUME NEW i \in 1..Len(b)
      PROVE  /\ i < Len(b) => Adjoins(b[i], b[i + 1])
             /\ i = Len(b) => b[i].part = "rest"
             /\ b[i].answer.nonce <= b[i].answer.born
  <2>1. /\ m + i < Len(s) => Adjoins(s[m + i], s[m + i + 1])
        /\ m + i = Len(s) => s[m + i].part = "rest"
        /\ s[m + i].answer.nonce <= s[m + i].answer.born
    BY <1>1 DEF WellFormed
  <2>2. i < Len(b) => m + i < Len(s) /\ s[m + i + 1] = b[i + 1]
    BY <1>1
  <2>3. s[m + i] = b[i] /\ (i = Len(b) => m + i = Len(s))
    BY <1>1
  <2> HIDE DEF s, m
  <2>4. QED BY <2>1, <2>2, <2>3
<1>3. QED BY <1>2 DEF WellFormed

LEMMA ConcatChunks ==
    ASSUME NEW a \in Seq(Chunk), NEW b \in Seq(Chunk), NEW c \in Seq(Chunk)
    PROVE  (a \o b) \o c = a \o (b \o c)
BY ConcatAssociative

LEMMA SplitStream ==
    ASSUME NEW a \in Seq(Chunk), NEW b \in Seq(Chunk), NEW n \in 1..Len(b)
    PROVE  /\ SubSeq(b, 1, n) \in Seq(Chunk) /\ SubSeq(b, n + 1, Len(b)) \in Seq(Chunk)
           /\ a \o SubSeq(b, 1, n) \in Seq(Chunk)
           /\ Len(SubSeq(b, n + 1, Len(b))) = Len(b) - n
           /\ Len(a \o SubSeq(b, 1, n)) = Len(a) + n
           /\ (a \o SubSeq(b, 1, n)) \o SubSeq(b, n + 1, Len(b)) = a \o b
<1> DEFINE p == SubSeq(b, 1, n)
           q == SubSeq(b, n + 1, Len(b))
<1>1. p \in Seq(Chunk) /\ q \in Seq(Chunk) /\ Len(p) = n /\ Len(q) = Len(b) - n
  OBVIOUS
<1>2. p \o q = SubSeq(b, 1, Len(b)) /\ SubSeq(b, 1, Len(b)) = b
  BY ConcatAdjacentSubSeq, SubSeqFull
<1> HIDE DEF p, q
<1>3. (a \o p) \o q = a \o (p \o q)
  BY <1>1, ConcatChunks
<1>4. a \o p \in Seq(Chunk) /\ Len(a \o p) = Len(a) + n
  BY <1>1, ConcatProperties
<1>5. QED BY <1>1, <1>2, <1>3, <1>4 DEF p, q

LEMMA BlockIsAdded ==
    ASSUME NEW s, WellFormed(s), NEW answer \in Answers, answer.nonce <= answer.born
    PROVE  /\ WellFormed(s \o Block(answer))
           /\ Len(s \o Block(answer)) = Len(s) + 4
           /\ Len(s) = 0 => (s \o Block(answer))[1].part = "status"
<1> DEFINE b == Block(answer)
           t == s \o b
           m == Len(s)
<1>1. b \in Seq(Chunk) /\ Len(b) = 4
  BY DEF Block, Chunk, Parts
<1>2. /\ \A i \in 1..4 : b[i].answer = answer
      /\ b[1].part = "status" /\ b[2].part = "headers" /\ b[3].part = "half"
      /\ b[4].part = "rest"
  BY DEF Block
<1>3. s \in Seq(Chunk) /\ m \in Nat
  BY DEF WellFormed
<1> HIDE DEF b
<1>4. /\ t \in Seq(Chunk) /\ Len(t) = m + 4
      /\ \A i \in 1..m + 4 : t[i] = IF i <= m THEN s[i] ELSE b[i - m]
  <2>1. /\ s \o b \in Seq(Chunk) /\ Len(s \o b) = Len(s) + Len(b)
        /\ \A i \in 1 .. Len(s) + Len(b) :
              (s \o b)[i] = IF i <= Len(s) THEN s[i] ELSE b[i - Len(s)]
    BY <1>1, <1>3, ConcatProperties
  <2>2. QED BY <1>1, <2>1
<1> HIDE DEF t
<1>5. ASSUME NEW i \in 1..m + 4
      PROVE  /\ i < m + 4 => Adjoins(t[i], t[i + 1])
             /\ i = m + 4 => t[i].part = "rest"
             /\ t[i].answer.nonce <= t[i].answer.born
  <2>1. CASE i < m
    <3>1. i \in 1..Len(s) /\ t[i] = s[i] /\ t[i + 1] = s[i + 1]
      BY <1>3, <1>4, <2>1
    <3>2. QED BY <1>3, <2>1, <3>1 DEF WellFormed
  <2>2. CASE i = m
    <3>1. i \in 1..Len(s) /\ t[i] = s[i] /\ t[i + 1] = b[1]
      BY <1>3, <1>4, <2>2
    <3>2. t[i].part = "rest" /\ t[i].answer.nonce <= t[i].answer.born
      BY <2>2, <3>1 DEF WellFormed
    <3>3. QED BY <1>2, <1>3, <2>2, <3>1, <3>2 DEF Adjoins
  <2>3. CASE i > m
    <3>1. i - m \in 1..4 /\ t[i] = b[i - m]
      BY <1>3, <1>4, <2>3
    <3>2. i < m + 4 => t[i + 1] = b[i - m + 1] /\ i - m \in 1..3
      BY <1>3, <1>4, <2>3
    <3>3. \A j \in 1..3 : Adjoins(b[j], b[j + 1])
      BY <1>2 DEF Adjoins
    <3>4. QED BY <1>2, <1>3, <3>1, <3>2, <3>3
  <2>4. QED BY <1>3, <2>1, <2>2, <2>3
<1>6. m = 0 => t[1].part = "status"
  BY <1>2, <1>4
<1>7. WellFormed(t)
  BY <1>4, <1>5 DEF WellFormed
<1>8. QED BY <1>4, <1>6, <1>7 DEF t, b

-----------------------------------------------------------------------------
LEMMA AddResult ==
    ASSUME NEW s \in Seq(Results), NEW r \in Results
    PROVE  /\ Append(s, r) \in Seq(Results) /\ Len(Append(s, r)) = Len(s) + 1
           /\ \A i \in 1..Len(s) : Append(s, r)[i] = s[i]
           /\ Append(s, r)[Len(s) + 1] = r
OBVIOUS

LEMMA AskingIs ==
    ASSUME asked \in Seq(Requests), NEW request \in {"whole", "torn"}
    PROVE  /\ Asking(request) \in Seq(Requests)
           /\ asked = <<>> => Asking(request) = <<request>>
<1>1. CASE asked # <<>> /\ Last(asked) = "torn"
  <2>1. Front(asked) \in Seq(Requests)
    BY <1>1 DEF Front
  <2>2. PICK r \in Requests : Asking(request) = Append(Front(asked), r)
    BY <1>1 DEF Asking, Requests
  <2>3. QED BY <1>1, <2>1, <2>2
<1>2. CASE ~(asked # <<>> /\ Last(asked) = "torn")
  <2>1. Asking(request) = Append(asked, request) /\ request \in Requests
    BY <1>2 DEF Asking, Requests
  <2>2. Append(asked, request) \in Seq(Requests)
    BY <2>1
  <2>3. Append(<<>>, request) = <<request>>
    OBVIOUS
  <2>4. QED BY <2>1, <2>2, <2>3
<1>3. QED BY <1>1, <1>2

(* A fetch that fails, with the client's error or its caller's interrupt.  *)
Fails(how) ==
    /\ pc \in {"connect", "handshake", "send", "head"} /\ how \in {"raised", "interrupted"}
    /\ results' = Append(results, [how |-> how])
    /\ link' = IF how = "raised" THEN LinkAfterFailure ELSE link
    /\ pc' = IF pinned THEN "idle" ELSE "end"
    /\ got' = <<>>
    /\ UNCHANGED <<pinned, fetch>>

LEMMA FailsKeeps ==
    ASSUME SessionInv, NEW how, Fails(how),
           inbox' \in Seq(Chunk), WellFormed(inbox'), asked' \in Seq(Requests)
    PROVE  SessionInv'
<1> DEFINE n == Len(results)
           r == [how |-> how]
<1>1. /\ SessionTypeOK /\ results \in Seq(Results) /\ LinkInv /\ AcceptedIsFresh
      /\ n \in Nat /\ n = fetch - 1 /\ fetch \in 1..MaxFetches /\ pinned \in BOOLEAN
      /\ MaxFetches \in Nat
  BY SessionAssumption DEF SessionInv, SessionTypeOK, Fails
<1>2. r \in Results /\ r.how = how /\ how # "accepted"
  BY DEF Results, Fails
<1> HIDE DEF r
<1>3. /\ results' \in Seq(Results) /\ Len(results') = n + 1
      /\ \A i \in 1..n : results'[i] = results[i]
      /\ results'[n + 1] = r
  BY <1>1, <1>2, AddResult DEF Fails, r
<1>4. /\ pc \in {"connect", "handshake", "send", "head"}
      /\ link' = (IF how = "raised" THEN LinkAfterFailure ELSE link)
      /\ pc' = (IF pinned THEN "idle" ELSE "end")
      /\ got' = <<>> /\ pinned' = pinned /\ fetch' = fetch
  BY DEF Fails
<1>5. pinned => link = "open" /\ link' = "open"
  BY <1>1, <1>4 DEF LinkInv, LinkAfterFailure
<1>6. pinned => n > 0 /\ results[1].how = "accepted" /\ results'[1].how = "accepted"
  <2>1. pinned => results[1].how = "accepted"
    BY <1>1 DEF SessionTypeOK
  <2>2. pinned => n > 0
    BY <1>1, <1>4 DEF LinkInv
  <2>3. QED BY <1>1, <1>3, <2>1, <2>2
<1>7. ~pinned => n = 0 /\ results'[1].how = how
  BY <1>1, <1>2, <1>3 DEF LinkInv
<1>8. SessionTypeOK'
  <2>1. link' \in {"none", "open", "closed"}
    BY <1>1, <1>4 DEF SessionTypeOK, LinkAfterFailure
  <2>2. QED BY <1>1, <1>3, <1>4, <1>5, <1>6, <2>1 DEF SessionTypeOK, Chunk, Requests
<1>9. WellFormed(Stream')
  <2>1. Stream' = inbox'
    BY <1>4 DEF Stream
  <2>2. QED BY <2>1
<1>10. LinkInv'
  <2>1. ~pinned /\ how = "raised" => link' # "open"
    BY <1>4 DEF LinkAfterFailure
  <2>2. QED BY <1>1, <1>2, <1>4, <1>5, <1>7, <2>1 DEF LinkInv
<1>11. AcceptedIsFresh'
  BY <1>1, <1>2, <1>3 DEF AcceptedIsFresh
<1>12. InStep'
  BY <1>1, <1>2, <1>3 DEF InStep, AllAccepted
<1>13. QED BY <1>3, <1>4, <1>8, <1>9, <1>10, <1>11, <1>12 DEF SessionInv

(* A fetch that goes on, and what was in the stream is in it still.        *)
LEMMA GoesOnKeeps ==
    ASSUME SessionInv, UNCHANGED <<pinned, results>>,
           Len(results) = IF pc' \in {"idle", "end"} THEN fetch' ELSE fetch' - 1,
           fetch' \in 1..MaxFetches,
           pc' \in {"handshake", "send", "head"} \/ (pc' = pc /\ UNCHANGED <<link, fetch>>),
           pc' \in {"handshake", "send", "head"} => link' = "open",
           pc' = "handshake" => ~pinned,
           ~pinned => fetch' = fetch, pinned /\ pc' # "idle" => fetch' > 1,
           got' \in Seq(Chunk), inbox' \in Seq(Chunk), asked' \in Seq(Requests),
           WellFormed(Stream'), pc' # "head" => got' = <<>>, InStep'
    PROVE  SessionInv'
<1>1. SessionTypeOK /\ results \in Seq(Results) /\ LinkInv /\ AcceptedIsFresh
  BY DEF SessionInv
<1>2. SessionTypeOK'
  BY <1>1 DEF SessionTypeOK, LinkInv, Chunk, Requests
<1>3. LinkInv'
  BY <1>1 DEF LinkInv, SessionTypeOK
<1>4. AcceptedIsFresh'
  BY <1>1 DEF AcceptedIsFresh
<1>5. QED BY <1>1, <1>2, <1>3, <1>4 DEF SessionInv

-----------------------------------------------------------------------------
(* A response that is accepted is one answer, and all of it, to the        *)
(* request of the fetch that reads it.                                     *)
LEMMA ConcludesOnOneAnswer ==
    ASSUME NEW s \in Seq(Chunk), NEW rest \in Seq(Chunk), WellFormed(s \o rest),
           HeadEnd(s) > 0, HasBody(s), NEW lineEnd \in BOOLEAN, NEW n,
           StatusLineIs200(s, lineEnd),
           s[HeadEnd(s)].answer.flaw \notin {"framing", "close"},
           Verifies(s[HeadEnd(s) + 1].answer, n)
    PROVE  /\ s[HeadEnd(s) + 1].answer \in Answers
           /\ s[HeadEnd(s) + 1].answer.flaw = "none"
           /\ s[HeadEnd(s) + 1].answer.born >= n
<1> DEFINE k == HeadEnd(s)
           t == s \o rest
<1>1. /\ k \in 1..Len(s) /\ s[k].part = "headers" /\ k + 2 <= Len(s)
      /\ \A i \in 1..Len(s) : s[i].part = "headers" => k <= i
  BY HeadEndIsFirst DEF HasBody
<1>2. PICK j \in 1..k : s[j].part = "status" /\ s[j].answer.flaw # "status"
  BY StatusIsAmong
<1>3. /\ Len(t) \in Nat /\ Len(s) \in Nat /\ Len(s) <= Len(t)
      /\ \A i \in 1..Len(s) : t[i] = s[i]
  OBVIOUS
<1>4. \A i \in 1..Len(t) : /\ i < Len(t) => Adjoins(t[i], t[i + 1])
                           /\ t[i].answer.nonce <= t[i].answer.born
  BY DEF WellFormed
<1> HIDE DEF k, t
<1>5. \A i \in 1..Len(s) : /\ i < Len(s) => Adjoins(s[i], s[i + 1])
                           /\ s[i].answer.nonce <= s[i].answer.born
  <2>1. ASSUME NEW i \in 1..Len(s)
        PROVE  /\ i < Len(s) => Adjoins(s[i], s[i + 1])
               /\ s[i].answer.nonce <= s[i].answer.born
    <3>1. i \in 1..Len(t) /\ (i < Len(s) => i < Len(t) /\ i + 1 \in 1..Len(s))
      BY <1>3
    <3>2. QED BY <1>3, <1>4, <3>1
  <2>2. QED BY <2>1
<1>6. s[k + 1].answer = s[k].answer /\ k + 1 \in 1..Len(s)
  <2>1. k < Len(s) /\ k + 1 \in 1..Len(s)
    BY <1>1
  <2>2. Adjoins(s[k], s[k + 1])
    BY <1>1, <1>5, <2>1
  <2>3. QED BY <1>1, <2>1, <2>2 DEF Adjoins
<1>7. s[k].answer = s[j].answer
  <2>1. j < k /\ j \in 1..Len(s) /\ j < Len(s) /\ j + 1 \in 1..Len(s)
    BY <1>1, <1>2
  <2>2. Adjoins(s[j], s[j + 1])
    BY <1>5, <2>1
  <2>3. s[j + 1].part = "headers" /\ s[j + 1].answer = s[j].answer
    BY <1>2, <2>2 DEF Adjoins
  <2>4. k <= j + 1
    BY <1>1, <2>1, <2>3
  <2>5. k = j + 1
    BY <1>1, <2>1, <2>4
  <2>6. QED BY <2>3, <2>5
<1>8. s[k + 1] \in Chunk /\ s[k + 1].answer \in Answers
  <2>1. s[k + 1] \in Chunk
    BY <1>6
  <2>2. \A c \in Chunk : c.answer \in Answers
    BY DEF Chunk
  <2>3. QED BY <2>1, <2>2
<1>9. s[k + 1].answer.flaw = "none"
  <2>1. s[k + 1].answer.flaw \in Flaws
    BY <1>8 DEF Answers
  <2>2. s[k + 1].answer.flaw \notin {"claims", "exporter"}
    BY DEF Verifies, k
  <2>3. s[k + 1].answer.flaw \notin {"framing", "close"}
    BY <1>6 DEF k
  <2>4. QED BY <1>2, <1>6, <1>7, <2>1, <2>2, <2>3 DEF Flaws
<1>10. s[k + 1].answer.born >= n
  <2>1. s[k + 1].answer.nonce <= s[k + 1].answer.born
    BY <1>5, <1>6
  <2>2. s[k + 1].answer.nonce = n
    BY DEF Verifies, k
  <2>3. s[k + 1].answer.nonce \in Nat /\ s[k + 1].answer.born \in Nat
    BY <1>8, SessionAssumption DEF Answers
  <2>4. QED BY <2>1, <2>2, <2>3
<1>11. QED BY <1>8, <1>9, <1>10 DEF k

LEMMA AcceptKeeps ==
    ASSUME SessionInv, pc = "head", NEW n \in 1..Len(inbox), NEW lineEnd \in BOOLEAN,
           NEW s, s = got \o SubSeq(inbox, 1, n),
           inbox' = SubSeq(inbox, n + 1, Len(inbox)), asked' = asked,
           HeadEnd(s) > 0, HasBody(s), StatusLineIs200(s, lineEnd),
           s[HeadEnd(s)].answer.flaw \notin {"framing", "close"},
           Verifies(s[HeadEnd(s) + 1].answer, fetch),
           Accept(s[HeadEnd(s) + 1].answer)
    PROVE  SessionInv'
<1> DEFINE m == Len(results)
           answer == s[HeadEnd(s) + 1].answer
           r == [how |-> "accepted", answer |-> answer]
<1>1. /\ SessionTypeOK /\ results \in Seq(Results) /\ LinkInv /\ AcceptedIsFresh /\ InStep
      /\ m \in Nat /\ m = fetch - 1 /\ fetch \in 1..MaxFetches /\ pinned \in BOOLEAN
      /\ MaxFetches \in Nat /\ link = "open"
      /\ got \in Seq(Chunk) /\ inbox \in Seq(Chunk) /\ asked \in Seq(Requests)
      /\ WellFormed(Stream)
  BY SessionAssumption DEF SessionInv, SessionTypeOK, LinkInv, Chunk, Requests
<1>2. /\ s \in Seq(Chunk) /\ inbox' \in Seq(Chunk) /\ s \o inbox' = Stream
      /\ Len(s) = Len(got) + n /\ Len(inbox') = Len(inbox) - n
  <2>1. /\ SubSeq(inbox, n + 1, Len(inbox)) \in Seq(Chunk)
        /\ got \o SubSeq(inbox, 1, n) \in Seq(Chunk)
        /\ Len(SubSeq(inbox, n + 1, Len(inbox))) = Len(inbox) - n
        /\ Len(got \o SubSeq(inbox, 1, n)) = Len(got) + n
        /\ (got \o SubSeq(inbox, 1, n)) \o SubSeq(inbox, n + 1, Len(inbox)) = got \o inbox
    BY <1>1, SplitStream
  <2>2. QED BY <2>1 DEF Stream
<1>3. answer \in Answers /\ answer.flaw = "none" /\ answer.born >= fetch
  BY <1>1, <1>2, ConcludesOnOneAnswer
<1> HIDE DEF answer
<1>4. r \in Results /\ r.how = "accepted" /\ r.answer = answer
  BY <1>3 DEF Results
<1>5. /\ pinned' = TRUE /\ pc' = "idle" /\ got' = <<>> /\ UNCHANGED <<link, fetch>>
      /\ results' = Append(results, r)
  BY DEF Accept, answer
<1> HIDE DEF r
<1>6. /\ results' \in Seq(Results) /\ Len(results') = m + 1
      /\ \A i \in 1..m : results'[i] = results[i]
      /\ results'[m + 1] = r
      /\ DOMAIN results = 1..m /\ DOMAIN results' = 1..m + 1
  BY <1>1, <1>4, <1>5, AddResult
<1> HIDE DEF m
<1>7. results'[1].how = "accepted"
  <2>1. CASE m = 0
    BY <1>4, <1>6, <2>1
  <2>2. CASE m > 0
    <3>1. pinned
      BY <1>1, <2>2 DEF LinkInv
    <3>2. results[1].how = "accepted"
      BY <1>1, <3>1 DEF SessionTypeOK
    <3>3. 1 \in 1..m
      BY <1>1, <2>2
    <3>4. QED BY <1>6, <3>2, <3>3
  <2>3. QED BY <1>1, <2>1, <2>2
<1>8. SessionTypeOK'
  BY <1>1, <1>2, <1>5, <1>6, <1>7 DEF SessionTypeOK, Chunk, Requests
<1>9. WellFormed(Stream')
  <2>1. Stream' = inbox'
    BY <1>2, <1>5 DEF Stream
  <2>2. WellFormed(inbox')
    BY <1>1, <1>2, RestIsWellFormed
  <2>3. QED BY <2>1, <2>2
<1>10. LinkInv'
  BY <1>1, <1>5 DEF LinkInv
<1>11. AcceptedIsFresh'
  <2>1. ASSUME NEW i \in 1..m + 1, results'[i].how = "accepted"
        PROVE  results'[i].answer.born >= i /\ results'[i].answer.flaw = "none"
    <3>1. CASE i = m + 1
      <4>1. results'[i].answer = answer /\ i = fetch
        BY <1>1, <1>4, <1>6, <3>1
      <4>2. QED BY <1>3, <4>1
    <3>2. CASE i # m + 1
      <4>1. i \in 1..m /\ results'[i] = results[i]
        BY <1>1, <1>6, <3>2
      <4>2. QED BY <1>1, <1>6, <2>1, <4>1 DEF AcceptedIsFresh
    <3>3. QED BY <3>1, <3>2
  <2>2. QED BY <1>6, <2>1 DEF AcceptedIsFresh
<1>12. InStep'
  <2>1. SUFFICES ASSUME AllAccepted' PROVE inbox' = <<>> /\ asked' = <<>>
    BY <1>5 DEF InStep
  <2>2. AllAccepted
    <3>1. \A i \in 1..m : results'[i] = results[i] /\ i \in 1..m + 1
      BY <1>1, <1>6
    <3>2. QED BY <1>6, <2>1, <3>1 DEF AllAccepted
  <2>3. Len(Stream) = Len(got) + Len(inbox)
    BY <1>1 DEF Stream
  <2>4. asked = <<>> /\ Len(Stream) = 4 /\ Stream[1].part = "status"
    BY <1>1, <2>2, <2>3 DEF InStep
  <2>5. HeadEnd(s) \in 1..Len(s) /\ s[HeadEnd(s)].part = "headers" /\ Len(s) \in Nat
    <3>1. s \in Seq(Chunk)
      BY <1>2
    <3>2. HeadEnd(s) \in 0..Len(s) /\ s[HeadEnd(s)].part = "headers"
      BY <3>1, HeadEndIsFirst
    <3>3. QED BY <3>1, <3>2
  <2>6. s[1] = Stream[1]
    <3>1. s \in Seq(Chunk) /\ inbox' \in Seq(Chunk) /\ 1 \in 1..Len(s)
      BY <1>2, <2>5
    <3>2. (s \o inbox')[1] = s[1]
      BY <3>1
    <3>3. QED BY <1>2, <3>2
  <2>7. HeadEnd(s) # 1
    BY <2>4, <2>5, <2>6
  <2>8. Len(s) >= 4
    BY <2>5, <2>7 DEF HasBody
  <2>9. Len(inbox') = 0
    <3>1. Len(got) \in Nat /\ Len(inbox) \in Nat
      BY <1>1
    <3>2. Len(got) + Len(inbox) = 4 /\ Len(got) + n >= 4 /\ Len(inbox') = Len(inbox) - n
      BY <1>2, <2>3, <2>4, <2>8
    <3>3. QED BY <3>1, <3>2
  <2>10. QED BY <1>2, <2>4, <2>9
<1>13. QED BY <1>5, <1>6, <1>8, <1>9, <1>10, <1>11, <1>12 DEF SessionInv

-----------------------------------------------------------------------------
LEMMA InitSession == Init => SessionInv
<1> SUFFICES ASSUME Init PROVE SessionInv
  OBVIOUS
<1>1. /\ link = "none" /\ pinned = FALSE /\ pc = "connect" /\ fetch = 1
      /\ got = <<>> /\ inbox = <<>> /\ asked = <<>> /\ results = <<>>
      /\ MaxFetches \in Nat \ {0}
  BY SessionAssumption DEF Init
<1>2. SessionTypeOK
  <2>1. fetch \in 1..MaxFetches /\ Len(results) = fetch - 1
    BY <1>1
  <2>2. /\ got \in Seq([part : Parts, answer : Answers])
        /\ inbox \in Seq([part : Parts, answer : Answers])
        /\ asked \in Seq({"whole", "torn", "garbled"})
    BY <1>1
  <2>3. QED BY <1>1, <2>1, <2>2 DEF SessionTypeOK
<1>3. Stream = <<>> /\ Len(Stream) = 0 /\ <<>> \in Seq(Chunk)
  BY <1>1 DEF Stream
<1>4. WellFormed(Stream)
  BY <1>3 DEF WellFormed
<1>5. LinkInv /\ AcceptedIsFresh /\ InStep
  BY <1>1 DEF LinkInv, AcceptedIsFresh, InStep
<1>6. results \in Seq(Results)
  BY <1>1
<1>7. QED BY <1>1, <1>2, <1>4, <1>5, <1>6 DEF SessionInv

(* What is known between two steps. *)
LEMMA Known ==
    ASSUME SessionInv
    PROVE  /\ SessionTypeOK /\ LinkInv /\ AcceptedIsFresh /\ InStep
           /\ got \in Seq(Chunk) /\ inbox \in Seq(Chunk) /\ asked \in Seq(Requests)
           /\ WellFormed(Stream) /\ WellFormed(inbox)
           /\ pc # "head" => got = <<>> /\ Stream = inbox
           /\ fetch \in 1..MaxFetches /\ fetch \in Nat /\ pinned \in BOOLEAN
           /\ Len(results) = IF pc \in {"idle", "end"} THEN fetch ELSE fetch - 1
<1>1. /\ got \in Seq(Chunk) /\ inbox \in Seq(Chunk) /\ asked \in Seq(Requests)
      /\ fetch \in 1..MaxFetches /\ MaxFetches \in Nat
  BY SessionAssumption DEF SessionInv, SessionTypeOK, Chunk, Requests
<1>2. WellFormed(inbox)
  BY <1>1, RestIsWellFormed DEF SessionInv, Stream
<1>3. pc # "head" => got = <<>> /\ Stream = inbox
  BY <1>1 DEF SessionInv, Stream
<1>4. QED BY <1>1, <1>2, <1>3 DEF SessionInv, SessionTypeOK

LEMMA ConnectKeeps == ASSUME SessionInv, Connect \/ Handshake PROVE SessionInv'
<1>1. CASE Fails("raised") /\ UNCHANGED <<inbox, asked>>
  BY <1>1, Known, FailsKeeps
<1>2. CASE /\ UNCHANGED <<pinned, fetch, got, results, inbox, asked>>
           /\ \/ pc = "connect" /\ link' = "open" /\ pc' = "handshake"
              \/ pc = "handshake" /\ UNCHANGED link /\ pc' = "send"
  <2>1. Stream' = Stream /\ InStep' /\ link' = "open" /\ pc' \in {"handshake", "send"}
    BY <1>2, Known DEF Stream, InStep, AllAccepted, LinkInv
  <2>2. ~pinned /\ got' = <<>>
    BY <1>2, Known DEF LinkInv
  <2>3. QED BY <1>2, <2>1, <2>2, Known, GoesOnKeeps
<1>3. QED BY <1>1, <1>2 DEF Connect, Handshake, Raise, Fails

LEMMA FetchAgainKeeps == ASSUME SessionInv, FetchAgain PROVE SessionInv'
<1>1. /\ pc = "idle" /\ pc' = "send" /\ fetch < MaxFetches /\ fetch' = fetch + 1
      /\ UNCHANGED <<link, pinned, got, inbox, asked, results>>
  BY DEF FetchAgain
<1>2. Stream' = Stream /\ InStep' /\ link' = "open" /\ pinned
  BY <1>1, Known DEF Stream, InStep, AllAccepted, LinkInv
<1>3. fetch' \in 1..MaxFetches /\ fetch' > 1
  BY <1>1, Known, SessionAssumption
<1>4. QED BY <1>1, <1>2, <1>3, Known, GoesOnKeeps

LEMMA SendKeeps == ASSUME SessionInv, Send PROVE SessionInv'
<1>1. CASE Fails("raised") /\ asked' \in {asked, Asking("torn")} /\ inbox' = inbox
  BY <1>1, Known, AskingIs, FailsKeeps
<1>2. CASE /\ pc = "send" /\ link = "open" /\ asked' = Asking("whole") /\ pc' = "head"
           /\ UNCHANGED <<link, pinned, fetch, got, results, inbox>>
  <2>1. asked' \in Seq(Requests) /\ (asked = <<>> => asked' = <<"whole">>)
    BY <1>2, Known, AskingIs
  <2>2. Stream' = Stream /\ Stream = inbox
    BY <1>2, Known DEF Stream
  <2>3. InStep'
    BY <1>2, <2>1, <2>2, Known DEF InStep, AllAccepted
  <2>4. QED BY <1>2, <2>1, <2>2, <2>3, Known, GoesOnKeeps DEF LinkInv
<1>3. QED BY <1>1, <1>2 DEF Send, Raise, Fails

LEMMA ReceiveKeeps == ASSUME SessionInv, Receive PROVE SessionInv'
<1>1. PICK n \in 1..Len(inbox) :
        LET s == got \o SubSeq(inbox, 1, n)
            headers == s[HeadEnd(s)].answer
            GoOn == got' = s /\ UNCHANGED <<link, pinned, pc, fetch, results>>
        IN  /\ inbox' = SubSeq(inbox, n + 1, Len(inbox))
            /\ \/ HeadEnd(s) = 0 /\ GoOn
               \/ HeadEnd(s) > 0 /\ headers.flaw = "framing" /\ Raise
               \/ HeadEnd(s) > 0 /\ headers.flaw # "framing"
                  /\ IF HasBody(s)
                     THEN Conclude(s, headers, s[HeadEnd(s) + 1].answer)
                     ELSE GoOn
  BY DEF Receive
<1> DEFINE s == got \o SubSeq(inbox, 1, n)
           body == s[HeadEnd(s) + 1].answer
<1>2. pc = "head" /\ UNCHANGED asked /\ inbox' = SubSeq(inbox, n + 1, Len(inbox))
  BY <1>1 DEF Receive
<1>3. s \in Seq(Chunk) /\ inbox' \in Seq(Chunk) /\ s \o inbox' = Stream
  BY <1>2, Known, SplitStream DEF Stream
<1>4. WellFormed(inbox')
  BY <1>3, Known, RestIsWellFormed
<1> HIDE DEF s
<1>5. \/ got' = s /\ UNCHANGED <<link, pinned, pc, fetch, results>>
      \/ Raise
      \/ /\ HeadEnd(s) > 0 /\ s[HeadEnd(s)].answer.flaw # "framing"
         /\ HasBody(s) /\ Conclude(s, s[HeadEnd(s)].answer, body)
  BY <1>1 DEF s
<1>6. CASE got' = s /\ UNCHANGED <<link, pinned, pc, fetch, results>>
  <2>1. Stream' = Stream
    BY <1>3, <1>6 DEF Stream
  <2>2. InStep'
    BY <1>2, <1>6, <2>1, Known DEF InStep, AllAccepted
  <2>3. link' = "open" /\ (pinned => fetch > 1)
    BY <1>2, <1>6, Known DEF LinkInv
  <2>4. QED BY <1>2, <1>3, <1>6, <2>1, <2>2, <2>3, Known, GoesOnKeeps DEF LinkInv
<1>7. CASE Raise
  <2>1. Fails("raised")
    BY <1>2, <1>7 DEF Fails, Raise
  <2>2. QED BY <1>2, <1>3, <1>4, <2>1, Known, FailsKeeps
<1>8. CASE /\ ~Raise /\ HeadEnd(s) > 0 /\ s[HeadEnd(s)].answer.flaw # "framing"
           /\ HasBody(s) /\ Conclude(s, s[HeadEnd(s)].answer, body)
  <2>1. PICK lineEnd \in BOOLEAN : /\ StatusLineIs200(s, lineEnd)
                                  /\ s[HeadEnd(s)].answer.flaw # "close"
                                  /\ Verifies(body, fetch) /\ Accept(body)
    BY <1>8 DEF Conclude
  <2>2. s = got \o SubSeq(inbox, 1, n)
    BY DEF s
  <2>3. QED BY <1>2, <1>8, <2>1, <2>2, AcceptKeeps
<1>9. QED BY <1>5, <1>6, <1>7, <1>8

LEMMA InterruptKeeps ==
    ASSUME SessionInv,
           Interrupt \/ ReceiveFails
    PROVE  SessionInv'
<1>1. \E how : Fails(how) /\ inbox' = inbox /\ asked' \in {asked, Asking("torn")}
  BY DEF Interrupt, ReceiveFails, Raise, Fails
<1>2. QED BY <1>1, Known, AskingIs, FailsKeeps

LEMMA GatewayAnswersKeeps == ASSUME SessionInv, GatewayAnswers PROVE SessionInv'
<1>1. PICK answer \in Answers : /\ answer.nonce <= fetch /\ answer.born = fetch
                               /\ inbox' = inbox \o Block(answer)
  BY DEF GatewayAnswers, Block
<1>2. /\ asked # <<>> /\ asked' = Tail(asked)
      /\ UNCHANGED <<link, pinned, pc, fetch, got, results>>
  BY DEF GatewayAnswers
<1>3. asked' \in Seq(Requests) /\ Len(asked') = Len(asked) - 1
  BY <1>2, Known
<1>4. Block(answer) \in Seq(Chunk) /\ Len(Block(answer)) = 4
  BY DEF Block, Chunk, Parts
<1>5. Stream' = Stream \o Block(answer)
  BY <1>1, <1>2, <1>4, Known, ConcatChunks DEF Stream
<1>6. /\ WellFormed(Stream \o Block(answer)) /\ Len(Stream \o Block(answer)) = Len(Stream) + 4
      /\ Len(Stream) = 0 => (Stream \o Block(answer))[1].part = "status"
  BY <1>1, Known, BlockIsAdded
<1>7. inbox' \in Seq(Chunk)
  BY <1>1, <1>4, Known
<1>8. InStep'
  <2>1. SUFFICES ASSUME AllAccepted PROVE InStep'
    BY <1>2 DEF InStep, AllAccepted
  <2>2. pc = "head" /\ asked = <<"whole">> /\ Len(Stream) = 0
    <3>1. pc # "end"
      <4>1. SUFFICES ASSUME pc = "end" PROVE FALSE
        OBVIOUS
      <4>2. Len(results) = fetch /\ fetch >= 1 /\ results[1].how # "accepted"
        BY <4>1, Known DEF LinkInv
      <4>3. results \in Seq(Results)
        BY DEF SessionInv
      <4>4. QED BY <2>1, <4>2, <4>3, Known DEF AllAccepted
    <3>2. QED BY <1>2, <2>1, <3>1, Known DEF InStep
  <2>3. asked' = <<>>
    BY <1>2, <2>2
  <2>4. Len(Stream') = 4 /\ Stream'[1].part = "status"
    BY <1>5, <1>6, <2>2
  <2>5. QED BY <1>2, <2>2, <2>3, <2>4 DEF InStep
<1>9. QED BY <1>2, <1>3, <1>5, <1>6, <1>7, <1>8, Known, GoesOnKeeps DEF LinkInv

LEMMA StepSession == SessionInv /\ [Next]_vars => SessionInv'
<1> SUFFICES ASSUME SessionInv, [Next]_vars PROVE SessionInv'
  OBVIOUS
<1>1. CASE UNCHANGED vars
  <2>1. UNCHANGED <<link, pinned, pc, fetch, got, inbox, asked, results>>
    BY <1>1 DEF vars
  <2>2. SessionTypeOK' /\ LinkInv' /\ AcceptedIsFresh'
    BY <2>1 DEF SessionInv, SessionTypeOK, LinkInv, AcceptedIsFresh
  <2>3. Stream' = Stream
    BY <2>1 DEF Stream
  <2>4. InStep'
    BY <2>1, <2>3 DEF SessionInv, InStep, AllAccepted
  <2>5. QED BY <2>1, <2>2, <2>3, <2>4 DEF SessionInv
<1>2. QED BY <1>1, ConnectKeeps, SendKeeps, ReceiveKeeps, FetchAgainKeeps, InterruptKeeps,
             GatewayAnswersKeeps DEF Next, Client

LEMMA SessionInvariance == Spec => []SessionInv
  BY InitSession, StepSession, PTL DEF Spec

-----------------------------------------------------------------------------
(* Evidence is of the fetch that accepts it, and has no flaw: an answer    *)
(* that an earlier fetch left in the stream, in whole or in part, is never *)
(* taken for a later one's (fetch_attestation_again on a connection whose  *)
(* earlier fetch failed).                                                  *)
THEOREM EvidenceIsFresh == Spec => []AcceptedIsFresh
<1>1. SessionInv => AcceptedIsFresh
  BY DEF SessionInv
<1>2. QED BY <1>1, SessionInvariance, PTL

(* A session whose fetches were all accepted has nothing left over in its  *)
(* stream, and nothing on its way.                                         *)
THEOREM NothingIsLeftOver == Spec => []PinnedStreamIsInStep
<1>1. SessionInv => PinnedStreamIsInStep
  <2> SUFFICES ASSUME SessionInv, pc = "idle", AllAccepted
               PROVE  inbox = <<>> /\ asked = <<>> /\ link = "open"
    BY DEF PinnedStreamIsInStep, AllAccepted
  <2>1. QED BY DEF SessionInv, InStep, LinkInv
<1>2. QED BY <1>1, SessionInvariance, PTL

(* Types, and that no connection stays open that nobody was given.         *)
THEOREM NoConnectionLeaks == Spec => []NothingLeaks
<1>1. SessionInv => NothingLeaks
  BY DEF SessionInv, LinkInv, NothingLeaks
<1>2. QED BY <1>1, SessionInvariance, PTL
=============================================================================
