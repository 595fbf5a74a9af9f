-------------------------- MODULE Completion_proofs --------------------------
(***************************************************************************)
(* What the callers of the SSE codecs are given, for streams of any length *)
(* and any chunks: items in order and whole (SurfacedInOrder,              *)
(* CompletedIsWhole), and the completion and the text made of them.        *)
(***************************************************************************)
EXTENDS Completion, SequenceTheorems, FiniteSetTheorems, WellFoundedInduction, TLAPS

(* The items that were yielded. *)
Items == {surfaced[k] : k \in DOMAIN surfaced}

ItemType == [data : SUBSET (1..Len(said)), name : 0..Len(said)]

(* SurfacedInOrder, apart from the types. *)
GivenOK ==
    /\ SurfacedLines \subseteq DataLines
    /\ \A j, k \in DOMAIN surfaced :
          j < k => \A a \in surfaced[j].data, b \in surfaced[k].data : a < b
    /\ \A given \in SurfacedLines, i \in DataLines : i < given => i \in SurfacedLines
    /\ \A given \in SurfacedLines, d \in Dones : given < d
    /\ \A x \in Items : x.name = LastOf(NamesFor(x))

(* A data line was given to the caller, or dropped with a [DONE].          *)
Handled(i) == i \in SurfacedLines \/ \E d \in Dones : SameFrame(i, d)

(* What an open stream has handled is all but its frame.                   *)
OpenOK ==
    outcome = "open" =>
        /\ SurfacedLines \cap frame = {}
        /\ sawDone <=> Dones \ frame # {}
        /\ \A i \in DataLines \ frame : Handled(i)

(* The chunk codec yields objects, one by one. *)
ChunkItems ==
    codec = "chunks" =>
        \A k \in DOMAIN surfaced : \E i \in ObjectLines : surfaced[k].data = {i}

CodecInv ==
    /\ CodecTypeOK
    /\ GivenOK
    /\ OpenOK
    /\ ChunkItems
    /\ CompletedIsWhole

-----------------------------------------------------------------------------
LEMMA InitCodec == Init => CodecInv
<1> SUFFICES ASSUME Init PROVE CodecInv
  OBVIOUS
<1>1. /\ codec \in Codecs /\ said = <<>> /\ frame = {} /\ sawDone = FALSE
      /\ surfaced = <<>> /\ outcome = "open"
  BY DEF Init, Codecs
<1>2. DOMAIN said = {} /\ DOMAIN surfaced = {} /\ Len(said) = 0
  BY <1>1
<1>3. SurfacedLines = {} /\ DataLines = {} /\ Dones = {} /\ Items = {} /\ SinceBlank = {}
  BY <1>2 DEF SurfacedLines, DataLines, Dones, Items, SinceBlank
<1>4. CodecTypeOK
  <2>1. said \in Seq(Lines) /\ surfaced \in Seq(ItemType)
    BY <1>1
  <2>2. Len(said) <= MaxLines
    BY <1>2, CodecAssumption
  <2>3. QED BY <1>1, <1>3, <2>1, <2>2 DEF CodecTypeOK, ItemType
<1>5. GivenOK
  BY <1>2, <1>3 DEF GivenOK
<1>6. OpenOK /\ ChunkItems /\ CompletedIsWhole
  BY <1>1, <1>2, <1>3 DEF OpenOK, ChunkItems, CompletedIsWhole
<1>7. QED BY <1>4, <1>5, <1>6 DEF CodecInv

(* Only the way the iteration ended changes, and it did not complete.      *)
LEMMA EndsOnly ==
    ASSUME CodecInv, outcome' \in {"protocol_error", "transport_error"},
           UNCHANGED <<codec, said, sawDone, surfaced>>, frame' \in SUBSET frame
    PROVE  CodecInv'
<1>1. CodecTypeOK'
  BY DEF CodecInv, CodecTypeOK, SinceBlank
<1>2. /\ SurfacedLines' = SurfacedLines /\ DataLines' = DataLines /\ Dones' = Dones
      /\ Items' = Items /\ ObjectLines' = ObjectLines
  BY DEF SurfacedLines, DataLines, Dones, Items, ObjectLines
<1>3. \A x : NamesFor(x)' = NamesFor(x)
  BY DEF NamesFor, SameFrame
<1>4. GivenOK'
  BY <1>2, <1>3 DEF CodecInv, GivenOK
<1>5. OpenOK' /\ ChunkItems' /\ CompletedIsWhole'
  BY <1>2 DEF CodecInv, OpenOK, ChunkItems, CompletedIsWhole
<1>6. QED BY <1>1, <1>4, <1>5 DEF CodecInv

-----------------------------------------------------------------------------
(* Positions of lines, when one more is said. *)
LEMMA OneMore ==
    ASSUME CodecTypeOK, NEW line \in Lines, said' = Append(said, line)
    PROVE  /\ Len(said) \in Nat /\ DOMAIN said = 1..Len(said)
           /\ said' \in Seq(Lines) /\ Len(said') = Len(said) + 1
           /\ DOMAIN said' = DOMAIN said \cup {Len(said) + 1}
           /\ Len(said) + 1 \notin DOMAIN said
           /\ \A i \in DOMAIN said : said'[i] = said[i]
           /\ said'[Len(said) + 1] = line
<1>1. said \in Seq(Lines)
  BY DEF CodecTypeOK
<1>2. Len(said) \in Nat /\ DOMAIN said = 1..Len(said)
  BY <1>1, LenProperties
<1>3. /\ said' \in Seq(Lines) /\ Len(said') = Len(said) + 1
      /\ \A i \in 1..Len(said) : said'[i] = said[i]
      /\ said'[Len(said) + 1] = line
  BY <1>1, AppendProperties
<1>4. DOMAIN said' = 1..(Len(said) + 1)
  BY <1>3, LenProperties
<1>5. QED BY <1>2, <1>3, <1>4

(* What the names of an item are depends on nothing that is said later,    *)
(* unless it is said in the same frame.                                    *)
LEMMA NamesStay ==
    ASSUME CodecInv, outcome = "open", NEW line \in Lines, said' = Append(said, line),
           UNCHANGED codec, NEW x \in Items
    PROVE  NamesFor(x)' = NamesFor(x)
<1>0. PICK n : n = Len(said) + 1
  OBVIOUS
<1>1. /\ Len(said) \in Nat /\ DOMAIN said = 1..Len(said) /\ n \notin DOMAIN said
      /\ DOMAIN said' = DOMAIN said \cup {n}
      /\ \A i \in DOMAIN said : said'[i] = said[i]
  BY <1>0, OneMore DEF CodecInv
<1>2. \A i \in DOMAIN said : i \in Nat /\ i < n
  BY <1>0, <1>1
<1>3. x.data \subseteq DOMAIN said
  BY DEF CodecInv, GivenOK, Items, SurfacedLines, DataLines
<1>4. ASSUME NEW i \in DOMAIN said, NEW j \in DOMAIN said
      PROVE  SameFrame(i, j)' <=> SameFrame(i, j)
  BY <1>1, <1>2, <1>4 DEF SameFrame
<1>5. ASSUME NEW i \in x.data, said'[n].kind = "name", SameFrame(n, i)'
      PROVE  FALSE
  <2>1. codec = "events"
    BY <1>5 DEF SameFrame
  <2>2. i \in DOMAIN said /\ i < n /\ i \in Nat /\ i <= Len(said)
    BY <1>0, <1>1, <1>2, <1>3, <1>5
  <2>3. ASSUME NEW k \in i..Len(said) PROVE said[k].kind # "blank"
    <3>1. CASE k = i
      <4>1. i \in SurfacedLines
        BY <1>5 DEF Items, SurfacedLines
      <4>2. said[i].kind \in DataKinds
        BY <4>1 DEF CodecInv, GivenOK, DataLines
      <4>3. QED BY <3>1, <4>2 DEF DataKinds
    <3>2. CASE k # i
      <4>1. k \in DOMAIN said /\ i < k /\ k < n
        BY <1>0, <1>1, <2>2, <3>2
      <4>2. k \in DOMAIN said' /\ said'[k].kind # "blank"
        BY <1>1, <1>5, <4>1 DEF SameFrame
      <4>3. QED BY <1>1, <4>1, <4>2
    <3>3. QED BY <3>1, <3>2
  <2>4. i \in SinceBlank
    BY <2>1, <2>2, <2>3 DEF SinceBlank
  <2>5. i \in SurfacedLines /\ i \in frame
    BY <1>5, <2>4 DEF Items, SurfacedLines, CodecInv, CodecTypeOK
  <2>6. QED BY <2>5 DEF CodecInv, OpenOK
<1>6. ASSUME NEW m \in DOMAIN said PROVE m \in NamesFor(x)' <=> m \in NamesFor(x)
  <2>1. said'[m] = said[m] /\ m \in DOMAIN said'
    BY <1>1
  <2>2. \A i \in x.data : SameFrame(m, i)' <=> SameFrame(m, i)
    BY <1>3, <1>4
  <2>3. QED BY <2>1, <2>2 DEF NamesFor
<1>7. n \notin NamesFor(x)' /\ n \notin NamesFor(x)
  BY <1>1, <1>5 DEF NamesFor
<1>8. NamesFor(x)' \subseteq DOMAIN said \cup {n} /\ NamesFor(x) \subseteq DOMAIN said
  BY <1>1 DEF NamesFor
<1>9. \A m : m \in NamesFor(x)' <=> m \in NamesFor(x)
  BY <1>6, <1>7, <1>8
<1>10. QED BY <1>9 DEF NamesFor

(* The kinds of the lines, when one more is said. *)
LEMMA OneMoreKinds ==
    ASSUME CodecTypeOK, NEW line \in Lines, said' = Append(said, line)
    PROVE  /\ DataLines' = DataLines \cup {i \in {Len(said) + 1} : line.kind \in DataKinds}
           /\ Dones' = Dones \cup {i \in {Len(said) + 1} : line.kind = "done"}
           /\ ObjectLines' = ObjectLines \cup {i \in {Len(said) + 1} : line.kind = "object"}
<1>0. PICK n : n = Len(said) + 1
  OBVIOUS
<1>1. /\ DOMAIN said' = DOMAIN said \cup {n} /\ n \notin DOMAIN said
      /\ \A i \in DOMAIN said : said'[i] = said[i]
      /\ said'[n] = line
  BY <1>0, OneMore
<1>2. DataLines' = DataLines \cup {i \in {n} : line.kind \in DataKinds}
  BY <1>1 DEF DataLines
<1>3. Dones' = Dones \cup {i \in {n} : line.kind = "done"}
  BY <1>1 DEF Dones
<1>4. ObjectLines' = ObjectLines \cup {i \in {n} : line.kind = "object"}
  BY <1>1 DEF ObjectLines
<1>5. QED BY <1>0, <1>2, <1>3, <1>4

(* A line that makes the codec yield nothing leaves what it yielded right. *)
LEMMA QuietLine ==
    ASSUME CodecInv, outcome = "open", NEW line \in Lines, said' = Append(said, line),
           UNCHANGED <<codec, surfaced>>
    PROVE  /\ GivenOK' /\ ChunkItems'
           /\ surfaced' \in Seq(ItemType')
           /\ SurfacedLines' = SurfacedLines
<1>0. PICK n : n = Len(said) + 1
  OBVIOUS
<1>1. /\ Len(said) \in Nat /\ DOMAIN said = 1..Len(said) /\ Len(said') = n
  BY <1>0, OneMore DEF CodecInv
<1>2. /\ DataLines' \subseteq DataLines \cup {n} /\ Dones' \subseteq Dones \cup {n}
      /\ DataLines \subseteq DataLines' /\ ObjectLines \subseteq ObjectLines'
  BY <1>0, OneMoreKinds DEF CodecInv
<1>3. SurfacedLines' = SurfacedLines /\ Items' = Items
  BY DEF SurfacedLines, Items
<1>4. \A g \in SurfacedLines : g \in Nat /\ g < n
  BY <1>0, <1>1 DEF CodecInv, GivenOK, DataLines
<1>5. \A x \in Items : NamesFor(x)' = NamesFor(x)
  BY NamesStay
<1>6. GivenOK'
  <2>1. SurfacedLines' \subseteq DataLines'
    BY <1>2, <1>3 DEF CodecInv, GivenOK
  <2>2. \A given \in SurfacedLines', i \in DataLines' : i < given => i \in SurfacedLines'
    BY <1>0, <1>1, <1>2, <1>3, <1>4 DEF CodecInv, GivenOK
  <2>3. \A given \in SurfacedLines', d \in Dones' : given < d
    BY <1>2, <1>3, <1>4 DEF CodecInv, GivenOK
  <2>4. \A j, k \in DOMAIN surfaced' :
          j < k => \A a \in surfaced'[j].data, b \in surfaced'[k].data : a < b
    BY DEF CodecInv, GivenOK
  <2>5. \A x \in Items' : x.name = LastOf(NamesFor(x)')
    BY <1>3, <1>5 DEF CodecInv, GivenOK
  <2>6. QED BY <2>1, <2>2, <2>3, <2>4, <2>5 DEF GivenOK
<1>7. ChunkItems'
  BY <1>2 DEF CodecInv, ChunkItems
<1>8. surfaced' \in Seq(ItemType')
  <2>1. 1..Len(said) \subseteq 1..Len(said') /\ 0..Len(said) \subseteq 0..Len(said')
    BY <1>0, <1>1
  <2>2. ItemType \subseteq ItemType'
    BY <2>1 DEF ItemType
  <2>3. surfaced \in Seq(ItemType)
    BY DEF CodecInv, CodecTypeOK, ItemType
  <2>4. QED BY <2>2, <2>3, SeqMonotonic
<1>9. QED BY <1>3, <1>6, <1>7, <1>8

(* An item of all the data that was not given yet, when no [DONE] came.    *)
LEMMA Surfacing ==
    ASSUME CodecInv, NEW item \in ItemType', surfaced' = Append(surfaced, item),
           ItemType \subseteq ItemType', DataLines \subseteq DataLines',
           item.data \subseteq DataLines', DataLines' \subseteq SurfacedLines \cup item.data,
           \A g \in SurfacedLines, d \in item.data : g < d,
           Dones' = {},
           item.name = LastOf(NamesFor(item)'),
           \A x \in Items : NamesFor(x)' = NamesFor(x)
    PROVE  /\ GivenOK'
           /\ surfaced' \in Seq(ItemType')
           /\ SurfacedLines' = SurfacedLines \cup item.data
           /\ DOMAIN surfaced' = DOMAIN surfaced \cup {Len(surfaced) + 1}
           /\ \A k \in DOMAIN surfaced : surfaced'[k] = surfaced[k]
           /\ surfaced'[Len(surfaced) + 1] = item
<1>0. PICK n : n = Len(surfaced) + 1
  OBVIOUS
<1>1. surfaced \in Seq(ItemType')
  <2>1. surfaced \in Seq(ItemType)
    BY DEF CodecInv, CodecTypeOK, ItemType
  <2>2. QED BY <2>1, SeqMonotonic
<1>2. /\ surfaced' \in Seq(ItemType') /\ Len(surfaced') = n
      /\ \A k \in 1..Len(surfaced) : surfaced'[k] = surfaced[k]
      /\ surfaced'[n] = item
  BY <1>0, <1>1, AppendProperties
<1>3. Len(surfaced) \in Nat /\ DOMAIN surfaced = 1..Len(surfaced) /\ DOMAIN surfaced' = 1..n
  BY <1>1, <1>2, LenProperties
<1>4. DOMAIN surfaced' = DOMAIN surfaced \cup {n} /\ \A k \in DOMAIN surfaced : k < n /\ k \in Nat
  BY <1>0, <1>3
<1>5. \A k \in DOMAIN surfaced : surfaced'[k] = surfaced[k]
  BY <1>2, <1>3
<1>6. SurfacedLines' = SurfacedLines \cup item.data
  BY <1>2, <1>4, <1>5 DEF SurfacedLines
<1>7. Items' = Items \cup {item}
  BY <1>2, <1>4, <1>5 DEF Items
<1>8. SurfacedLines' \subseteq DataLines'
  BY <1>6 DEF CodecInv, GivenOK
<1>9. ASSUME NEW j \in DOMAIN surfaced', NEW k \in DOMAIN surfaced', j < k,
             NEW a \in surfaced'[j].data, NEW b \in surfaced'[k].data
      PROVE  a < b
  <2>1. j \in DOMAIN surfaced
    BY <1>0, <1>3, <1>9
  <2>2. a \in SurfacedLines
    BY <1>5, <1>9, <2>1 DEF SurfacedLines
  <2>3. CASE k = n
    BY <1>2, <1>9, <2>2, <2>3
  <2>4. CASE k # n
    <3>1. k \in DOMAIN surfaced
      BY <1>4, <2>4
    <3>2. QED BY <1>5, <1>9, <2>1, <3>1 DEF CodecInv, GivenOK
  <2>5. QED BY <2>3, <2>4
<1>10. \A x \in Items' : x.name = LastOf(NamesFor(x)')
  BY <1>7 DEF CodecInv, GivenOK
<1>11. GivenOK'
  BY <1>6, <1>8, <1>9, <1>10 DEF GivenOK
<1>12. QED BY <1>0, <1>2, <1>4, <1>5, <1>6, <1>11

-----------------------------------------------------------------------------
(* A set of numbers has a least one, and the last of finitely many is Max. *)
LEMMA LeastExists ==
    ASSUME NEW I \in SUBSET Nat, I # {}
    PROVE  \E m \in I : \A i \in I : m <= i
<1> DEFINE R == {ss \in Nat \X Nat : ss[1] < ss[2]}
<1>1. IsWellFoundedOn(R, Nat)
  BY Zenon, NatLessThanWellFounded DEF OpToRel
<1>2. PICK m \in I : \A i \in I : <<i, m>> \notin R
  <2> HIDE DEF R
  <2> QED BY <1>1, WFMin
<1>3. ASSUME NEW i \in I PROVE m <= i
  <2>1. i \in Nat /\ m \in Nat /\ <<i, m>> \in Nat \X Nat /\ <<i, m>> \notin R
    BY <1>2
  <2>2. ~(i < m)
    BY <2>1
  <2>3. QED BY <2>1, <2>2
<1>4. QED BY <1>3

LEMMA LastOfIsLast ==
    ASSUME NEW n \in Nat, NEW S \in SUBSET (1..n)
    PROVE  /\ LastOf(S) \in 0..n
           /\ S # {} => LastOf(S) \in S /\ \A i \in S : i <= LastOf(S)
           /\ S = {} => LastOf(S) = 0
<1>1. CASE S = {}
  BY <1>1 DEF LastOf
<1>2. CASE S # {}
  <2> DEFINE I == {n - i : i \in S}
  <2>0. \A i \in S : i \in Nat /\ n - i \in Nat /\ i \in 0..n
    OBVIOUS
  <2>1. I \in SUBSET Nat /\ I # {}
    BY <1>2, <2>0
  <2>2. PICK m \in I : \A i \in I : m <= i
    BY <2>1, LeastExists
  <2>3. PICK x \in S : m = n - x
    BY <2>2
  <2>4. ASSUME NEW i \in S PROVE x >= i
    <3>1. n - i \in I /\ m <= n - i
      BY <2>2
    <3>2. QED BY <2>0, <2>3, <3>1
  <2>5. Max(S) \in S /\ \A i \in S : Max(S) >= i
    BY <2>4 DEF Max
  <2>6. LastOf(S) = Max(S)
    BY <1>2 DEF LastOf
  <2>7. LastOf(S) \in S /\ \A i \in S : LastOf(S) >= i
    BY <2>5, <2>6
  <2> HIDE DEF I
  <2>8. LastOf(S) \in 0..n
    BY <2>0, <2>7
  <2>9. \A i \in S : i <= LastOf(S)
    BY <2>0, <2>7
  <2>10. QED BY <1>2, <2>7, <2>8, <2>9
<1>3. QED BY <1>1, <1>2

(* The frame is a suffix of what was said. *)
LEMMA FrameIsLast ==
    ASSUME CodecInv, outcome = "open",
           NEW i \in frame, NEW j \in DOMAIN said, i <= j
    PROVE  j \in frame
<1>1. Len(said) \in Nat /\ DOMAIN said = 1..Len(said)
  BY LenProperties DEF CodecInv, CodecTypeOK
<1>2. frame = SinceBlank
  BY DEF CodecInv, CodecTypeOK
<1>3. i \in DOMAIN said /\ codec = "events" /\ \A k \in i..Len(said) : said[k].kind # "blank"
  BY <1>2 DEF SinceBlank
<1>4. \A k \in j..Len(said) : k \in i..Len(said)
  BY <1>1, <1>3
<1>5. QED BY <1>2, <1>3, <1>4 DEF SinceBlank

LEMMA GivenBeforeFrame ==
    ASSUME CodecInv, outcome = "open", NEW g \in SurfacedLines, NEW d \in frame
    PROVE  g < d
<1>1. DOMAIN said = 1..Len(said) /\ Len(said) \in Nat
  BY LenProperties DEF CodecInv, CodecTypeOK
<1>2. g \in DOMAIN said /\ d \in DOMAIN said
  BY DEF CodecInv, CodecTypeOK, GivenOK, DataLines
<1>3. g \notin frame
  BY DEF CodecInv, OpenOK
<1>4. ~(d <= g)
  BY <1>2, <1>3, FrameIsLast
<1>5. QED BY <1>1, <1>2, <1>4

(* A frame without [DONE] that decodes and has data comes before any [DONE].*)
LEMMA NoDoneYet ==
    ASSUME CodecInv, outcome = "open", InFrame({"done"}) = {}, ~sawDone
    PROVE  Dones = {} /\ \A i \in DataLines \ frame : i \in SurfacedLines
<1>1. Dones \ frame = {}
  BY DEF CodecInv, OpenOK
<1>2. Dones \cap frame = {}
  BY DEF InFrame, Dones
<1>3. QED BY <1>1, <1>2 DEF CodecInv, OpenOK, Handled

(* No line is said, or a blank one. *)
FrameEnds ==
    \/ said' = said
    \/ \E line \in Lines : line.kind = "blank" /\ said' = Append(said, line)

LEMMA FrameEndsLines ==
    ASSUME CodecInv, outcome = "open", FrameEnds, UNCHANGED codec
    PROVE  /\ DataLines' = DataLines /\ Dones' = Dones /\ ObjectLines' = ObjectLines
           /\ said' \in Seq(Lines) /\ DOMAIN said \subseteq DOMAIN said'
           /\ \A i \in DOMAIN said : said'[i] = said[i]
           /\ \A i \in DOMAIN said' \ DOMAIN said : said'[i].kind = "blank"
           /\ Len(said) \in Nat /\ Len(said') \in Nat /\ Len(said) <= Len(said')
           /\ DOMAIN said = 1..Len(said) /\ DOMAIN said' = 1..Len(said')
           /\ \A x \in Items : NamesFor(x)' = NamesFor(x)
           /\ \A i, j \in DOMAIN said : SameFrame(i, j)' <=> SameFrame(i, j)
<1>1. said \in Seq(Lines) /\ Len(said) \in Nat /\ DOMAIN said = 1..Len(said)
  BY LenProperties DEF CodecInv, CodecTypeOK
<1>2. CASE said' = said
  <2>1. DataLines' = DataLines /\ Dones' = Dones /\ ObjectLines' = ObjectLines
    BY <1>2 DEF DataLines, Dones, ObjectLines
  <2>2. \A i, j \in DOMAIN said : SameFrame(i, j)' <=> SameFrame(i, j)
    BY <1>2 DEF SameFrame
  <2>3. \A x : NamesFor(x)' = NamesFor(x)
    BY <1>2 DEF NamesFor, SameFrame
  <2>4. QED BY <1>1, <1>2, <2>1, <2>2, <2>3
<1>3. ASSUME NEW line \in Lines, line.kind = "blank", said' = Append(said, line)
      PROVE  /\ DataLines' = DataLines /\ Dones' = Dones /\ ObjectLines' = ObjectLines
             /\ said' \in Seq(Lines) /\ DOMAIN said \subseteq DOMAIN said'
             /\ \A i \in DOMAIN said : said'[i] = said[i]
             /\ \A i \in DOMAIN said' \ DOMAIN said : said'[i].kind = "blank"
             /\ Len(said') \in Nat /\ Len(said) <= Len(said')
             /\ DOMAIN said' = 1..Len(said')
             /\ \A x \in Items : NamesFor(x)' = NamesFor(x)
             /\ \A i, j \in DOMAIN said : SameFrame(i, j)' <=> SameFrame(i, j)
  <2>0. PICK n : n = Len(said) + 1
    OBVIOUS
  <2>1. /\ DOMAIN said' = DOMAIN said \cup {n} /\ n \notin DOMAIN said
        /\ \A i \in DOMAIN said : said'[i] = said[i]
        /\ said'[n] = line /\ Len(said') = n /\ said' \in Seq(Lines)
    BY <1>3, <2>0, OneMore DEF CodecInv
  <2>2. DataLines' = DataLines /\ Dones' = Dones /\ ObjectLines' = ObjectLines
    BY <1>3, OneMoreKinds DEF CodecInv, DataKinds
  <2>3. \A x \in Items : NamesFor(x)' = NamesFor(x)
    BY <1>3, NamesStay
  <2>4. \A i \in DOMAIN said : i \in Nat /\ i < n
    BY <1>1, <2>0
  <2>5. \A i, j \in DOMAIN said : SameFrame(i, j)' <=> SameFrame(i, j)
    BY <2>1, <2>4 DEF SameFrame
  <2>6. Len(said') \in Nat /\ Len(said) <= Len(said') /\ DOMAIN said' = 1..Len(said')
    BY <1>1, <2>0, <2>1, LenProperties
  <2>7. QED BY <1>3, <2>1, <2>2, <2>3, <2>5, <2>6
<1>4. QED BY <1>1, <1>2, <1>3 DEF FrameEnds

(* The names of a frame are those of the item made of its data. *)
LEMMA FrameNames ==
    ASSUME CodecInv, outcome = "open", FrameEnds, UNCHANGED codec, codec = "events",
           NEW item, item.data = InFrame(DataKinds), item.data # {}
    PROVE  NamesFor(item)' = InFrame({"name"})
<1>1. /\ DOMAIN said \subseteq DOMAIN said'
      /\ \A i \in DOMAIN said : said'[i] = said[i]
      /\ \A i \in DOMAIN said' \ DOMAIN said : said'[i].kind = "blank"
      /\ DOMAIN said = 1..Len(said) /\ Len(said) \in Nat
      /\ \A i, j \in DOMAIN said : SameFrame(i, j)' <=> SameFrame(i, j)
  BY FrameEndsLines
<1>2. frame = SinceBlank /\ frame \subseteq DOMAIN said
  BY DEF CodecInv, CodecTypeOK
<1>3. item.data \subseteq frame
  BY DEF InFrame
<1>4. ASSUME NEW m \in frame, said[m].kind = "name"
      PROVE  m \in NamesFor(item)'
  <2>1. PICK i \in item.data : TRUE
    OBVIOUS
  <2>2. i \in frame
    BY <1>3, <2>1
  <2>3. \A k \in DOMAIN said : k >= m \/ k >= i => said[k].kind # "blank"
    <3>1. \A k \in DOMAIN said : k >= m \/ k >= i => k \in frame
      BY <1>1, <1>2, <2>2, FrameIsLast
    <3>2. \A k \in frame : said[k].kind # "blank"
      BY <1>1, <1>2 DEF SinceBlank
    <3>3. QED BY <3>1, <3>2
  <2>4. m \in DOMAIN said /\ i \in DOMAIN said /\ m \in Nat /\ i \in Nat
    BY <1>1, <1>2, <2>2
  <2>5. \A k \in DOMAIN said :
            (m < k /\ k < i) \/ (i < k /\ k < m) => said[k].kind # "blank"
    BY <1>1, <2>3, <2>4
  <2>6. SameFrame(m, i)
    BY <2>5 DEF SameFrame
  <2>7. SameFrame(m, i)' /\ m \in DOMAIN said' /\ said'[m].kind = "name"
    BY <1>1, <1>4, <2>4, <2>6
  <2>8. QED BY <2>1, <2>7 DEF NamesFor
<1>5. ASSUME NEW m \in NamesFor(item)'
      PROVE  m \in frame /\ said[m].kind = "name"
  <2>1. PICK i \in item.data : SameFrame(m, i)'
    BY <1>5 DEF NamesFor
  <2>2. m \in DOMAIN said' /\ said'[m].kind = "name"
    BY <1>5 DEF NamesFor
  <2>3. m \in DOMAIN said /\ said[m].kind = "name"
    BY <1>1, <2>2
  <2>4. i \in frame /\ i \in DOMAIN said /\ m \in Nat /\ i \in Nat
    BY <1>1, <1>2, <1>3, <2>1, <2>3
  <2>5. SameFrame(m, i)
    BY <1>1, <2>1, <2>3, <2>4
  <2>6. \A k \in i..Len(said) : said[k].kind # "blank"
    BY <1>2, <2>4 DEF SinceBlank
  <2>7. \A k \in m..Len(said) : said[k].kind # "blank"
    <3>1. ASSUME NEW k \in m..Len(said) PROVE said[k].kind # "blank"
      <4>1. k \in DOMAIN said
        BY <1>1, <2>3, <2>4
      <4>2. CASE k = m
        BY <2>3, <4>2
      <4>3. CASE i <= k
        BY <1>1, <2>4, <2>6, <4>1, <4>3
      <4>4. CASE k # m /\ ~(i <= k)
        <5>1. m < k /\ k < i
          BY <1>1, <2>4, <4>1, <4>4
        <5>2. QED BY <2>5, <4>1, <5>1 DEF SameFrame
      <4>5. QED BY <4>2, <4>3, <4>4
    <3>2. QED BY <3>1
  <2>8. m \in SinceBlank
    BY <2>3, <2>7 DEF SinceBlank
  <2>9. QED BY <1>2, <2>3, <2>8
<1>6. \A m : m \in NamesFor(item)' <=> m \in InFrame({"name"})
  BY <1>4, <1>5 DEF InFrame
<1>7. QED BY <1>6 DEF NamesFor, InFrame

(* The frame's event is given to the caller. *)
LEMMA FrameItem ==
    ASSUME CodecInv, outcome = "open", FrameEnds, UNCHANGED codec,
           InFrame({"done"}) = {}, FrameDecodes, SurfaceFrame
    PROVE  /\ GivenOK' /\ surfaced' \in Seq(ItemType')
           /\ SurfacedLines' = SurfacedLines \cup InFrame(DataKinds)
<1>1. /\ DataLines' = DataLines /\ Dones' = Dones
      /\ Len(said) \in Nat /\ Len(said') \in Nat /\ Len(said) <= Len(said')
      /\ DOMAIN said = 1..Len(said)
      /\ \A x \in Items : NamesFor(x)' = NamesFor(x)
  BY FrameEndsLines
<1>2. ItemType \subseteq ItemType'
  <2>1. 1..Len(said) \subseteq 1..Len(said') /\ 0..Len(said) \subseteq 0..Len(said')
    BY <1>1
  <2>2. QED BY <2>1 DEF ItemType
<1>3. CASE InFrame(DataKinds) = {}
  <2>1. surfaced' = surfaced
    BY <1>3 DEF SurfaceFrame
  <2>2. SurfacedLines' = SurfacedLines /\ Items' = Items
    BY <2>1 DEF SurfacedLines, Items
  <2>3. GivenOK'
    BY <1>1, <2>1, <2>2 DEF CodecInv, GivenOK
  <2>4. surfaced' \in Seq(ItemType')
    BY <1>2, <2>1, SeqMonotonic DEF CodecInv, CodecTypeOK, ItemType
  <2>5. QED BY <1>3, <2>2, <2>3, <2>4
<1>4. CASE InFrame(DataKinds) # {}
  <2>1. PICK item : item = [data |-> InFrame(DataKinds), name |-> LastOf(InFrame({"name"}))]
    OBVIOUS
  <2>2. surfaced' = Append(surfaced, item) /\ item.data = InFrame(DataKinds)
        /\ item.name = LastOf(InFrame({"name"}))
    BY <1>4, <2>1 DEF SurfaceFrame
  <2>3. Dones = {} /\ \A i \in DataLines \ frame : i \in SurfacedLines
    BY <1>4, NoDoneYet DEF FrameDecodes
  <2>4. item.data \subseteq DataLines /\ item.data \subseteq frame
        /\ DataLines \subseteq SurfacedLines \cup item.data
    BY <2>2, <2>3 DEF InFrame, DataLines, CodecInv, CodecTypeOK
  <2>5. \A g \in SurfacedLines, d \in item.data : g < d
    BY <2>4, GivenBeforeFrame
  <2>6. NamesFor(item)' = InFrame({"name"})
    <3>1. codec = "events"
      BY <1>4 DEF InFrame, CodecInv, CodecTypeOK, SinceBlank
    <3>2. QED BY <1>4, <2>2, <3>1, FrameNames
  <2>7. item \in ItemType'
    <3>1. InFrame(DataKinds) \in SUBSET (1..Len(said)) /\ InFrame({"name"}) \in SUBSET (1..Len(said))
      BY <1>1 DEF InFrame, CodecInv, CodecTypeOK
    <3>2. LastOf(InFrame({"name"})) \in 0..Len(said)
      BY <1>1, <3>1, LastOfIsLast
    <3>3. item \in ItemType
      BY <2>1, <3>1, <3>2 DEF ItemType
    <3>4. QED BY <1>2, <3>3
  <2>8. item.name = LastOf(NamesFor(item)')
    BY <2>2, <2>6
  <2>9. QED BY <1>1, <1>2, <2>2, <2>3, <2>4, <2>5, <2>7, <2>8, Surfacing
<1>5. QED BY <1>3, <1>4

-----------------------------------------------------------------------------
LEMMA ChunkLineKeeps ==
    ASSUME CodecInv, outcome = "open", Len(said) < MaxLines, UNCHANGED codec,
           NEW line \in Lines, said' = Append(said, line), ChunkLine(line)
    PROVE  CodecInv'
<1>0. PICK n : n = Len(said) + 1
  OBVIOUS
<1>1. /\ Len(said) \in Nat /\ DOMAIN said = 1..Len(said)
      /\ said' \in Seq(Lines) /\ Len(said') = n
      /\ DOMAIN said' = DOMAIN said \cup {n} /\ said'[n] = line
  BY <1>0, OneMore DEF CodecInv
<1>2. /\ DataLines' = DataLines \cup {i \in {n} : line.kind \in DataKinds}
      /\ Dones' = Dones \cup {i \in {n} : line.kind = "done"}
      /\ ObjectLines' = ObjectLines \cup {i \in {n} : line.kind = "object"}
  BY <1>0, OneMoreKinds DEF CodecInv
<1>3. codec = "chunks" /\ frame = {} /\ frame' = {} /\ SinceBlank' = {}
  BY DEF ChunkLine, CodecInv, CodecTypeOK, SinceBlank
<1>4. /\ codec' \in Codecs /\ Len(said') <= MaxLines /\ frame' \subseteq DOMAIN said'
      /\ frame' = SinceBlank'
  BY <1>0, <1>1, <1>3, CodecAssumption DEF CodecInv, CodecTypeOK
<1>5. /\ (sawDone <=> Dones # {}) /\ sawDone \in BOOLEAN
      /\ \A i \in DataLines : i \in SurfacedLines
  BY <1>3 DEF CodecInv, CodecTypeOK, OpenOK, Handled, SameFrame
<1>6. ASSUME UNCHANGED surfaced PROVE GivenOK' /\ ChunkItems' /\ surfaced' \in Seq(ItemType')
                                      /\ SurfacedLines' = SurfacedLines
  BY <1>6, QuietLine
<1>7. CASE line.kind = "done"
  <2>1. sawDone' = TRUE /\ UNCHANGED <<surfaced, outcome>>
    BY <1>7 DEF ChunkLine, DataKinds
  <2>2. GivenOK' /\ ChunkItems' /\ surfaced' \in Seq(ItemType') /\ SurfacedLines' = SurfacedLines
    BY <1>6, <2>1
  <2>3. CodecTypeOK'
    BY <1>1, <1>4, <2>1, <2>2 DEF CodecTypeOK, ItemType
  <2>4. Dones' = Dones \cup {n} /\ DataLines' = DataLines
    BY <1>2, <1>7 DEF DataKinds
  <2>5. \A i \in DataLines' \ frame' : Handled(i)'
    BY <1>5, <2>2, <2>4 DEF Handled
  <2>6. OpenOK' /\ CompletedIsWhole'
    BY <1>3, <2>1, <2>4, <2>5 DEF OpenOK, CompletedIsWhole
  <2>7. QED BY <2>2, <2>3, <2>6 DEF CodecInv
<1>8. CASE line.kind \in DataKinds /\ (sawDone \/ line.kind # "object")
  <2>1. outcome' = "protocol_error" /\ UNCHANGED <<sawDone, surfaced>>
    BY <1>8 DEF ChunkLine, DataKinds, End
  <2>2. GivenOK' /\ ChunkItems' /\ surfaced' \in Seq(ItemType')
    BY <1>6, <2>1
  <2>3. CodecTypeOK'
    BY <1>1, <1>4, <1>5, <2>1, <2>2 DEF CodecTypeOK, ItemType
  <2>4. OpenOK' /\ CompletedIsWhole'
    BY <2>1 DEF OpenOK, CompletedIsWhole
  <2>5. QED BY <2>2, <2>3, <2>4 DEF CodecInv
<1>9. CASE line.kind = "object" /\ ~sawDone
  <2>1. PICK item : item = [data |-> {n}, name |-> 0]
    OBVIOUS
  <2>2. surfaced' = Append(surfaced, item) /\ UNCHANGED <<sawDone, outcome>>
    BY <1>0, <1>9, <2>1 DEF ChunkLine, DataKinds
  <2>3. item.data = {n} /\ item.name = 0
    BY <2>1
  <2>4. DataLines' = DataLines \cup {n} /\ Dones' = Dones /\ ObjectLines' = ObjectLines \cup {n}
    BY <1>2, <1>9 DEF DataKinds
  <2>5. Dones' = {}
    BY <1>5, <1>9, <2>4
  <2>6. NamesFor(item)' = {}
    BY <1>3 DEF NamesFor, SameFrame
  <2>7. ItemType \subseteq ItemType' /\ item \in ItemType'
    <3>1. 1..Len(said) \subseteq 1..Len(said') /\ 0..Len(said) \subseteq 0..Len(said')
          /\ n \in 1..Len(said') /\ 0 \in 0..Len(said')
      BY <1>0, <1>1
    <3>2. QED BY <2>1, <3>1 DEF ItemType
  <2>8. \A g \in SurfacedLines, d \in item.data : g < d
    BY <1>0, <1>1, <2>3 DEF CodecInv, GivenOK, DataLines
  <2>9. \A x \in Items : NamesFor(x)' = NamesFor(x)
    BY NamesStay
  <2>10. item.name = LastOf(NamesFor(item)')
    BY <2>3, <2>6 DEF LastOf
  <2>11. /\ GivenOK' /\ surfaced' \in Seq(ItemType')
         /\ SurfacedLines' = SurfacedLines \cup {n}
         /\ DOMAIN surfaced' = DOMAIN surfaced \cup {Len(surfaced) + 1}
         /\ \A k \in DOMAIN surfaced : surfaced'[k] = surfaced[k]
         /\ surfaced'[Len(surfaced) + 1] = item
    BY <1>5, <2>2, <2>3, <2>4, <2>5, <2>7, <2>8, <2>9, <2>10, Surfacing
  <2>12. CodecTypeOK'
    BY <1>1, <1>4, <2>2, <2>11 DEF CodecInv, CodecTypeOK, ItemType
  <2>13. ChunkItems'
    <3>1. \A k \in DOMAIN surfaced : \E i \in ObjectLines : surfaced[k].data = {i}
      BY <1>3 DEF CodecInv, ChunkItems
    <3>2. QED BY <2>3, <2>4, <2>11, <3>1 DEF ChunkItems
  <2>14. \A i \in DataLines' \ frame' : Handled(i)'
    BY <1>5, <2>4, <2>11 DEF Handled
  <2>15. OpenOK' /\ CompletedIsWhole'
    BY <1>3, <1>5, <2>2, <2>4, <2>14 DEF OpenOK, CompletedIsWhole
  <2>16. QED BY <2>11, <2>12, <2>13, <2>15 DEF CodecInv
<1>10. CASE line.kind \notin DataKinds \cup {"done"}
  <2>1. UNCHANGED <<sawDone, surfaced, outcome>>
    BY <1>10 DEF ChunkLine, DataKinds
  <2>2. GivenOK' /\ ChunkItems' /\ surfaced' \in Seq(ItemType') /\ SurfacedLines' = SurfacedLines
    BY <1>6, <2>1
  <2>3. CodecTypeOK'
    BY <1>1, <1>4, <1>5, <2>1, <2>2 DEF CodecTypeOK, ItemType
  <2>4. Dones' = Dones /\ DataLines' = DataLines
    BY <1>2, <1>10
  <2>5. \A i \in DataLines' \ frame' : Handled(i)'
    BY <1>5, <2>2, <2>4 DEF Handled
  <2>6. OpenOK' /\ CompletedIsWhole'
    BY <1>3, <1>5, <2>1, <2>4, <2>5 DEF OpenOK, CompletedIsWhole
  <2>7. QED BY <2>2, <2>3, <2>6 DEF CodecInv
<1>11. QED BY <1>7, <1>8, <1>9, <1>10

LEMMA InOneFrame ==
    ASSUME CodecInv, outcome = "open", NEW i \in frame, NEW j \in frame
    PROVE  SameFrame(i, j)
<1>1. frame = SinceBlank /\ DOMAIN said = 1..Len(said) /\ Len(said) \in Nat
  BY LenProperties DEF CodecInv, CodecTypeOK
<1>2. /\ codec = "events" /\ i \in DOMAIN said /\ j \in DOMAIN said
      /\ \A k \in i..Len(said) : said[k].kind # "blank"
      /\ \A k \in j..Len(said) : said[k].kind # "blank"
  BY <1>1 DEF SinceBlank
<1>3. QED BY <1>1, <1>2 DEF SameFrame

(* What was handled stays handled. *)
LEMMA HandledStays ==
    ASSUME CodecInv, outcome = "open", NEW line \in Lines, said' = Append(said, line),
           UNCHANGED codec, SurfacedLines \subseteq SurfacedLines',
           NEW i \in DataLines
    PROVE  /\ Handled(i) => Handled(i)'
           /\ \A d \in Dones : SameFrame(i, d) => Handled(i)'
<1>0. PICK n : n = Len(said) + 1
  OBVIOUS
<1>1. /\ Len(said) \in Nat /\ DOMAIN said = 1..Len(said)
      /\ DOMAIN said' = DOMAIN said \cup {n} /\ n \notin DOMAIN said
      /\ \A k \in DOMAIN said : said'[k] = said[k]
  BY <1>0, OneMore DEF CodecInv
<1>2. \A k \in DOMAIN said : k \in Nat /\ k < n
  BY <1>0, <1>1
<1>3. ASSUME NEW d \in Dones, SameFrame(i, d) PROVE Handled(i)'
  <2>1. i \in DOMAIN said /\ d \in DOMAIN said
    BY DEF DataLines, Dones
  <2>2. SameFrame(i, d)'
    BY <1>1, <1>2, <1>3, <2>1 DEF SameFrame
  <2>3. d \in Dones'
    BY <1>1, <2>1 DEF Dones
  <2>4. QED BY <2>2, <2>3 DEF Handled
<1>4. QED BY <1>3 DEF Handled

LEMMA EventLineKeeps ==
    ASSUME CodecInv, outcome = "open", Len(said) < MaxLines, UNCHANGED codec,
           NEW line \in Lines, said' = Append(said, line), EventLine(line)
    PROVE  CodecInv'
<1>0. PICK n : n = Len(said) + 1
  OBVIOUS
<1>1. /\ Len(said) \in Nat /\ DOMAIN said = 1..Len(said)
      /\ said' \in Seq(Lines) /\ Len(said') = n
      /\ DOMAIN said' = DOMAIN said \cup {n} /\ n \notin DOMAIN said /\ said'[n] = line
      /\ \A i \in DOMAIN said : said'[i] = said[i]
  BY <1>0, OneMore DEF CodecInv
<1>2. /\ DataLines' = DataLines \cup {i \in {n} : line.kind \in DataKinds}
      /\ Dones' = Dones \cup {i \in {n} : line.kind = "done"}
  BY <1>0, OneMoreKinds DEF CodecInv
<1>3. codec = "events" /\ codec' \in Codecs /\ Len(said') <= MaxLines
  BY <1>0, <1>1, CodecAssumption DEF EventLine, CodecInv, CodecTypeOK
<1>4. frame = SinceBlank /\ frame \subseteq DOMAIN said /\ sawDone \in BOOLEAN
  BY DEF CodecInv, CodecTypeOK
<1>5. ASSUME UNCHANGED surfaced
      PROVE  /\ GivenOK' /\ ChunkItems' /\ surfaced' \in Seq(ItemType')
             /\ SurfacedLines' = SurfacedLines
  BY <1>5, QuietLine
<1>6. CASE line.kind # "blank"
  <2>1. frame' = frame \cup {n} /\ UNCHANGED <<sawDone, surfaced, outcome>>
    BY <1>0, <1>6 DEF EventLine
  <2>2. GivenOK' /\ ChunkItems' /\ surfaced' \in Seq(ItemType') /\ SurfacedLines' = SurfacedLines
    BY <1>5, <2>1
  <2>3. SinceBlank' = SinceBlank \cup {n}
    <3>1. ASSUME NEW i \in DOMAIN said
          PROVE  i \in SinceBlank' <=> i \in SinceBlank
      <4>1. i..Len(said') = i..Len(said) \cup {n} /\ i \in DOMAIN said'
        BY <1>0, <1>1
      <4>2. i..Len(said) \subseteq DOMAIN said
        BY <1>1
      <4>3. \A k \in i..Len(said) : said'[k] = said[k]
        BY <1>1, <4>2
      <4>4. QED BY <1>1, <1>3, <1>6, <4>1, <4>3 DEF SinceBlank
    <3>2. n \in SinceBlank'
      <4>1. n..Len(said') = {n}
        BY <1>0, <1>1
      <4>2. QED BY <1>1, <1>3, <1>6, <4>1 DEF SinceBlank
    <3>3. SinceBlank' \subseteq DOMAIN said \cup {n} /\ SinceBlank \subseteq DOMAIN said
      BY <1>1 DEF SinceBlank
    <3>4. QED BY <3>1, <3>2, <3>3
  <2>4. CodecTypeOK'
    BY <1>1, <1>3, <1>4, <2>1, <2>2, <2>3 DEF CodecInv, CodecTypeOK, ItemType
  <2>5. /\ DataLines' \ frame' = DataLines \ frame /\ Dones' \ frame' = Dones \ frame
        /\ SurfacedLines' \cap frame' = {}
    <3>1. DataLines \subseteq DOMAIN said /\ Dones \subseteq DOMAIN said /\ SurfacedLines \subseteq DOMAIN said
      BY DEF CodecInv, GivenOK, DataLines, Dones
    <3>2. SurfacedLines \cap frame = {}
      BY DEF CodecInv, OpenOK
    <3>3. QED BY <1>1, <1>2, <2>1, <2>2, <3>1, <3>2
  <2>6. \A i \in DataLines \ frame : Handled(i)'
    BY <2>2, HandledStays DEF CodecInv, OpenOK
  <2>7. OpenOK' /\ CompletedIsWhole'
    BY <2>1, <2>5, <2>6 DEF CodecInv, OpenOK, CompletedIsWhole
  <2>8. QED BY <2>2, <2>4, <2>7 DEF CodecInv
<1>7. CASE line.kind = "blank"
  <2>1. DataLines' = DataLines /\ Dones' = Dones
    BY <1>2, <1>7 DEF DataKinds
  <2>2. SinceBlank' = {}
    <3>1. \A i \in DOMAIN said' : n \in i..Len(said')
      BY <1>0, <1>1
    <3>2. QED BY <1>1, <1>7, <3>1 DEF SinceBlank
  <2>3. FrameEnds
    BY <1>7 DEF FrameEnds
  <2>4. CASE FinishFrame
    <3>1. sawDone' = TRUE /\ frame' = {} /\ UNCHANGED <<surfaced, outcome>>
      BY <2>4 DEF FinishFrame
    <3>2. GivenOK' /\ ChunkItems' /\ surfaced' \in Seq(ItemType') /\ SurfacedLines' = SurfacedLines
      BY <1>5, <3>1
    <3>3. CodecTypeOK'
      BY <1>1, <1>3, <2>2, <3>1, <3>2 DEF CodecInv, CodecTypeOK, ItemType
    <3>4. PICK d \in Dones : d \in frame
      BY <1>4, <2>4 DEF FinishFrame, InFrame, Dones
    <3>5. ASSUME NEW i \in DataLines PROVE Handled(i)'
      <4>1. CASE i \in frame
        BY <3>2, <3>4, <4>1, InOneFrame, HandledStays
      <4>2. CASE i \notin frame
        BY <3>2, <4>2, HandledStays DEF CodecInv, OpenOK
      <4>3. QED BY <4>1, <4>2
    <3>6. OpenOK' /\ CompletedIsWhole'
      BY <2>1, <3>1, <3>4, <3>5 DEF CodecInv, OpenOK, CompletedIsWhole
    <3>7. QED BY <3>2, <3>3, <3>6 DEF CodecInv
  <2>5. CASE TakeFrame /\ FrameDecodes
    <3>1. InFrame({"done"}) = {} /\ SurfaceFrame /\ frame' = {} /\ UNCHANGED <<sawDone, outcome>>
      BY <2>5 DEF TakeFrame
    <3>2. /\ GivenOK' /\ surfaced' \in Seq(ItemType')
          /\ SurfacedLines' = SurfacedLines \cup InFrame(DataKinds)
      BY <2>3, <2>5, <3>1, FrameItem
    <3>3. CodecTypeOK'
      BY <1>1, <1>3, <1>4, <2>2, <3>1, <3>2 DEF CodecInv, CodecTypeOK, ItemType
    <3>4. ChunkItems'
      BY <1>3 DEF ChunkItems
    <3>5. Dones' \ frame' = Dones \ frame
      BY <2>1, <3>1 DEF InFrame, Dones
    <3>6. ASSUME NEW i \in DataLines PROVE Handled(i)'
      <4>1. CASE i \in frame
        BY <3>2, <4>1 DEF InFrame, DataLines, Handled
      <4>2. CASE i \notin frame
        BY <3>2, <4>2, HandledStays DEF CodecInv, OpenOK
      <4>3. QED BY <4>1, <4>2
    <3>7. OpenOK' /\ CompletedIsWhole'
      BY <2>1, <3>1, <3>5, <3>6 DEF CodecInv, OpenOK, CompletedIsWhole
    <3>8. QED BY <3>2, <3>3, <3>4, <3>7 DEF CodecInv
  <2>6. CASE TakeFrame /\ ~FrameDecodes
    <3>1. outcome' = "protocol_error" /\ UNCHANGED <<frame, surfaced, sawDone>>
      BY <2>6 DEF TakeFrame, End
    <3>2. GivenOK' /\ ChunkItems' /\ surfaced' \in Seq(ItemType')
      BY <1>5, <3>1
    <3>3. CodecTypeOK'
      BY <1>1, <1>3, <1>4, <3>1, <3>2 DEF CodecTypeOK, ItemType
    <3>4. OpenOK' /\ CompletedIsWhole'
      BY <3>1 DEF OpenOK, CompletedIsWhole
    <3>5. QED BY <3>2, <3>3, <3>4 DEF CodecInv
  <2>7. QED BY <1>7, <2>4, <2>5, <2>6 DEF EventLine
<1>8. QED BY <1>6, <1>7

LEMMA EndOfLinesKeeps ==
    ASSUME CodecInv, EndOfLines
    PROVE  CodecInv'
<1>1. outcome = "open" /\ frame' = {} /\ UNCHANGED <<codec, said>>
  BY DEF EndOfLines
<1>2. FrameEnds
  BY <1>1 DEF FrameEnds
<1>3. /\ DataLines' = DataLines /\ Dones' = Dones /\ ObjectLines' = ObjectLines
      /\ \A i, j : SameFrame(i, j)' <=> SameFrame(i, j)
  BY <1>1 DEF DataLines, Dones, ObjectLines, SameFrame
<1>4. CASE InFrame({"done"}) # {}
  <2>1. sawDone' = TRUE /\ outcome' = "completed" /\ UNCHANGED surfaced
    BY <1>4 DEF EndOfLines, EndWith, End
  <2>2. SurfacedLines' = SurfacedLines /\ Items' = Items /\ \A x : NamesFor(x)' = NamesFor(x)
    BY <1>1, <2>1 DEF SurfacedLines, Items, NamesFor, SameFrame
  <2>3. GivenOK' /\ ChunkItems' /\ OpenOK'
    BY <1>1, <1>3, <2>1, <2>2 DEF CodecInv, GivenOK, ChunkItems, OpenOK
  <2>4. CodecTypeOK'
    BY <1>1, <2>1 DEF CodecInv, CodecTypeOK
  <2>5. PICK d \in Dones : d \in frame
    BY <1>4 DEF InFrame, Dones, CodecInv, CodecTypeOK
  <2>6. \A i \in DataLines : i \in SurfacedLines \/ \E e \in Dones : SameFrame(i, e)
    BY <1>1, <2>5, InOneFrame DEF CodecInv, OpenOK, Handled
  <2>7. CompletedIsWhole'
    BY <1>3, <2>2, <2>5, <2>6 DEF CompletedIsWhole
  <2>8. QED BY <2>3, <2>4, <2>7 DEF CodecInv
<1>5. CASE InFrame({"done"}) = {} /\ FrameDecodes
  <2>1. SurfaceFrame /\ UNCHANGED sawDone
        /\ outcome' = IF sawDone THEN "completed" ELSE "protocol_error"
    BY <1>5 DEF EndOfLines, EndWith, End
  <2>2. /\ GivenOK' /\ surfaced' \in Seq(ItemType')
        /\ SurfacedLines' = SurfacedLines \cup InFrame(DataKinds)
    BY <1>1, <1>2, <1>5, <2>1, FrameItem
  <2>3. CodecTypeOK' /\ OpenOK'
    BY <1>1, <2>1, <2>2 DEF CodecInv, CodecTypeOK, ItemType, OpenOK
  <2>4. ChunkItems'
    <3>1. CASE codec = "chunks"
      <4>1. InFrame(DataKinds) = {}
        BY <1>1, <3>1 DEF InFrame, CodecInv, CodecTypeOK, SinceBlank
      <4>2. UNCHANGED surfaced
        BY <2>1, <4>1 DEF SurfaceFrame
      <4>3. QED BY <1>1, <1>3, <4>2 DEF CodecInv, ChunkItems
    <3>2. QED BY <1>1, <3>1 DEF ChunkItems
  <2>5. CompletedIsWhole'
    <3>1. CASE sawDone
      <4>1. InFrame(DataKinds) = {}
        BY <1>5, <3>1 DEF FrameDecodes
      <4>2. DataLines \cap frame = {}
        BY <4>1 DEF InFrame, DataLines
      <4>3. Dones # {} /\ \A i \in DataLines : Handled(i)
        BY <1>1, <3>1, <4>2 DEF CodecInv, OpenOK
      <4>4. QED BY <1>3, <2>2, <4>3 DEF CompletedIsWhole, Handled
    <3>2. QED BY <2>1, <3>1 DEF CompletedIsWhole
  <2>6. QED BY <2>2, <2>3, <2>4, <2>5 DEF CodecInv
<1>6. CASE InFrame({"done"}) = {} /\ ~FrameDecodes
  <2>1. outcome' = "protocol_error" /\ UNCHANGED <<sawDone, surfaced>>
    BY <1>6 DEF EndOfLines, End
  <2>2. QED BY <1>1, <2>1, EndsOnly
<1>7. QED BY <1>4, <1>5, <1>6

LEMMA StepCodec == CodecInv /\ [Next]_vars => CodecInv'
<1> SUFFICES ASSUME CodecInv, [Next]_vars PROVE CodecInv'
  OBVIOUS
<1>1. CASE NextLine
  <2>1. PICK line \in Lines : said' = Append(said, line) /\ (ChunkLine(line) \/ EventLine(line))
    BY <1>1 DEF NextLine
  <2>2. outcome = "open" /\ Len(said) < MaxLines /\ UNCHANGED codec
    BY <1>1 DEF NextLine
  <2>3. QED BY <2>1, <2>2, ChunkLineKeeps, EventLineKeeps
<1>2. CASE EndOfLines
  BY <1>2, EndOfLinesKeeps
<1>3. CASE LinesBreak
  BY <1>3, EndsOnly DEF LinesBreak, End
<1>4. CASE UNCHANGED vars
  <2>1. /\ SurfacedLines' = SurfacedLines /\ DataLines' = DataLines /\ Dones' = Dones
        /\ Items' = Items /\ ObjectLines' = ObjectLines
        /\ \A i, j : SameFrame(i, j)' <=> SameFrame(i, j)
    BY <1>4 DEF vars, SurfacedLines, DataLines, Dones, Items, ObjectLines, SameFrame
  <2>2. \A x : NamesFor(x)' = NamesFor(x)
    BY <1>4 DEF vars, NamesFor, SameFrame
  <2>3. \A i : Handled(i)' <=> Handled(i)
    BY <2>1 DEF Handled
  <2>4. CodecTypeOK'
    BY <1>4 DEF vars, CodecInv, CodecTypeOK, SinceBlank
  <2>5. GivenOK' /\ OpenOK' /\ ChunkItems' /\ CompletedIsWhole'
    BY <1>4, <2>1, <2>2, <2>3 DEF vars, CodecInv, GivenOK, OpenOK, ChunkItems, CompletedIsWhole
  <2>6. QED BY <2>4, <2>5 DEF CodecInv
<1>5. QED BY <1>1, <1>2, <1>3, <1>4 DEF Next

LEMMA CodecInvariance == Spec => []CodecInv
BY InitCodec, StepCodec, PTL DEF Spec

(* What either codec yields, also when the stream fails later, is in the   *)
(* order of the lines, none twice and none left out, before any [DONE],    *)
(* and an event has the last name of its own frame (_iter_sse_events,      *)
(* _iter_sse_chunks), for streams of any length.                           *)
THEOREM GivenIsSaid == Spec => []SurfacedInOrder
<1>1. CodecInv => SurfacedInOrder
  <2> SUFFICES ASSUME CodecInv PROVE SurfacedInOrder
    OBVIOUS
  <2>1. \A k \in DOMAIN surfaced : surfaced[k].name = LastOf(NamesFor(surfaced[k]))
    BY DEF CodecInv, GivenOK, Items
  <2>2. QED BY <2>1 DEF CodecInv, GivenOK, SurfacedInOrder
<1>2. QED BY <1>1, CodecInvariance, PTL

(* A stream that completes said [DONE], and all its data was given to the  *)
(* caller, but for what stood in a frame with [DONE].                      *)
THEOREM CompleteIsWhole == Spec => []CompletedIsWhole
<1>1. CodecInv => CompletedIsWhole
  BY DEF CodecInv
<1>2. QED BY <1>1, CodecInvariance, PTL

-----------------------------------------------------------------------------
(* Increasing enumerations of finite sets of numbers. *)
LEMMA SetInduction ==
    ASSUME NEW T \in SUBSET Nat, 0 \in T, \A n \in T : n + 1 \in T
    PROVE  T = Nat
<1> SUFFICES ASSUME Nat \ T # {} PROVE FALSE
  OBVIOUS
<1>1. PICK m \in Nat \ T : \A n \in Nat \ T : m <= n
  BY LeastExists
<1>2. m # 0 /\ m - 1 \in Nat /\ (m - 1) + 1 = m /\ ~(m <= m - 1)
  BY <1>1
<1>3. m - 1 \in T
  BY <1>1, <1>2
<1>4. m \in T
  BY <1>2, <1>3
<1>5. QED BY <1>1, <1>4

(* The sets of n numbers have one. *)
Sortable(n) ==
    \A S \in SUBSET Nat :
        IsFiniteSet(S) /\ Cardinality(S) = n => \E s \in [1..n -> S] : Increasing(s)

LEMMA AllSortable == \A n \in Nat : Sortable(n)
<1> DEFINE T == {n \in Nat : Sortable(n)}
<1>1. 0 \in T
  <2>1. ASSUME NEW S \in SUBSET Nat, IsFiniteSet(S), Cardinality(S) = 0
        PROVE  \E s \in [1..0 -> S] : Increasing(s)
    <3>1. [k \in 1..0 |-> 0] \in [1..0 -> S]
      OBVIOUS
    <3>2. Increasing([k \in 1..0 |-> 0])
      BY DEF Increasing
    <3>3. QED BY <3>1, <3>2
  <2>2. QED BY <2>1 DEF Sortable
<1>2. ASSUME NEW n \in T PROVE n + 1 \in T
  <2>1. n \in Nat /\ Sortable(n)
    OBVIOUS
  <2>2. ASSUME NEW S \in SUBSET Nat, IsFiniteSet(S), Cardinality(S) = n + 1
        PROVE  \E s \in [1..(n + 1) -> S] : Increasing(s)
    <3>1. S # {}
      BY <2>1, <2>2, FS_EmptySet
    <3>2. PICK m \in S : \A i \in S : m <= i
      BY <3>1, LeastExists
    <3>3. IsFiniteSet(S \ {m}) /\ Cardinality(S \ {m}) = n
      BY <2>1, <2>2, <3>2, FS_RemoveElement
    <3>4. PICK r \in [1..n -> S \ {m}] : Increasing(r)
      BY <2>1, <3>3 DEF Sortable
    <3> DEFINE s == [k \in 1..(n + 1) |-> IF k = 1 THEN m ELSE r[k - 1]]
    <3>5. \A k \in 1..(n + 1) : k # 1 => k - 1 \in 1..n /\ r[k - 1] \in S \ {m}
      BY <2>1, <3>4
    <3>6. s \in [1..(n + 1) -> S]
      BY <3>2, <3>5
    <3>7. ASSUME NEW j \in 1..(n + 1), NEW k \in 1..(n + 1), j < k PROVE s[j] < s[k]
      <4>1. k # 1 /\ s[k] = r[k - 1] /\ k - 1 \in 1..n
        BY <2>1, <3>5, <3>7
      <4>2. CASE j = 1
        <5>1. s[j] = m
          BY <4>2
        <5>2. m \in Nat /\ r[k - 1] \in Nat /\ m <= r[k - 1] /\ r[k - 1] # m
          BY <3>2, <3>5, <4>1
        <5>3. QED BY <4>1, <5>1, <5>2
      <4>3. CASE j # 1
        <5>1. s[j] = r[j - 1] /\ j - 1 \in 1..n /\ j - 1 < k - 1
          BY <2>1, <3>5, <3>7, <4>3
        <5>2. r[j - 1] < r[k - 1]
          BY <3>4, <4>1, <5>1 DEF Increasing
        <5>3. QED BY <4>1, <5>1, <5>2
      <4>4. QED BY <4>2, <4>3
    <3>8. DOMAIN s = 1..(n + 1)
      OBVIOUS
    <3> HIDE DEF s
    <3>9. Increasing(s)
      BY <3>7, <3>8 DEF Increasing
    <3>10. QED BY <3>6, <3>9
  <2>3. Sortable(n + 1)
    BY <2>2 DEF Sortable
  <2>4. QED BY <2>1, <2>3
<1> HIDE DEF T
<1>3. T = Nat
  <2>1. T \in SUBSET Nat
    BY DEF T
  <2>2. QED BY <1>1, <1>2, <2>1, SetInduction
<1>4. QED BY <1>3 DEF T

(* Sorted lists the set, each number once, in order. *)
LEMMA SortedLists ==
    ASSUME NEW S \in SUBSET Nat, IsFiniteSet(S)
    PROVE  /\ Cardinality(S) \in Nat
           /\ Sorted(S) \in [1..Cardinality(S) -> S]
           /\ Increasing(Sorted(S))
           /\ {Sorted(S)[k] : k \in 1..Cardinality(S)} = S
<1> DEFINE n == Cardinality(S)
<1>1. n \in Nat
  BY FS_CardinalityType
<1>2. \E s \in [1..n -> S] : Increasing(s)
  BY <1>1, AllSortable DEF Sortable
<1>3. Sorted(S) \in [1..n -> S] /\ Increasing(Sorted(S))
  BY <1>2 DEF Sorted
<1>4. PICK s : s = Sorted(S)
  OBVIOUS
<1>5. s \in [1..n -> S] /\ Increasing(s)
  BY <1>3, <1>4
<1>6. ASSUME NEW x \in S PROVE \E k \in 1..n : s[k] = x
  <2>1. ASSUME NEW j \in 1..n, NEW k \in 1..n, s[j] = s[k] PROVE j = k
    <3>1. s[j] \in Nat /\ s[k] \in Nat /\ DOMAIN s = 1..n
      BY <1>5
    <3>2. ~(j < k) /\ ~(k < j)
      BY <1>5, <2>1, <3>1 DEF Increasing
    <3>3. QED BY <1>1, <3>2
  <2>2. s \in Injection(1..n, S)
    BY <1>5, <2>1 DEF Injection, IsInjective
  <2>3. IsFiniteSet(1..n) /\ Cardinality(1..n) = n
    BY <1>1, FS_Interval
  <2>4. s \in Surjection(1..n, S)
    BY <2>2, <2>3, FS_Injection
  <2>5. QED BY <1>6, <2>4 DEF Surjection
<1>7. {s[k] : k \in 1..n} = S
  BY <1>5, <1>6
<1>8. QED BY <1>1, <1>3, <1>4, <1>7

Enumerates(s, S) ==
    \E n \in Nat : /\ s \in [1..n -> S] /\ Increasing(s)
                  /\ {s[k] : k \in 1..n} = S

LEMMA SortedEnumerates ==
    ASSUME NEW S \in SUBSET Nat, IsFiniteSet(S), NEW s, s = Sorted(S)
    PROVE  Enumerates(s, S)
BY SortedLists DEF Enumerates

-----------------------------------------------------------------------------
(* Texts. *)
Pieces == Nat \X Nat

LEMMA BeforeOrders ==
    ASSUME NEW p \in Pieces, NEW q \in Pieces, Before(p, q)
    PROVE  ~Before(q, p) /\ p # q
BY DEF Before, Pieces

LEMMA ListsNothing == Lists(<<>>, {})
<1>1. <<>> \in Seq({}) /\ DOMAIN <<>> = {}
  BY EmptySeq
<1>2. QED BY <1>1 DEF Lists

LEMMA ListsEmpty ==
    ASSUME NEW s, NEW P, Lists(s, P)
    PROVE  s = <<>> <=> P = {}
<1>1. s \in Seq(P) /\ \A p \in P : \E k \in DOMAIN s : s[k] = p
  BY DEF Lists
<1>2. ASSUME s = <<>> PROVE P = {}
  <2>1. DOMAIN s = {}
    BY <1>2
  <2>2. QED BY <1>1, <2>1
<1>3. ASSUME P = {} PROVE s = <<>>
  <2>1. Len(s) \in Nat /\ s \in [1..Len(s) -> P]
    BY <1>1, LenProperties
  <2>2. Len(s) = 0
    <3>1. ASSUME Len(s) # 0 PROVE FALSE
      <4>1. 1 \in 1..Len(s)
        BY <2>1, <3>1
      <4>2. s[1] \in P
        BY <2>1, <4>1
      <4>3. QED BY <1>3, <4>2
    <3>2. QED BY <3>1
  <2>3. QED BY <1>1, <2>2, EmptySeq
<1>4. QED BY <1>2, <1>3

(* p comes after all the pieces P. *)
After(p, P) == \A q \in P : Before(q, p)

LEMMA ListsAppend ==
    ASSUME NEW s, NEW P, Lists(s, P), NEW p, After(p, P),
           NEW t, t = Append(s, p), NEW Q, Q = P \cup {p}
    PROVE  Lists(t, Q)
<1>2. s \in Seq(P)
  BY DEF Lists
<1>3. Len(s) \in Nat /\ DOMAIN s = 1..Len(s) /\ \A k \in DOMAIN s : s[k] \in P
  BY <1>2, LenProperties, ElementOfSeq
<1>4. s \in Seq(Q)
  BY <1>2, SeqMonotonic
<1>5. /\ t \in Seq(Q) /\ Len(t) = Len(s) + 1
      /\ \A k \in 1..Len(s) : t[k] = s[k]
      /\ t[Len(s) + 1] = p
  BY <1>4, AppendProperties
<1>6. DOMAIN t = 1..(Len(s) + 1)
  BY <1>5, LenProperties
<1>7. \A q \in Q : \E k \in DOMAIN t : t[k] = q
  <2>1. \A q \in P : \E k \in DOMAIN s : s[k] = q
    BY DEF Lists
  <2>2. DOMAIN s \subseteq DOMAIN t /\ Len(s) + 1 \in DOMAIN t
    BY <1>3, <1>6
  <2>3. QED BY <1>3, <1>5, <2>1, <2>2
<1>8. ASSUME NEW j \in DOMAIN t, NEW k \in DOMAIN t, j < k PROVE Before(t[j], t[k])
  <2>1. j \in 1..Len(s) /\ t[j] = s[j] /\ s[j] \in P
    BY <1>3, <1>5, <1>6, <1>8
  <2>2. CASE k = Len(s) + 1
    BY <1>5, <2>1, <2>2 DEF After
  <2>3. CASE k # Len(s) + 1
    <3>1. k \in 1..Len(s) /\ t[k] = s[k]
      BY <1>3, <1>5, <1>6, <2>3
    <3>2. QED BY <1>3, <1>8, <2>1, <3>1 DEF Lists
  <2>4. QED BY <2>2, <2>3
<1>9. QED BY <1>5, <1>7, <1>8 DEF Lists

(* There is one such text for every set of pieces. *)
LEMMA ListsAreOne ==
    ASSUME NEW P \in SUBSET Pieces, NEW s, NEW t, Lists(s, P), Lists(t, P)
    PROVE  s = t
<1>1. /\ s \in Seq(P) /\ t \in Seq(P)
      /\ Len(s) \in Nat /\ DOMAIN s = 1..Len(s) /\ \A k \in 1..Len(s) : s[k] \in P
      /\ Len(t) \in Nat /\ DOMAIN t = 1..Len(t) /\ \A k \in 1..Len(t) : t[k] \in P
  BY LenProperties, ElementOfSeq DEF Lists
<1>2. /\ \A p \in P : \E k \in 1..Len(s) : s[k] = p
      /\ \A p \in P : \E k \in 1..Len(t) : t[k] = p
      /\ \A j, k \in 1..Len(s) : j < k => Before(s[j], s[k])
      /\ \A j, k \in 1..Len(t) : j < k => Before(t[j], t[k])
  BY <1>1 DEF Lists
<1>3. \A j, k \in 1..Len(s) : s[j] = s[k] => j = k
  <2>1. ASSUME NEW j \in 1..Len(s), NEW k \in 1..Len(s), s[j] = s[k] PROVE j = k
    <3>1. ~(j < k) /\ ~(k < j)
      BY <1>1, <1>2, <2>1, BeforeOrders
    <3>2. QED BY <1>1, <3>1
  <2>2. QED BY <2>1
<1>4. \A j, k \in 1..Len(t) : t[j] = t[k] => j = k
  <2>1. ASSUME NEW j \in 1..Len(t), NEW k \in 1..Len(t), t[j] = t[k] PROVE j = k
    <3>1. ~(j < k) /\ ~(k < j)
      BY <1>1, <1>2, <2>1, BeforeOrders
    <3>2. QED BY <1>1, <3>1
  <2>2. QED BY <2>1
<1>5. \A k \in 1..Len(s) : k \in 1..Len(t) => s[k] = t[k]
  <2> DEFINE I == {k \in 1..Len(s) : k \in 1..Len(t) /\ s[k] # t[k]}
  <2> SUFFICES ASSUME I # {} PROVE FALSE
    OBVIOUS
  <2>0. I \in SUBSET Nat /\ \A k : k \in I <=> k \in 1..Len(s) /\ k \in 1..Len(t) /\ s[k] # t[k]
    OBVIOUS
  <2> HIDE DEF I
  <2>1. PICK n \in I : \A k \in I : n <= k
    BY <2>0, LeastExists
  <2>2. n \in 1..Len(s) /\ n \in 1..Len(t) /\ s[n] # t[n]
    BY <2>0, <2>1
  <2>3. PICK i \in 1..Len(t) : t[i] = s[n]
    BY <1>1, <1>2, <2>2
  <2>4. PICK j \in 1..Len(s) : s[j] = t[n]
    BY <1>1, <1>2, <2>2
  <2>5. n < i
    <3>1. i # n
      BY <2>2, <2>3
    <3>2. ~(i < n)
      <4>1. ASSUME i < n PROVE FALSE
        <5>1. i \in 1..Len(s)
          BY <1>1, <2>2, <2>3, <4>1
        <5>2. s[i] = t[i]
          BY <1>1, <2>0, <2>1, <2>2, <2>3, <4>1, <5>1
        <5>3. QED BY <1>3, <2>2, <2>3, <3>1, <5>1, <5>2
      <4>2. QED BY <4>1
    <3>3. QED BY <1>1, <2>2, <2>3, <3>1, <3>2
  <2>6. n < j
    <3>1. j # n
      BY <2>2, <2>4
    <3>2. ~(j < n)
      <4>1. ASSUME j < n PROVE FALSE
        <5>1. j \in 1..Len(t)
          BY <1>1, <2>2, <2>4, <4>1
        <5>2. s[j] = t[j]
          BY <1>1, <2>0, <2>1, <2>2, <2>4, <4>1, <5>1
        <5>3. QED BY <1>4, <2>2, <2>4, <3>1, <5>1, <5>2
      <4>2. QED BY <4>1
    <3>3. QED BY <1>1, <2>2, <2>4, <3>1, <3>2
  <2>7. Before(t[n], s[n]) /\ Before(s[n], t[n])
    BY <1>2, <2>2, <2>3, <2>4, <2>5, <2>6
  <2>8. s[n] \in Pieces /\ t[n] \in Pieces
    BY <1>1, <2>2
  <2>9. QED BY <2>7, <2>8, BeforeOrders
<1>6. ~(Len(s) < Len(t))
  <2> SUFFICES ASSUME Len(s) < Len(t) PROVE FALSE
    OBVIOUS
  <2>1. PICK n : n = Len(s) + 1
    OBVIOUS
  <2>2. n \in 1..Len(t) /\ n \notin 1..Len(s) /\ 1..Len(s) \subseteq 1..Len(t)
    BY <1>1, <2>1
  <2>3. PICK k \in 1..Len(s) : s[k] = t[n]
    BY <1>1, <1>2, <2>2
  <2>4. t[k] = t[n] /\ k \in 1..Len(t)
    BY <1>5, <2>2, <2>3
  <2>5. QED BY <1>4, <2>2, <2>3, <2>4
<1>7. ~(Len(t) < Len(s))
  <2> SUFFICES ASSUME Len(t) < Len(s) PROVE FALSE
    OBVIOUS
  <2>1. PICK n : n = Len(t) + 1
    OBVIOUS
  <2>2. n \in 1..Len(s) /\ n \notin 1..Len(t) /\ 1..Len(t) \subseteq 1..Len(s)
    BY <1>1, <2>1
  <2>3. PICK k \in 1..Len(t) : t[k] = s[n]
    BY <1>1, <1>2, <2>2
  <2>4. s[k] = s[n] /\ k \in 1..Len(s)
    BY <1>5, <2>2, <2>3
  <2>5. QED BY <1>3, <2>2, <2>3, <2>4
<1>8. Len(s) = Len(t)
  <2>1. \A a, b \in Nat : ~(a < b) /\ ~(b < a) => a = b
    OBVIOUS
  <2>2. QED BY <1>1, <1>6, <1>7, <2>1
<1>9. QED BY <1>1, <1>5, <1>8, SeqEqual

-----------------------------------------------------------------------------
(* Entries, and what the collector has made of those it walked over.       *)
EntryType == [index : Nat \cup {-1}, field : Fields, slot : Nat,
              null : BOOLEAN, finish : BOOLEAN]

LEMMA ChunkTypes ==
    ASSUME CodecTypeOK, NEW i \in ObjectLines
    PROVE  /\ i \in DOMAIN said /\ i \in Nat
           /\ said[i].chunk.choices \in Seq(EntryType)
           /\ said[i].chunk.usage \in BOOLEAN
<1>1. said \in Seq(Lines) /\ i \in DOMAIN said /\ said[i].kind = "object"
  BY DEF CodecTypeOK, ObjectLines
<1>2. i \in 1..Len(said) /\ i \in Nat
  BY <1>1, LenProperties
<1>3. said[i] \in Lines
  BY <1>1, <1>2, ElementOfSeq
<1>4. said[i] \in [kind : {"object"}, chunk : Chunks]
  BY <1>1, <1>3 DEF Lines
<1>5. said[i].chunk \in Chunks
  BY <1>4
<1>6. said[i].chunk \in [choices : Seq(EntryType), usage : BOOLEAN]
  BY <1>5, ChunksAssumption DEF EntryType
<1>7. QED BY <1>1, <1>2, <1>6

LEMMA PieceTypes ==
    ASSUME CodecTypeOK, NEW p \in SaidPieces
    PROVE  /\ p \in Pieces /\ p = <<p[1], p[2]>>
           /\ p[1] \in ObjectLines
           /\ p[2] \in 1..Len(said[p[1]].chunk.choices)
           /\ Entry(p) \in EntryType /\ ChoiceOf(p) \in Nat
<1>1. PICK i \in ObjectLines : \E n \in DOMAIN said[i].chunk.choices : p = <<i, n>>
  BY DEF SaidPieces
<1>2. PICK n \in DOMAIN said[i].chunk.choices : p = <<i, n>>
  BY <1>1
<1>3. i \in Nat /\ said[i].chunk.choices \in Seq(EntryType)
  BY ChunkTypes
<1>4. n \in 1..Len(said[i].chunk.choices) /\ Len(said[i].chunk.choices) \in Nat
  BY <1>2, <1>3, LenProperties
<1>5. n \in Nat \ {0}
  BY <1>4
<1>6. said[i].chunk.choices[n] \in EntryType
  BY <1>3, <1>4, ElementOfSeq
<1>7. p[1] = i /\ p[2] = n /\ Entry(p) = said[i].chunk.choices[n]
  BY <1>2 DEF Entry
<1>8. ChoiceOf(p) \in Nat
  <2>1. Entry(p).index \in Nat \cup {-1}
    BY <1>6, <1>7 DEF EntryType
  <2>2. CASE Entry(p).index >= 0
    BY <2>1, <2>2 DEF ChoiceOf
  <2>3. CASE ~(Entry(p).index >= 0)
    <3>1. ChoiceOf(p) = p[2] - 1
      BY <2>3 DEF ChoiceOf
    <3>2. QED BY <1>5, <1>7, <3>1
  <2>4. QED BY <2>2, <2>3
<1>9. QED BY <1>2, <1>3, <1>4, <1>5, <1>6, <1>7, <1>8 DEF Pieces

Finishing(P) == {p \in P : Entry(p).finish}

(* The tool calls that the pieces V were merged into. *)
ToolsOK(tools, V) ==
    /\ IsFiniteSet(DOMAIN tools)
    /\ DOMAIN tools = {Entry(p).slot : p \in V}
    /\ \A s \in DOMAIN tools : Lists(tools[s], InSlot(V, s))

(* The state of a choice that the pieces P were added to. *)
ChoiceOK(choice, P) ==
    /\ \A f \in {"content", "refusal"} : Lists(choice.parts[f], Voiced(P, f))
    /\ choice.seen = {Entry(p).field : p \in P} \ {"nothing"}
    /\ ToolsOK(choice.tools, Voiced(P, "tool_calls"))
    /\ IsLast(choice.finish, Finishing(P))

LEMMA NewIsOK == ChoiceOK(NewChoice, {})
<1>1. PICK c : c = NewChoice
  OBVIOUS
<1>2. /\ c.parts["content"] = <<>> /\ c.parts["refusal"] = <<>>
      /\ c.seen = {} /\ c.tools = <<>> /\ c.finish = <<>>
  BY <1>1 DEF NewChoice
<1>3. DOMAIN c.tools = {}
  BY <1>2
<1>4. \A f : Voiced({}, f) = {}
  BY DEF Voiced, Told
<1>5. \A f \in {"content", "refusal"} : Lists(c.parts[f], Voiced({}, f))
  BY <1>2, <1>4, ListsNothing
<1>6. ToolsOK(c.tools, Voiced({}, "tool_calls"))
  BY <1>3, <1>4, FS_EmptySet DEF ToolsOK
<1>7. IsLast(c.finish, Finishing({}))
  BY <1>2 DEF IsLast, Finishing
<1>8. ChoiceOK(c, {})
  BY <1>2, <1>3, <1>4, <1>5, <1>6, <1>7 DEF ChoiceOK
<1>9. QED BY <1>1, <1>8

(* One more tool call delta. *)
LEMMA MergeLists ==
    ASSUME NEW tools, NEW V, NEW p, NEW s,
           ToolsOK(tools, V), Entry(p).slot = s, After(p, V),
           NEW new, new = MergeToolCall(tools, s, p)
    PROVE  ToolsOK(new, V \cup {p})
<1>1. DOMAIN new = DOMAIN tools \cup {s}
  BY DEF MergeToolCall
<1>2. IsFiniteSet(DOMAIN new)
  BY <1>1, FS_AddElement DEF ToolsOK
<1>3. ASSUME NEW r \in DOMAIN new, r # s PROVE Lists(new[r], InSlot(V \cup {p}, r))
  <2>1. r \in DOMAIN tools /\ new[r] = tools[r]
    BY <1>1, <1>3 DEF MergeToolCall
  <2>2. InSlot(V \cup {p}, r) = InSlot(V, r)
    BY <1>3 DEF InSlot
  <2>3. QED BY <2>1, <2>2 DEF ToolsOK
<1>4. Lists(new[s], InSlot(V \cup {p}, s))
  <2>1. PICK old : old = IF s \in DOMAIN tools THEN tools[s] ELSE <<>>
    OBVIOUS
  <2>2. new[s] = Append(old, p)
    BY <2>1 DEF MergeToolCall
  <2>3. Lists(old, InSlot(V, s))
    <3>1. CASE s \in DOMAIN tools
      BY <2>1, <3>1 DEF ToolsOK
    <3>2. CASE s \notin DOMAIN tools
      <4>1. InSlot(V, s) = {} /\ old = <<>>
        BY <2>1, <3>2 DEF InSlot, ToolsOK
      <4>2. QED BY <4>1, ListsNothing
    <3>3. QED BY <3>1, <3>2
  <2>4. InSlot(V \cup {p}, s) = InSlot(V, s) \cup {p} /\ After(p, InSlot(V, s))
    BY DEF InSlot, After
  <2>5. QED BY <2>2, <2>3, <2>4, ListsAppend
<1>5. DOMAIN new = {Entry(q).slot : q \in V \cup {p}}
  BY <1>1 DEF ToolsOK
<1>6. QED BY <1>2, <1>3, <1>4, <1>5 DEF ToolsOK

(* One more entry of a choice. *)
LEMMA AddIsOK ==
    ASSUME NEW choice, NEW P, ChoiceOK(choice, P), NEW p, After(p, P),
           NEW e, e = Entry(p), e \in EntryType,
           NEW new, new = AddEntry(choice, e, p)
    PROVE  ChoiceOK(new, P \cup {p})
<1> DEFINE Q == P \cup {p}
<1>1. /\ new.parts = [f \in {"content", "refusal"} |->
                          IF e.field = f /\ ~e.null THEN Append(choice.parts[f], p)
                          ELSE choice.parts[f]]
      /\ new.seen = choice.seen \cup ({e.field} \ {"nothing"})
      /\ new.tools = IF e.field = "tool_calls" /\ ~e.null
                     THEN MergeToolCall(choice.tools, e.slot, p) ELSE choice.tools
      /\ new.finish = IF e.finish THEN p ELSE choice.finish
  BY DEF AddEntry
<1>2. ASSUME NEW f
      PROVE  /\ (e.field = f /\ ~e.null) => Voiced(Q, f) = Voiced(P, f) \cup {p}
             /\ ~(e.field = f /\ ~e.null) => Voiced(Q, f) = Voiced(P, f)
             /\ After(p, Voiced(P, f))
  <2>1. \A q : q \in Voiced(Q, f) <=> (q \in Voiced(P, f) \/ (q = p /\ e.field = f /\ ~e.null))
    BY DEF Voiced, Told
  <2>2. Voiced(P, f) \subseteq P
    BY DEF Voiced, Told
  <2>3. QED BY <2>1, <2>2 DEF After
<1>3. ASSUME NEW f \in {"content", "refusal"} PROVE Lists(new.parts[f], Voiced(Q, f))
  <2>1. Lists(choice.parts[f], Voiced(P, f))
    BY DEF ChoiceOK
  <2>2. CASE e.field = f /\ ~e.null
    <3>1. new.parts[f] = Append(choice.parts[f], p)
      BY <1>1, <2>2
    <3>2. Voiced(Q, f) = Voiced(P, f) \cup {p} /\ After(p, Voiced(P, f))
      BY <1>2, <2>2
    <3> HIDE DEF Q
    <3>3. QED BY <2>1, <3>1, <3>2, ListsAppend
  <2>3. CASE ~(e.field = f /\ ~e.null)
    <3>1. new.parts[f] = choice.parts[f]
      BY <1>1, <2>3
    <3>2. QED BY <1>2, <2>1, <2>3, <3>1
  <2>4. QED BY <2>2, <2>3
<1>4. new.seen = {Entry(q).field : q \in Q} \ {"nothing"}
  BY <1>1 DEF ChoiceOK
<1>5. ToolsOK(new.tools, Voiced(Q, "tool_calls"))
  <2>1. ToolsOK(choice.tools, Voiced(P, "tool_calls"))
    BY DEF ChoiceOK
  <2>2. CASE e.field = "tool_calls" /\ ~e.null
    <3>1. new.tools = MergeToolCall(choice.tools, e.slot, p)
          /\ Voiced(Q, "tool_calls") = Voiced(P, "tool_calls") \cup {p}
          /\ After(p, Voiced(P, "tool_calls"))
      BY <1>1, <1>2, <2>2
    <3>2. QED BY <2>1, <3>1, MergeLists
  <2>3. CASE ~(e.field = "tool_calls" /\ ~e.null)
    <3>1. new.tools = choice.tools /\ Voiced(Q, "tool_calls") = Voiced(P, "tool_calls")
      BY <1>1, <1>2, <2>3
    <3>2. QED BY <2>1, <3>1
  <2>4. QED BY <2>2, <2>3
<1>6. IsLast(new.finish, Finishing(Q))
  <2>1. IsLast(choice.finish, Finishing(P))
    BY DEF ChoiceOK
  <2>2. CASE e.finish
    <3>1. Finishing(Q) = Finishing(P) \cup {p} /\ Finishing(P) \subseteq P
      BY <2>2 DEF Finishing
    <3>2. new.finish = p
      BY <1>1, <2>2
    <3>3. QED BY <3>1, <3>2 DEF IsLast, After
  <2>3. CASE ~e.finish
    <3>1. Finishing(Q) = Finishing(P)
      BY <2>3 DEF Finishing
    <3>2. new.finish = choice.finish
      BY <1>1, <2>3
    <3>3. QED BY <2>1, <3>1, <3>2
  <2>4. QED BY <2>2, <2>3
<1>7. QED BY <1>3, <1>4, <1>5, <1>6 DEF ChoiceOK

(* The choices that the pieces T were added to. *)
ChoicesOK(choices, T) ==
    /\ IsFiniteSet(DOMAIN choices)
    /\ DOMAIN choices = {ChoiceOf(p) : p \in T}
    /\ \A i \in DOMAIN choices : ChoiceOK(choices[i], Of(T, i))
    /\ \A p \in T : Entry(p).field # "misshapen"

LEMMA AddToIsOK ==
    ASSUME CodecTypeOK, NEW choices, NEW T, ChoicesOK(choices, T),
           NEW p \in SaidPieces, After(p, T),
           NEW e, e = Entry(p), e.field # "misshapen",
           NEW new, new = AddToChoices(choices, ChoiceOf(p), e, p)
    PROVE  ChoicesOK(new, T \cup {p})
<1>1. PICK i : i = ChoiceOf(p)
  OBVIOUS
<1>2. DOMAIN new = DOMAIN choices \cup {i}
  BY <1>1 DEF AddToChoices
<1>3. IsFiniteSet(DOMAIN new) /\ DOMAIN new = {ChoiceOf(q) : q \in T \cup {p}}
  BY <1>1, <1>2, FS_AddElement DEF ChoicesOK
<1>4. ASSUME NEW c \in DOMAIN new, c # i PROVE ChoiceOK(new[c], Of(T \cup {p}, c))
  <2>1. new[c] = choices[c] /\ c \in DOMAIN choices
    BY <1>1, <1>2, <1>4 DEF AddToChoices
  <2>2. Of(T \cup {p}, c) = Of(T, c)
    BY <1>1, <1>4 DEF Of
  <2>3. QED BY <2>1, <2>2 DEF ChoicesOK
<1>5. ChoiceOK(new[i], Of(T \cup {p}, i))
  <2>1. PICK old : old = IF i \in DOMAIN choices THEN choices[i] ELSE NewChoice
    OBVIOUS
  <2>2. new[i] = AddEntry(old, e, p)
    BY <1>1, <2>1 DEF AddToChoices
  <2>3. ChoiceOK(old, Of(T, i))
    <3>1. CASE i \in DOMAIN choices
      BY <2>1, <3>1 DEF ChoicesOK
    <3>2. CASE i \notin DOMAIN choices
      <4>1. Of(T, i) = {}
        BY <3>2 DEF ChoicesOK, Of
      <4>2. QED BY <2>1, <3>2, <4>1, NewIsOK
    <3>3. QED BY <3>1, <3>2
  <2>4. Of(T \cup {p}, i) = Of(T, i) \cup {p} /\ After(p, Of(T, i))
    BY <1>1 DEF Of, After
  <2>5. e \in EntryType
    BY PieceTypes
  <2>6. QED BY <2>2, <2>3, <2>4, <2>5, AddIsOK
<1>6. \A q \in T \cup {p} : Entry(q).field # "misshapen"
  BY DEF ChoicesOK
<1>7. QED BY <1>3, <1>4, <1>5, <1>6 DEF ChoicesOK

-----------------------------------------------------------------------------
(* The walk.  The pieces up to the entry e of chunk c, and the lines up to *)
(* chunk c that carry a usage.                                             *)
TakenUpTo(c, e) ==
    {p \in SaidPieces : c > 0 /\ p[1] <= LineOf(c) /\ (p[1] = LineOf(c) => p[2] <= e)}

UsedUpTo(c) == {i \in ObjectLines : said[i].chunk.usage /\ c > 0 /\ i <= LineOf(c)}

(* What the collector's locals w are while it walks. *)
WorkState(w) ==
    /\ w = [chunk |-> w.chunk, entry |-> w.entry, choices |-> w.choices, usage |-> w.usage]
    /\ w.chunk \in 0..Len(surfaced) /\ w.entry \in 0..Len(Listed(w.chunk))
    /\ ChoicesOK(w.choices, TakenUpTo(w.chunk, w.entry))
    /\ w.usage = LastOf(UsedUpTo(w.chunk))

Fresh == [chunk |-> 0, entry |-> 0, choices |-> <<>>, usage |-> 0]

Walking == codec = "chunks" /\ outcome = "completed"

LEMMA SameWork ==
    ASSUME UNCHANGED vars, NEW w
    PROVE  WorkState(w)' <=> WorkState(w)
<1>1. said' = said /\ surfaced' = surfaced
  BY DEF vars
<1>2. QED BY <1>1 DEF WorkState, ChoicesOK, ChoiceOK, ToolsOK, Voiced, Told, InSlot, Of, Finishing,
           ChoiceOf, Entry, SaidPieces, ObjectLines, LineOf, Listed, TakenUpTo, UsedUpTo

(* The chunks' lines: all the objects of a complete stream, in order. *)
LEMMA ItemLines ==
    ASSUME CodecInv, codec = "chunks"
    PROVE  /\ Len(surfaced) \in Nat /\ DOMAIN surfaced = 1..Len(surfaced)
           /\ \A k \in 1..Len(surfaced) :
                 LineOf(k) \in ObjectLines /\ LineOf(k) \in Nat /\ surfaced[k].data = {LineOf(k)}
           /\ \A j, k \in 1..Len(surfaced) : j < k => LineOf(j) < LineOf(k)
           /\ \A i \in SurfacedLines : \E k \in 1..Len(surfaced) : i = LineOf(k)
           /\ SurfacedLines \subseteq ObjectLines
           /\ outcome = "completed" => SurfacedLines = ObjectLines
<1>1. Len(surfaced) \in Nat /\ DOMAIN surfaced = 1..Len(surfaced)
  BY LenProperties DEF CodecInv, CodecTypeOK
<1>2. ASSUME NEW k \in 1..Len(surfaced)
      PROVE  LineOf(k) \in ObjectLines /\ LineOf(k) \in Nat /\ surfaced[k].data = {LineOf(k)}
  <2>1. PICK i \in ObjectLines : surfaced[k].data = {i}
    BY <1>1 DEF CodecInv, ChunkItems
  <2>2. LineOf(k) = i
    BY <2>1 DEF LineOf
  <2>3. i \in Nat
    BY ChunkTypes DEF CodecInv
  <2>4. QED BY <2>1, <2>2, <2>3
<1>3. ASSUME NEW j \in 1..Len(surfaced), NEW k \in 1..Len(surfaced), j < k
      PROVE  LineOf(j) < LineOf(k)
  <2>1. LineOf(j) \in surfaced[j].data /\ LineOf(k) \in surfaced[k].data
    BY <1>2
  <2>2. QED BY <1>1, <1>3, <2>1 DEF CodecInv, GivenOK
<1>4. \A i \in SurfacedLines : \E k \in 1..Len(surfaced) : i = LineOf(k)
  BY <1>1, <1>2 DEF SurfacedLines
<1>5. SurfacedLines \subseteq ObjectLines
  BY <1>2, <1>4
<1>6. ASSUME outcome = "completed" PROVE ObjectLines \subseteq SurfacedLines
  <2>1. \A i \in DataLines : i \in SurfacedLines
    BY <1>6 DEF CodecInv, CompletedIsWhole, SameFrame
  <2>2. ObjectLines \subseteq DataLines
    BY DEF ObjectLines, DataLines, DataKinds
  <2>3. QED BY <2>1, <2>2
<1>7. QED BY <1>1, <1>2, <1>3, <1>4, <1>5, <1>6

LEMMA WalkStarts ==
    ASSUME CodecInv, codec = "chunks", NEW w, w = Fresh
    PROVE  WorkState(w)
<1>1. w = [chunk |-> 0, entry |-> 0, choices |-> <<>>, usage |-> 0]
  BY DEF Fresh
<1>2. w.chunk = 0 /\ w.entry = 0 /\ w.choices = <<>> /\ w.usage = 0
  BY <1>1
<1>3. w = [chunk |-> w.chunk, entry |-> w.entry, choices |-> w.choices, usage |-> w.usage]
  BY <1>1, <1>2
<1>4. Len(Listed(0)) = 0 /\ Len(surfaced) \in Nat
  BY ItemLines DEF Listed
<1>5. TakenUpTo(0, 0) = {} /\ UsedUpTo(0) = {}
  BY DEF TakenUpTo, UsedUpTo
<1>6. ChoicesOK(<<>>, {})
  <2>1. PICK c : c = <<>>
    OBVIOUS
  <2>2. DOMAIN c = {}
    BY <2>1
  <2>3. IsFiniteSet(DOMAIN c)
    BY <2>2, FS_EmptySet
  <2>4. ChoicesOK(c, {})
    BY <2>2, <2>3 DEF ChoicesOK
  <2>5. QED BY <2>1, <2>4
<1>7. w.chunk \in 0..Len(surfaced) /\ w.entry \in 0..Len(Listed(w.chunk))
  BY <1>2, <1>4
<1>8. w.usage = LastOf(UsedUpTo(w.chunk))
  BY <1>2, <1>5 DEF LastOf
<1>9. ChoicesOK(w.choices, TakenUpTo(w.chunk, w.entry))
  BY <1>2, <1>5, <1>6
<1> HIDE <1>1, <1>2
<1>10. QED BY <1>3, <1>7, <1>8, <1>9 DEF WorkState

LEMMA LastOfAdded ==
    ASSUME NEW n \in Nat, NEW S \in SUBSET (1..n), NEW m \in 1..n, \A i \in S : i < m
    PROVE  LastOf(S \cup {m}) = m
<1>1. PICK T : T = S \cup {m}
  OBVIOUS
<1>2. T \in SUBSET (1..n) /\ T # {}
  BY <1>1
<1>3. LastOf(T) \in T /\ \A i \in T : i <= LastOf(T)
  BY <1>2, LastOfIsLast
<1>4. m \in T /\ \A i \in T : i \in Nat /\ (i # m => i < m)
  BY <1>1, <1>2
<1>5. m <= LastOf(T) /\ m \in Nat /\ LastOf(T) \in Nat /\ (LastOf(T) # m => LastOf(T) < m)
  BY <1>3, <1>4
<1>6. QED BY <1>1, <1>5

(* The walk goes on to the next chunk. *)
LEMMA WalkToChunk ==
    ASSUME CodecInv, Walking, NEW w, WorkState(w),
           w.entry = Len(Listed(w.chunk)), w.chunk < Len(surfaced),
           NEW c, c = w.chunk + 1,
           NEW u, u = IF said[LineOf(c)].chunk.usage THEN LineOf(c) ELSE w.usage,
           NEW v, v = [chunk |-> c, entry |-> 0, choices |-> w.choices, usage |-> u]
    PROVE  WorkState(v)
<1>1. /\ w = [chunk |-> w.chunk, entry |-> w.entry, choices |-> w.choices, usage |-> w.usage]
      /\ w.chunk \in 0..Len(surfaced) /\ w.entry \in 0..Len(Listed(w.chunk))
      /\ ChoicesOK(w.choices, TakenUpTo(w.chunk, w.entry))
      /\ w.usage = LastOf(UsedUpTo(w.chunk))
  BY DEF WorkState
<1>2. PICK o, e : o = w.chunk /\ e = w.entry
  OBVIOUS
<1>3. v.chunk = c /\ v.entry = 0 /\ v.choices = w.choices /\ v.usage = u
  OBVIOUS
<1>4. /\ v.chunk = c /\ v.entry = 0 /\ v.choices = w.choices /\ v.usage = u
      /\ v = [chunk |-> v.chunk, entry |-> v.entry, choices |-> v.choices, usage |-> v.usage]
  BY <1>3
<1>5. codec = "chunks" /\ outcome = "completed" /\ CodecTypeOK
  BY DEF Walking, CodecInv
<1>6. /\ Len(surfaced) \in Nat
      /\ \A k \in 1..Len(surfaced) : LineOf(k) \in ObjectLines /\ LineOf(k) \in Nat
      /\ \A j, k \in 1..Len(surfaced) : j < k => LineOf(j) < LineOf(k)
      /\ \A i \in ObjectLines : \E k \in 1..Len(surfaced) : i = LineOf(k)
  BY <1>5, ItemLines
<1>7. /\ o \in Nat /\ c = o + 1 /\ c \in 1..Len(surfaced)
      /\ LineOf(c) \in ObjectLines /\ LineOf(c) \in Nat
      /\ (o > 0 => o \in 1..Len(surfaced) /\ LineOf(o) \in Nat)
  BY <1>1, <1>2, <1>6
<1>8. ASSUME NEW i \in ObjectLines
      PROVE  /\ (o > 0 /\ i <= LineOf(o)) <=> i < LineOf(c)
             /\ i \in Nat
  <2>1. PICK k \in 1..Len(surfaced) : i = LineOf(k)
    BY <1>6
  <2>2. i \in Nat
    BY <1>6, <2>1
  <2>3. ASSUME o > 0, i <= LineOf(o) PROVE i < LineOf(c)
    <3>1. LineOf(o) < LineOf(c)
      BY <1>6, <1>7, <2>3
    <3>2. QED BY <1>7, <2>2, <2>3, <3>1
  <2>4. ASSUME i < LineOf(c) PROVE o > 0 /\ i <= LineOf(o)
    <3>1. ~(c < k) /\ k # c
      <4>1. ASSUME c < k PROVE FALSE
        <5>1. LineOf(c) < i
          BY <1>6, <1>7, <2>1, <4>1
        <5>2. QED BY <1>7, <2>2, <2>4, <5>1
      <4>2. k # c
        BY <1>7, <2>1, <2>4
      <4>3. QED BY <4>1, <4>2
    <3>2. k <= o /\ o > 0
      BY <1>7, <2>1, <3>1
    <3>3. CASE k = o
      BY <1>7, <2>1, <2>2, <3>2, <3>3
    <3>4. CASE k # o
      <4>1. k < o /\ i < LineOf(o)
        BY <1>6, <1>7, <2>1, <3>2, <3>4
      <4>2. QED BY <1>7, <2>2, <3>2, <4>1
    <3>5. QED BY <3>3, <3>4
  <2>5. QED BY <2>2, <2>3, <2>4
<1>9. TakenUpTo(c, 0) = TakenUpTo(o, e)
  <2>1. ASSUME NEW p \in SaidPieces
        PROVE  (c > 0 /\ p[1] <= LineOf(c) /\ (p[1] = LineOf(c) => p[2] <= 0))
               <=> (o > 0 /\ p[1] <= LineOf(o) /\ (p[1] = LineOf(o) => p[2] <= e))
    <3>1. p[1] \in ObjectLines /\ p[2] \in 1..Len(said[p[1]].chunk.choices)
      BY <1>5, PieceTypes
    <3>2. p[1] \in Nat /\ said[p[1]].chunk.choices \in Seq(EntryType)
      BY <1>5, <3>1, ChunkTypes
    <3>3. p[2] \in Nat /\ ~(p[2] <= 0)
      BY <3>1, <3>2, LenProperties
    <3>4. (c > 0 /\ p[1] <= LineOf(c) /\ (p[1] = LineOf(c) => p[2] <= 0)) <=> p[1] < LineOf(c)
      BY <1>7, <3>2, <3>3
    <3>5. o > 0 /\ p[1] = LineOf(o) => p[2] <= e
      <4>1. ASSUME o > 0, p[1] = LineOf(o) PROVE p[2] <= e
        <5>1. e = Len(said[p[1]].chunk.choices)
          BY <1>2, <1>7, <4>1 DEF Listed
        <5>2. Len(said[p[1]].chunk.choices) \in Nat
          BY <3>2, LenProperties
        <5>3. QED BY <3>1, <5>1, <5>2
      <4>2. QED BY <4>1
    <3>6. QED BY <1>8, <3>1, <3>4, <3>5
  <2>2. QED BY <2>1 DEF TakenUpTo
<1>10. u = LastOf(UsedUpTo(c))
  <2>1. /\ UsedUpTo(o) = {i \in ObjectLines : said[i].chunk.usage /\ i < LineOf(c)}
        /\ UsedUpTo(c) = {i \in ObjectLines : said[i].chunk.usage /\ i <= LineOf(c)}
    BY <1>7, <1>8 DEF UsedUpTo
  <2>2. said[LineOf(c)].chunk.usage \in BOOLEAN
    BY <1>5, <1>7, ChunkTypes
  <2>3. CASE said[LineOf(c)].chunk.usage
    <3>1. UsedUpTo(c) = UsedUpTo(o) \cup {LineOf(c)}
      BY <1>7, <1>8, <2>1, <2>3
    <3>2. Len(said) \in Nat /\ DOMAIN said = 1..Len(said)
      BY <1>5, LenProperties DEF CodecTypeOK
    <3>3. UsedUpTo(o) \in SUBSET (1..Len(said)) /\ LineOf(c) \in 1..Len(said)
          /\ \A i \in UsedUpTo(o) : i < LineOf(c)
      BY <1>7, <2>1, <3>2 DEF ObjectLines
    <3>4. LastOf(UsedUpTo(o) \cup {LineOf(c)}) = LineOf(c)
      BY <3>2, <3>3, LastOfAdded
    <3>5. QED BY <1>2, <2>3, <3>1, <3>4
  <2>4. CASE ~said[LineOf(c)].chunk.usage
    <3>1. UsedUpTo(c) = UsedUpTo(o)
      BY <1>7, <1>8, <2>1, <2>4
    <3>2. QED BY <1>1, <1>2, <2>4, <3>1
  <2>5. QED BY <2>2, <2>3, <2>4
<1>11. v.entry \in 0..Len(Listed(v.chunk))
  <2>1. Listed(c) \in Seq(EntryType)
    BY <1>5, <1>7, ChunkTypes DEF Listed
  <2>2. Len(Listed(c)) \in Nat
    BY <2>1, LenProperties
  <2>3. QED BY <1>4, <2>2
<1>12. v.chunk \in 0..Len(surfaced)
  BY <1>4, <1>7
<1>13. ChoicesOK(v.choices, TakenUpTo(v.chunk, v.entry))
  BY <1>1, <1>2, <1>4, <1>9
<1>14. v.usage = LastOf(UsedUpTo(v.chunk))
  BY <1>4, <1>10
<1>15. QED BY <1>4, <1>11, <1>12, <1>13, <1>14 DEF WorkState

(* The walk goes on to the next entry of its chunk. *)
LEMMA WalkToEntry ==
    ASSUME CodecInv, Walking, NEW w, WorkState(w), w.entry < Len(Listed(w.chunk)),
           NEW n, n = w.entry + 1, NEW e, e = Listed(w.chunk)[n], e.field # "misshapen",
           NEW p, p = <<LineOf(w.chunk), n>>,
           NEW cs, cs = AddToChoices(w.choices, IndexOr(e.index, n - 1), e, p),
           NEW v, v = [chunk |-> w.chunk, entry |-> n, choices |-> cs, usage |-> w.usage]
    PROVE  WorkState(v)
<1>1. /\ w.chunk \in 0..Len(surfaced) /\ w.entry \in 0..Len(Listed(w.chunk))
      /\ ChoicesOK(w.choices, TakenUpTo(w.chunk, w.entry))
      /\ w.usage = LastOf(UsedUpTo(w.chunk))
  BY DEF WorkState
<1>2. PICK c, m : c = w.chunk /\ m = w.entry
  OBVIOUS
<1>3. v.chunk = c /\ v.entry = n /\ v.choices = cs /\ v.usage = w.usage
  BY <1>2
<1>4. v = [chunk |-> v.chunk, entry |-> v.entry, choices |-> v.choices, usage |-> v.usage]
  BY <1>2, <1>3
<1>5. codec = "chunks" /\ outcome = "completed" /\ CodecTypeOK
  BY DEF Walking, CodecInv
<1>6. /\ Len(surfaced) \in Nat
      /\ \A k \in 1..Len(surfaced) : LineOf(k) \in ObjectLines /\ LineOf(k) \in Nat
  BY <1>5, ItemLines
<1>7. c \in 1..Len(surfaced)
  <2>1. CASE c = 0
    <3>1. Len(Listed(c)) = 0
      BY <2>1 DEF Listed
    <3>2. QED BY <1>1, <1>2, <3>1
  <2>2. QED BY <1>1, <1>2, <1>6, <2>1
<1>8. PICK i : i = LineOf(c)
  OBVIOUS
<1>9. /\ i \in ObjectLines /\ i \in Nat /\ c > 0 /\ Listed(c) = said[i].chunk.choices
      /\ p = <<i, n>> /\ e = said[i].chunk.choices[n]
  BY <1>2, <1>6, <1>7, <1>8 DEF Listed
<1>10. /\ Len(said[i].chunk.choices) \in Nat
       /\ DOMAIN said[i].chunk.choices = 1..Len(said[i].chunk.choices)
  BY <1>5, <1>9, ChunkTypes, LenProperties
<1>11. m \in Nat /\ n = m + 1 /\ n \in 1..Len(said[i].chunk.choices)
  BY <1>1, <1>2, <1>9, <1>10
<1>12. p \in SaidPieces /\ p[1] = i /\ p[2] = n
  BY <1>9, <1>10, <1>11 DEF SaidPieces
<1>13. Entry(p) = e /\ ChoiceOf(p) = IndexOr(e.index, n - 1)
  BY <1>9, <1>12 DEF Entry, ChoiceOf, IndexOr
<1>14. \A q \in SaidPieces : q[1] \in Nat /\ q[2] \in Nat /\ q = <<q[1], q[2]>>
  BY <1>5, PieceTypes DEF Pieces
<1>15. TakenUpTo(c, n) = TakenUpTo(c, m) \cup {p}
  <2>1. ASSUME NEW q \in SaidPieces
        PROVE  q \in TakenUpTo(c, n) <=> (q \in TakenUpTo(c, m) \/ q = p)
    <3>1. q[1] \in Nat /\ q[2] \in Nat /\ q = <<q[1], q[2]>>
      BY <1>14
    <3>2. q = p <=> q[1] = i /\ q[2] = n
      BY <1>9, <3>1
    <3>3. q[2] <= n <=> (q[2] <= m \/ q[2] = n)
      BY <1>11, <3>1
    <3>4. q \in TakenUpTo(c, n) <=> (q[1] <= i /\ (q[1] = i => q[2] <= n))
      BY <1>8, <1>9 DEF TakenUpTo
    <3>5. q \in TakenUpTo(c, m) <=> (q[1] <= i /\ (q[1] = i => q[2] <= m))
      BY <1>8, <1>9 DEF TakenUpTo
    <3>6. q[1] = i => q[1] <= i
      BY <3>1
    <3>7. QED BY <3>2, <3>3, <3>4, <3>5, <3>6
  <2>2. TakenUpTo(c, n) \subseteq SaidPieces /\ TakenUpTo(c, m) \subseteq SaidPieces
    BY DEF TakenUpTo
  <2>3. QED BY <1>12, <2>1, <2>2
<1>16. After(p, TakenUpTo(c, m))
  <2>1. ASSUME NEW q \in TakenUpTo(c, m) PROVE Before(q, p)
    <3>1. q \in SaidPieces /\ q[1] <= i /\ (q[1] = i => q[2] <= m)
      BY <1>8 DEF TakenUpTo
    <3>2. q[1] \in Nat /\ q[2] \in Nat
      BY <1>14, <3>1
    <3>3. q[1] < i \/ (q[1] = i /\ q[2] < n)
      BY <1>9, <1>11, <3>1, <3>2
    <3>4. QED BY <1>12, <3>3 DEF Before
  <2>2. QED BY <2>1 DEF After
<1>17. ChoicesOK(w.choices, TakenUpTo(c, m))
  BY <1>1, <1>2
<1>18. cs = AddToChoices(w.choices, ChoiceOf(p), e, p)
  BY <1>13
<1>19. ChoicesOK(cs, TakenUpTo(c, n))
  <2>1. e = Entry(p) /\ e.field # "misshapen"
    BY <1>13
  <2>2. ChoicesOK(cs, TakenUpTo(c, m) \cup {p})
    BY <1>5, <1>12, <1>16, <1>17, <1>18, <2>1, AddToIsOK
  <2>3. QED BY <1>15, <2>2
<1>20. v.chunk \in 0..Len(surfaced) /\ v.entry \in 0..Len(Listed(v.chunk))
  BY <1>3, <1>6, <1>7, <1>9, <1>10, <1>11
<1>21. ChoicesOK(v.choices, TakenUpTo(v.chunk, v.entry))
  BY <1>3, <1>19
<1>22. v.usage = LastOf(UsedUpTo(v.chunk))
  BY <1>1, <1>2, <1>3
<1>23. QED BY <1>4, <1>20, <1>21, <1>22 DEF WorkState

(* The walk ends when every piece was taken. *)
LEMMA WalkEnds ==
    ASSUME CodecInv, Walking, NEW w, WorkState(w),
           w.entry = Len(Listed(w.chunk)), w.chunk = Len(surfaced)
    PROVE  /\ ChoicesOK(w.choices, SaidPieces)
           /\ w.usage = LastOf({i \in ObjectLines : said[i].chunk.usage})
<1>1. ChoicesOK(w.choices, TakenUpTo(w.chunk, w.entry)) /\ w.usage = LastOf(UsedUpTo(w.chunk))
  BY DEF WorkState
<1>2. PICK c, m : c = w.chunk /\ m = w.entry
  OBVIOUS
<1>3. codec = "chunks" /\ outcome = "completed" /\ CodecTypeOK
  BY DEF Walking, CodecInv
<1>4. /\ Len(surfaced) \in Nat
      /\ \A k \in 1..Len(surfaced) : LineOf(k) \in ObjectLines /\ LineOf(k) \in Nat
      /\ \A j, k \in 1..Len(surfaced) : j < k => LineOf(j) < LineOf(k)
      /\ \A i \in ObjectLines : \E k \in 1..Len(surfaced) : i = LineOf(k)
  BY <1>3, ItemLines
<1>5. c = Len(surfaced)
  BY <1>2
<1>6. ASSUME NEW i \in ObjectLines PROVE c > 0 /\ i <= LineOf(c) /\ i \in Nat
  <2>1. PICK k \in 1..Len(surfaced) : i = LineOf(k)
    BY <1>4
  <2>2. c > 0 /\ c \in 1..Len(surfaced) /\ k <= c
    BY <1>4, <1>5, <2>1
  <2>3. LineOf(k) \in Nat /\ LineOf(c) \in Nat
    BY <1>4, <2>2
  <2>4. CASE k = c
    BY <2>1, <2>2, <2>3, <2>4
  <2>5. CASE k # c
    <3>1. k < c
      BY <1>4, <2>2, <2>5
    <3>2. LineOf(k) < LineOf(c)
      BY <1>4, <2>2, <3>1
    <3>3. QED BY <2>1, <2>2, <2>3, <3>2
  <2>6. QED BY <2>4, <2>5
<1>7. UsedUpTo(c) = {i \in ObjectLines : said[i].chunk.usage}
  BY <1>6 DEF UsedUpTo
<1>8. TakenUpTo(c, m) = SaidPieces
  <2>1. ASSUME NEW p \in SaidPieces
        PROVE  c > 0 /\ p[1] <= LineOf(c) /\ (p[1] = LineOf(c) => p[2] <= m)
    <3>1. p[1] \in ObjectLines /\ p[2] \in 1..Len(said[p[1]].chunk.choices)
      BY <1>3, PieceTypes
    <3>2. c > 0 /\ p[1] <= LineOf(c)
      BY <1>6, <3>1
    <3>3. ASSUME p[1] = LineOf(c) PROVE p[2] <= m
      <4>1. c # 0
        BY <1>4, <1>5, <3>2
      <4>2. m = Len(said[p[1]].chunk.choices)
        BY <1>2, <3>3, <4>1 DEF Listed
      <4>3. said[p[1]].chunk.choices \in Seq(EntryType)
        BY <1>3, <3>1, ChunkTypes
      <4>4. Len(said[p[1]].chunk.choices) \in Nat
        BY <4>3, LenProperties
      <4>5. QED BY <3>1, <4>2, <4>4
    <3>4. QED BY <3>2, <3>3
  <2>2. QED BY <2>1 DEF TakenUpTo
<1>9. QED BY <1>1, <1>2, <1>7, <1>8

-----------------------------------------------------------------------------
(* What is returned. *)
CallsSay(calls, V) ==
    /\ {calls[k].slot : k \in DOMAIN calls} = {Entry(p).slot : p \in V}
    /\ Increasing([k \in DOMAIN calls |-> calls[k].slot])
    /\ \A k \in DOMAIN calls : Lists(calls[k].pieces, InSlot(V, calls[k].slot))

LEMMA CallsInOrder ==
    ASSUME NEW tools, NEW V, ToolsOK(tools, V), DOMAIN tools \subseteq Nat,
           NEW calls, calls = CallsOf(tools)
    PROVE  CallsSay(calls, V)
<1>1. PICK D : D = DOMAIN tools
  OBVIOUS
<1>2. D \in SUBSET Nat /\ IsFiniteSet(D)
  BY <1>1 DEF ToolsOK
<1>3. PICK s, n : s = Sorted(D) /\ n = Cardinality(D)
  OBVIOUS
<1>4. /\ n \in Nat /\ s \in [1..n -> D] /\ Increasing(s)
      /\ {s[k] : k \in 1..n} = D
  BY <1>2, <1>3, SortedLists
<1>5. calls = [k \in DOMAIN s |-> [slot |-> s[k], pieces |-> tools[s[k]]]]
  BY <1>1, <1>3 DEF CallsOf
<1>6. DOMAIN s = 1..n /\ DOMAIN calls = 1..n
  BY <1>4, <1>5
<1>7. \A k \in 1..n : calls[k].slot = s[k] /\ calls[k].pieces = tools[s[k]] /\ s[k] \in D
  BY <1>4, <1>5, <1>6
<1>8. {calls[k].slot : k \in 1..n} = {Entry(p).slot : p \in V}
  <2>1. {calls[k].slot : k \in 1..n} = {s[k] : k \in 1..n}
    BY <1>7
  <2>2. QED BY <1>1, <1>4, <2>1 DEF ToolsOK
<1>9. Increasing([k \in 1..n |-> calls[k].slot])
  <2>1. [k \in 1..n |-> calls[k].slot] = s
    BY <1>4, <1>7
  <2>2. QED BY <1>4, <2>1
<1>10. \A k \in 1..n : Lists(calls[k].pieces, InSlot(V, calls[k].slot))
  BY <1>1, <1>7 DEF ToolsOK
<1>11. QED BY <1>6, <1>8, <1>9, <1>10 DEF CallsSay

LEMMA MessageSaysAll ==
    ASSUME CodecTypeOK, NEW i, NEW choice, NEW P \in SUBSET SaidPieces, ChoiceOK(choice, P),
           NEW m, m = MessageOf(i, choice)
    PROVE  m.index = i /\ SaysAll(m, P)
<1> DEFINE calls == Voiced(P, "tool_calls")
<1>1. /\ m.index = i /\ m.content = ContentOf(choice) /\ m.refusal = choice.parts["refusal"]
      /\ m.tool_calls = CallsOf(choice.tools) /\ m.finish = choice.finish
  BY DEF MessageOf
<1>2. /\ Lists(choice.parts["content"], Voiced(P, "content"))
      /\ Lists(choice.parts["refusal"], Voiced(P, "refusal"))
      /\ choice.seen = {Entry(p).field : p \in P} \ {"nothing"}
      /\ ToolsOK(choice.tools, calls)
      /\ IsLast(choice.finish, Finishing(P))
  BY DEF ChoiceOK
<1>3. choice.parts["content"] = <<>> <=> Voiced(P, "content") = {}
  BY <1>2, ListsEmpty
<1>4. "content" \in choice.seen <=> Told(P, "content") # {}
  BY <1>2 DEF Told
<1>5. "refusal" \in choice.seen <=> Told(P, "refusal") # {}
  BY <1>2 DEF Told
<1>6. DOMAIN choice.tools # {} <=> calls # {}
  BY <1>2 DEF ToolsOK
<1>7. Voiced(P, "content") \subseteq Told(P, "content")
  BY DEF Voiced
<1>8. \A is, pieces : Text(is, pieces).is = is /\ Text(is, pieces).pieces = pieces
  BY DEF Text
<1>9. /\ m.content.is = "text" <=> Voiced(P, "content") # {}
      /\ m.content.is = "empty" <=> Told(P, "content") \cup Told(P, "refusal") \cup calls = {}
      /\ Lists(m.content.pieces, Voiced(P, "content"))
  <2>1. CASE choice.parts["content"] # <<>>
    <3>1. m.content = Text("text", choice.parts["content"])
      BY <1>1, <2>1 DEF ContentOf
    <3>2. m.content.is = "text" /\ m.content.pieces = choice.parts["content"]
      BY <1>8, <3>1
    <3>3. Voiced(P, "content") # {} /\ Told(P, "content") # {}
      BY <1>3, <1>7, <2>1
    <3> HIDE DEF calls
    <3>4. QED BY <1>2, <3>2, <3>3
  <2>2. CASE choice.parts["content"] = <<>>
            /\ Told(P, "content") \cup Told(P, "refusal") \cup calls # {}
    <3>1. m.content = Text("null", <<>>)
      BY <1>1, <1>4, <1>5, <1>6, <2>2 DEF ContentOf
    <3>2. m.content.is = "null" /\ m.content.pieces = <<>>
      BY <1>8, <3>1
    <3> HIDE DEF calls
    <3>3. QED BY <1>2, <1>3, <2>2, <3>2
  <2>3. CASE choice.parts["content"] = <<>>
            /\ Told(P, "content") \cup Told(P, "refusal") \cup calls = {}
    <3>1. m.content = Text("empty", <<>>)
      BY <1>1, <1>4, <1>5, <1>6, <2>3 DEF ContentOf
    <3>2. m.content.is = "empty" /\ m.content.pieces = <<>>
      BY <1>8, <3>1
    <3> HIDE DEF calls
    <3>3. QED BY <1>2, <1>3, <2>3, <3>2
  <2>4. QED BY <2>1, <2>2, <2>3
<1>10. DOMAIN choice.tools \subseteq Nat
  <2>1. \A p \in P : Entry(p) \in EntryType
    BY PieceTypes
  <2>2. \A p \in P : Entry(p).slot \in Nat
    BY <2>1 DEF EntryType
  <2>3. QED BY <1>2, <2>2 DEF ToolsOK, Voiced, Told
<1>11. /\ {m.tool_calls[k].slot : k \in DOMAIN m.tool_calls} = {Entry(p).slot : p \in calls}
       /\ Increasing([k \in DOMAIN m.tool_calls |-> m.tool_calls[k].slot])
       /\ \A k \in DOMAIN m.tool_calls :
             Lists(m.tool_calls[k].pieces, InSlot(calls, m.tool_calls[k].slot))
  <2>1. PICK V, t, tools : V = calls /\ t = m.tool_calls /\ tools = choice.tools
    OBVIOUS
  <2>2. ToolsOK(tools, V) /\ t = CallsOf(tools) /\ DOMAIN tools \subseteq Nat
    BY <1>1, <1>2, <1>10, <2>1
  <2> HIDE DEF calls
  <2>3. CallsSay(t, V)
    BY <2>2, CallsInOrder
  <2>4. QED BY <2>1, <2>3 DEF CallsSay
<1>12. Lists(m.refusal, Voiced(P, "refusal"))
  BY <1>1, <1>2
<1>13. IsLast(m.finish, {p \in P : Entry(p).finish})
  BY <1>1, <1>2 DEF Finishing
<1>14. QED BY <1>1, <1>9, <1>11, <1>12, <1>13 DEF SaysAll

(* What CollectedIsSaid and TextStreamAgrees ask of a returned answer a    *)
(* and a text stream t.                                                    *)
AllSaid(a) ==
    /\ Dones # {}
    /\ {a.choices[k].index : k \in DOMAIN a.choices} = {ChoiceOf(p) : p \in SaidPieces}
    /\ Increasing([k \in DOMAIN a.choices |-> a.choices[k].index])
    /\ \A k \in DOMAIN a.choices : SaysAll(a.choices[k], Of(SaidPieces, a.choices[k].index))
    /\ a.usage = LastOf({i \in ObjectLines : said[i].chunk.usage})

ZeroFirst == \A p \in SaidPieces : p[2] = 1 <=> ChoiceOf(p) = 0

Agrees(a, t) == ZeroFirst => ~t.raised /\ t.pieces = a.choices[1].content.pieces

(* What the reader of the text stream has heard of.                        *)
HeardPieces ==
    {p \in SaidPieces : /\ p[1] \in SurfacedLines /\ p[2] = 1
                        /\ Entry(p).field = "content" /\ ~Entry(p).null}

TextState(t) ==
    codec = "chunks" =>
        IF t.raised
        THEN \E i \in SurfacedLines :
                <<i, 1>> \in SaidPieces /\ Entry(<<i, 1>>).field = "misshapen"
        ELSE Lists(t.pieces, HeardPieces)

LEMMA SameSaid ==
    ASSUME UNCHANGED vars, NEW a, NEW t
    PROVE  /\ AllSaid(a)' <=> AllSaid(a)
           /\ Agrees(a, t)' <=> Agrees(a, t)
           /\ TextState(t)' <=> TextState(t)
<1>1. said' = said /\ surfaced' = surfaced /\ codec' = codec
  BY DEF vars
<1>2. AllSaid(a)' <=> AllSaid(a)
  BY <1>1 DEF AllSaid, Dones, SaysAll, Voiced, Told, InSlot, Of, ChoiceOf, Entry, SaidPieces, ObjectLines
<1>3. Agrees(a, t)' <=> Agrees(a, t)
  BY <1>1 DEF Agrees, ZeroFirst, ChoiceOf, Entry, SaidPieces, ObjectLines
<1>4. TextState(t)' <=> TextState(t)
  BY <1>1 DEF TextState, HeardPieces, SurfacedLines, Entry, SaidPieces, ObjectLines
<1>5. QED BY <1>2, <1>3, <1>4

(* The answer made when the walk is over. *)
LEMMA ReturnSaysAll ==
    ASSUME CodecInv, Walking, NEW w, WorkState(w),
           w.entry = Len(Listed(w.chunk)), w.chunk = Len(surfaced),
           NEW cs, cs = w.choices, NEW s, Enumerates(s, DOMAIN cs),
           NEW choices, choices = [k \in DOMAIN s |-> MessageOf(s[k], cs[s[k]])],
           NEW a, a = [status |-> "returned", choices |-> choices, usage |-> w.usage]
    PROVE  AllSaid(a) /\ \E n \in Nat : DOMAIN a.choices = 1..n
<1>1. codec = "chunks" /\ outcome = "completed" /\ CodecTypeOK
  BY DEF Walking, CodecInv
<1>2. a.choices = choices /\ a.usage = w.usage
  OBVIOUS
<1>3. PICK D : D = DOMAIN cs
  OBVIOUS
<1>4. ChoicesOK(cs, SaidPieces) /\ w.usage = LastOf({i \in ObjectLines : said[i].chunk.usage})
  BY WalkEnds
<1>5. D = {ChoiceOf(p) : p \in SaidPieces} /\ \A i \in D : ChoiceOK(cs[i], Of(SaidPieces, i))
  BY <1>3, <1>4 DEF ChoicesOK
<1>6. PICK n \in Nat : /\ s \in [1..n -> D] /\ Increasing(s)
                       /\ {s[k] : k \in 1..n} = D
  BY <1>3 DEF Enumerates
<1>7. DOMAIN s = 1..n /\ DOMAIN choices = 1..n
  BY <1>6
<1>8. ASSUME NEW k \in 1..n
      PROVE  choices[k].index = s[k] /\ SaysAll(choices[k], Of(SaidPieces, s[k]))
  <2>1. s[k] \in D /\ choices[k] = MessageOf(s[k], cs[s[k]])
    BY <1>6, <1>7
  <2>2. PICK i, P, ch : i = s[k] /\ P = Of(SaidPieces, s[k]) /\ ch = cs[s[k]]
    OBVIOUS
  <2>3. P \in SUBSET SaidPieces /\ ChoiceOK(ch, P) /\ choices[k] = MessageOf(i, ch)
    BY <1>5, <2>1, <2>2 DEF Of
  <2>4. choices[k].index = i /\ SaysAll(choices[k], P)
    BY <1>1, <2>3, MessageSaysAll
  <2>5. QED BY <2>2, <2>4
<1>9. {choices[k].index : k \in 1..n} = {ChoiceOf(p) : p \in SaidPieces}
  <2>1. \A k \in 1..n : choices[k].index = s[k]
    BY <1>8
  <2>2. {choices[k].index : k \in 1..n} = {s[k] : k \in 1..n}
    BY <2>1
  <2>3. QED BY <1>5, <1>6, <2>2
<1>10. Increasing([k \in 1..n |-> choices[k].index])
  <2>1. [k \in 1..n |-> choices[k].index] = s
    BY <1>6, <1>8
  <2>2. QED BY <1>6, <2>1
<1>11. Dones # {}
  BY <1>1 DEF CodecInv, CompletedIsWhole
<1>12. \A k \in 1..n : SaysAll(choices[k], Of(SaidPieces, choices[k].index))
  BY <1>8
<1>13. QED BY <1>2, <1>4, <1>7, <1>9, <1>10, <1>11, <1>12 DEF AllSaid

(* Choice 0, if there is one, is the first of an answer. *)
LEMMA ZeroIsFirst ==
    ASSUME CodecTypeOK, NEW a, AllSaid(a), NEW n \in Nat, DOMAIN a.choices = 1..n,
           NEW p \in SaidPieces, ChoiceOf(p) = 0
    PROVE  1 \in DOMAIN a.choices /\ a.choices[1].index = 0
<1>1. PICK x : x = [k \in DOMAIN a.choices |-> a.choices[k].index]
  OBVIOUS
<1>2. DOMAIN x = 1..n /\ \A k \in 1..n : x[k] = a.choices[k].index
  BY <1>1
<1>3. Increasing(x) /\ {a.choices[k].index : k \in 1..n} = {ChoiceOf(q) : q \in SaidPieces}
  BY <1>1 DEF AllSaid
<1>4. \A q \in SaidPieces : ChoiceOf(q) \in Nat
  BY PieceTypes
<1>5. \A k \in 1..n : x[k] \in Nat
  BY <1>2, <1>3, <1>4
<1>6. PICK k \in 1..n : a.choices[k].index = 0
  BY <1>3
<1>7. 1 \in 1..n /\ ~(1 < k) => k = 1
  BY <1>6
<1>8. 1 \in 1..n
  BY <1>6
<1>9. ~(1 < k)
  <2>1. ASSUME 1 < k PROVE FALSE
    <3>1. x[1] < x[k] /\ x[k] = 0 /\ x[1] \in Nat
      BY <1>2, <1>3, <1>5, <1>6, <1>8, <2>1 DEF Increasing
    <3>2. QED BY <3>1
  <2>2. QED BY <2>1
<1>10. QED BY <1>6, <1>7, <1>8, <1>9

(* The text stream of a stream that was walked to its end tells the same.  *)
LEMMA ReturnAgrees ==
    ASSUME CodecInv, Walking, \A p \in SaidPieces : Entry(p).field # "misshapen",
           SaidPieces # {}, NEW a, AllSaid(a), NEW n \in Nat, DOMAIN a.choices = 1..n,
           NEW t, TextState(t)
    PROVE  Agrees(a, t)
<1> SUFFICES ASSUME ZeroFirst
             PROVE  ~t.raised /\ t.pieces = a.choices[1].content.pieces
  BY DEF Agrees
<1>1. codec = "chunks" /\ outcome = "completed" /\ CodecTypeOK
  BY DEF Walking, CodecInv
<1>2. SurfacedLines = ObjectLines
  BY <1>1, ItemLines
<1>3. ~t.raised /\ Lists(t.pieces, HeardPieces)
  BY <1>1 DEF TextState
<1>4. HeardPieces = Voiced(Of(SaidPieces, 0), "content")
  <2>1. \A p \in SaidPieces : p[1] \in SurfacedLines /\ (p[2] = 1 <=> ChoiceOf(p) = 0)
    BY <1>1, <1>2, PieceTypes DEF ZeroFirst
  <2>2. QED BY <2>1 DEF HeardPieces, Voiced, Told, Of
<1>5. PICK q \in SaidPieces : ChoiceOf(q) = 0
  <2>1. PICK p \in SaidPieces : TRUE
    OBVIOUS
  <2>2. PICK i : i = p[1]
    OBVIOUS
  <2>3. i \in ObjectLines /\ p[2] \in 1..Len(said[i].chunk.choices)
    BY <1>1, <2>2, PieceTypes
  <2>4. said[i].chunk.choices \in Seq(EntryType)
    BY <1>1, <2>3, ChunkTypes
  <2>5. DOMAIN said[i].chunk.choices = 1..Len(said[i].chunk.choices)
        /\ Len(said[i].chunk.choices) \in Nat
    BY <2>4, LenProperties
  <2>6. 1 \in DOMAIN said[i].chunk.choices
    BY <2>3, <2>5
  <2>7. PICK q : q = <<i, 1>>
    OBVIOUS
  <2>8. q \in SaidPieces /\ q[2] = 1
    BY <2>3, <2>6, <2>7 DEF SaidPieces
  <2>9. QED BY <2>8 DEF ZeroFirst
<1>6. 1 \in DOMAIN a.choices /\ a.choices[1].index = 0
  BY <1>1, <1>5, ZeroIsFirst
<1>7. Lists(a.choices[1].content.pieces, Voiced(Of(SaidPieces, 0), "content"))
  <2>1. SaysAll(a.choices[1], Of(SaidPieces, a.choices[1].index))
    BY <1>6 DEF AllSaid
  <2>2. QED BY <1>6, <2>1 DEF SaysAll
<1>8. PICK P, x : P = HeardPieces /\ x = a.choices[1].content.pieces
  OBVIOUS
<1>9. P \in SUBSET Pieces /\ Lists(t.pieces, P) /\ Lists(x, P)
  <2>1. HeardPieces \subseteq Pieces
    BY <1>1, PieceTypes DEF HeardPieces
  <2>2. QED BY <1>3, <1>4, <1>7, <1>8, <2>1
<1>10. t.pieces = x
  BY <1>9, ListsAreOne
<1>11. QED BY <1>3, <1>8, <1>10

-----------------------------------------------------------------------------
(* The text stream hears every chunk. *)
LEMMA SaidGrows ==
    ASSUME CodecTypeOK, NEW line \in Lines, said' = Append(said, line),
           NEW n, n = Len(said) + 1
    PROVE  /\ n \notin ObjectLines
           /\ ObjectLines' = ObjectLines \cup {i \in {n} : line.kind = "object"}
           /\ \A p \in SaidPieces : p \in SaidPieces' /\ Entry(p)' = Entry(p)
           /\ \A p \in SaidPieces' : p[1] # n => p \in SaidPieces
           /\ \A p \in SaidPieces' : \E k \in DOMAIN (said'[p[1]].chunk.choices) : p = <<p[1], k>>
           /\ line.kind = "object" =>
                 \A k \in DOMAIN line.chunk.choices :
                    <<n, k>> \in SaidPieces' /\ Entry(<<n, k>>)' = line.chunk.choices[k]
<1>1. /\ DOMAIN said' = DOMAIN said \cup {n} /\ n \notin DOMAIN said
      /\ \A i \in DOMAIN said : said'[i] = said[i]
      /\ said'[n] = line
  BY OneMore
<1>2. ObjectLines' = ObjectLines \cup {i \in {n} : line.kind = "object"}
  BY OneMoreKinds
<1>3. ObjectLines \subseteq DOMAIN said
  BY DEF ObjectLines
<1>4. \A p : p \in SaidPieces' <=>
         \E i \in ObjectLines' : \E k \in DOMAIN (said'[i].chunk.choices) : p = <<i, k>>
  <2>1. PICK sd, O, S : sd = said' /\ O = ObjectLines' /\ S = SaidPieces'
    OBVIOUS
  <2>2. S = UNION {{<<i, k>> : k \in DOMAIN sd[i].chunk.choices} : i \in O}
    BY <2>1 DEF SaidPieces
  <2>3. \A p : p \in S <=> \E i \in O : \E k \in DOMAIN sd[i].chunk.choices : p = <<i, k>>
    BY <2>2
  <2>4. ASSUME NEW p
        PROVE  p \in SaidPieces' <=>
                   \E i \in ObjectLines' : \E k \in DOMAIN (said'[i].chunk.choices) : p = <<i, k>>
    <3>1. p \in S <=> \E i \in O : \E k \in DOMAIN sd[i].chunk.choices : p = <<i, k>>
      BY <2>3
    <3>2. QED BY <2>1, <3>1
  <2>5. QED BY <2>4
<1>5. \A p : p \in SaidPieces <=>
         \E i \in ObjectLines : \E k \in DOMAIN said[i].chunk.choices : p = <<i, k>>
  BY DEF SaidPieces
<1>6. \A p \in SaidPieces : p \in SaidPieces' /\ Entry(p)' = Entry(p)
  <2>1. ASSUME NEW p \in SaidPieces PROVE p \in SaidPieces' /\ Entry(p)' = Entry(p)
    <3>1. PICK i \in ObjectLines : \E k \in DOMAIN said[i].chunk.choices : p = <<i, k>>
      BY <1>5
    <3>2. i \in ObjectLines' /\ said'[i] = said[i] /\ p[1] = i
      BY <1>1, <1>2, <1>3, <3>1
    <3>3. p \in SaidPieces'
      BY <1>4, <3>1, <3>2
    <3>4. QED BY <3>2, <3>3 DEF Entry
  <2>2. QED BY <2>1
<1>7. \A p \in SaidPieces' : p[1] # n => p \in SaidPieces
  <2>1. ASSUME NEW p \in SaidPieces', p[1] # n PROVE p \in SaidPieces
    <3>1. PICK i \in ObjectLines' : \E k \in DOMAIN (said'[i].chunk.choices) : p = <<i, k>>
      BY <1>4, <2>1
    <3>2. i \in ObjectLines /\ said'[i] = said[i]
      BY <1>1, <1>2, <1>3, <2>1, <3>1
    <3>3. QED BY <1>5, <3>1, <3>2
  <2>2. QED BY <2>1
<1>8. \A p \in SaidPieces' : \E k \in DOMAIN (said'[p[1]].chunk.choices) : p = <<p[1], k>>
  <2>1. ASSUME NEW p \in SaidPieces'
        PROVE  \E k \in DOMAIN (said'[p[1]].chunk.choices) : p = <<p[1], k>>
    <3>1. PICK i \in ObjectLines' : \E k \in DOMAIN (said'[i].chunk.choices) : p = <<i, k>>
      BY <1>4
    <3>2. PICK k \in DOMAIN (said'[i].chunk.choices) : p = <<i, k>>
      BY <3>1
    <3>3. p[1] = i
      BY <3>2
    <3>4. QED BY <3>2, <3>3
  <2>2. QED BY <2>1
<1>9. ASSUME line.kind = "object", NEW k \in DOMAIN line.chunk.choices
      PROVE  <<n, k>> \in SaidPieces' /\ Entry(<<n, k>>)' = line.chunk.choices[k]
  <2>1. n \in ObjectLines'
    BY <1>2, <1>9
  <2>2. <<n, k>> \in SaidPieces'
    BY <1>1, <1>4, <1>9, <2>1
  <2>3. QED BY <1>1, <2>2 DEF Entry
<1>10. QED BY <1>1, <1>2, <1>3, <1>6, <1>7, <1>8, <1>9

(* A line that gives nothing to the caller changes nothing for the reader. *)
LEMMA HearsNothing ==
    ASSUME CodecInv, NEW line \in Lines, said' = Append(said, line),
           UNCHANGED <<codec, surfaced>>, codec = "chunks", NEW t, TextState(t)
    PROVE  TextState(t)'
<1>1. PICK n : n = Len(said) + 1
  OBVIOUS
<1>2. /\ n \notin ObjectLines
      /\ \A p \in SaidPieces : p \in SaidPieces' /\ Entry(p)' = Entry(p)
      /\ \A p \in SaidPieces' : p[1] # n => p \in SaidPieces
  BY <1>1, SaidGrows DEF CodecInv
<1>3. SurfacedLines' = SurfacedLines
  BY DEF SurfacedLines
<1>4. SurfacedLines \subseteq ObjectLines
  BY ItemLines
<1>5. HeardPieces' = HeardPieces
  <2>1. \A p \in HeardPieces : p \in HeardPieces'
    BY <1>2, <1>3 DEF HeardPieces
  <2>2. \A p \in HeardPieces' : p \in SaidPieces
    BY <1>2, <1>3, <1>4 DEF HeardPieces
  <2>3. \A p \in HeardPieces' : p \in HeardPieces
    BY <1>2, <1>3, <2>2 DEF HeardPieces
  <2>4. QED BY <2>1, <2>3
<1>6. CASE t.raised
  <2>1. PICK i \in SurfacedLines : <<i, 1>> \in SaidPieces /\ Entry(<<i, 1>>).field = "misshapen"
    BY <1>6 DEF TextState
  <2>2. PICK p : p = <<i, 1>>
    OBVIOUS
  <2>3. p \in SaidPieces' /\ Entry(p)' = Entry(p)
    BY <1>2, <2>1, <2>2
  <2>4. p \in SaidPieces' /\ Entry(p)'.field = "misshapen" /\ i \in SurfacedLines'
    BY <1>3, <2>1, <2>2, <2>3
  <2>5. <<i, 1>> \in SaidPieces' /\ Entry(<<i, 1>>)'.field = "misshapen"
    BY <2>2, <2>4
  <2>6. QED BY <1>6, <2>4, <2>5 DEF TextState
<1>7. CASE ~t.raised
  BY <1>5, <1>7 DEF TextState
<1>8. QED BY <1>6, <1>7

(* The chunk of a line that was given to the caller is heard. *)
LEMMA HearsChunk ==
    ASSUME CodecInv, NEW line \in Lines, said' = Append(said, line), line.kind = "object",
           UNCHANGED codec, codec = "chunks",
           SurfacedLines' = SurfacedLines \cup {Len(said) + 1},
           NEW t, TextState(t), NEW v,
           IF t.raised THEN v = t
           ELSE LET listed == line.chunk.choices
                    read   == DeltaOf(listed)
                IN  v = [raised |-> \E k \in read : listed[k].field = "misshapen",
                         pieces |-> IF \E k \in read : listed[k].field = "content" /\ ~listed[k].null
                                    THEN Append(t.pieces, <<Len(said) + 1, CHOOSE k \in read : TRUE>>)
                                    ELSE t.pieces]
    PROVE  TextState(v)'
<1>1. PICK n : n = Len(said) + 1
  OBVIOUS
<1>2. /\ n \notin ObjectLines
      /\ \A p \in SaidPieces : p \in SaidPieces' /\ Entry(p)' = Entry(p)
      /\ \A p \in SaidPieces' : p[1] # n => p \in SaidPieces
      /\ \A k \in DOMAIN line.chunk.choices :
            <<n, k>> \in SaidPieces' /\ Entry(<<n, k>>)' = line.chunk.choices[k]
  BY <1>1, SaidGrows DEF CodecInv
<1>3. SurfacedLines' = SurfacedLines \cup {n} /\ SurfacedLines \subseteq ObjectLines
  BY <1>1, ItemLines
<1>4. said'[n] = line
  BY <1>1, OneMore DEF CodecInv
<1>5. PICK l, q : l = line.chunk.choices /\ q = <<n, 1>>
  OBVIOUS
<1>6. /\ 1 \in DOMAIN l => q \in SaidPieces' /\ Entry(q)' = l[1]
      /\ \A p \in SaidPieces' : p[1] = n /\ p[2] = 1 => 1 \in DOMAIN l /\ p = q
  <2>1. 1 \in DOMAIN l => q \in SaidPieces' /\ Entry(q)' = l[1]
    BY <1>2, <1>5
  <2>2. \A p \in SaidPieces' : \E k \in DOMAIN (said'[p[1]].chunk.choices) : p = <<p[1], k>>
    BY <1>1, SaidGrows DEF CodecInv
  <2>3. ASSUME NEW p \in SaidPieces', p[1] = n, p[2] = 1 PROVE 1 \in DOMAIN l /\ p = q
    <3>1. PICK k \in DOMAIN (said'[p[1]].chunk.choices) : p = <<p[1], k>>
      BY <2>2
    <3>2. k \in DOMAIN l /\ p = <<n, k>>
      BY <1>4, <1>5, <2>3, <3>1
    <3>3. k = 1
      BY <2>3, <3>2
    <3>4. QED BY <1>5, <3>2, <3>3
  <2>4. QED BY <2>1, <2>3
<1>7. CASE t.raised
  <2>1. PICK i \in SurfacedLines : <<i, 1>> \in SaidPieces /\ Entry(<<i, 1>>).field = "misshapen"
    BY <1>7 DEF TextState
  <2>2. PICK p : p = <<i, 1>>
    OBVIOUS
  <2>3. p \in SaidPieces' /\ Entry(p)' = Entry(p)
    BY <1>2, <2>1, <2>2
  <2>4. p \in SaidPieces' /\ Entry(p)'.field = "misshapen" /\ i \in SurfacedLines'
    BY <1>3, <2>1, <2>2, <2>3
  <2>5. <<i, 1>> \in SaidPieces' /\ Entry(<<i, 1>>)'.field = "misshapen"
    BY <2>2, <2>4
  <2>6. v.raised
    BY <1>7
  <2>7. QED BY <2>4, <2>5, <2>6 DEF TextState
<1>8. CASE ~t.raised
  <2> DEFINE bad  == 1 \in DOMAIN l /\ l[1].field = "misshapen"
             good == 1 \in DOMAIN l /\ l[1].field = "content" /\ ~l[1].null
  <2>1. /\ v.raised <=> bad
        /\ good => v.pieces = Append(t.pieces, q)
        /\ ~good => v.pieces = t.pieces
    <3>1. PICK read : read = DeltaOf(l)
      OBVIOUS
    <3>2. read = DOMAIN l \cap {1}
      BY <3>1 DEF DeltaOf
    <3>3. v = [raised |-> \E k \in read : l[k].field = "misshapen",
               pieces |-> IF \E k \in read : l[k].field = "content" /\ ~l[k].null
                          THEN Append(t.pieces, <<n, CHOOSE k \in read : TRUE>>)
                          ELSE t.pieces]
      BY <1>1, <1>5, <1>8, <3>1
    <3>4. (\E k \in read : l[k].field = "misshapen") <=> bad
      BY <3>2
    <3>5. (\E k \in read : l[k].field = "content" /\ ~l[k].null) <=> good
      BY <3>2
    <3>6. good => (CHOOSE k \in read : TRUE) = 1
      BY <3>2
    <3>7. v.raised = (\E k \in read : l[k].field = "misshapen")
          /\ v.pieces = IF \E k \in read : l[k].field = "content" /\ ~l[k].null
                        THEN Append(t.pieces, <<n, CHOOSE k \in read : TRUE>>)
                        ELSE t.pieces
      BY <3>3
    <3> HIDE DEF bad, good
    <3>8. v.raised <=> bad
      BY <3>4, <3>7
    <3>9. good => v.pieces = Append(t.pieces, q)
      BY <1>5, <3>5, <3>6, <3>7
    <3>10. ~good => v.pieces = t.pieces
      BY <3>5, <3>7
    <3>11. QED BY <3>8, <3>9, <3>10
  <2>2. CASE bad
    <3>1. v.raised
      BY <2>1, <2>2
    <3>2. q \in SaidPieces' /\ Entry(q)'.field = "misshapen" /\ n \in SurfacedLines'
      BY <1>3, <1>6, <2>2
    <3>3. <<n, 1>> \in SaidPieces' /\ Entry(<<n, 1>>)'.field = "misshapen"
      BY <1>5, <3>2
    <3>4. QED BY <3>1, <3>2, <3>3 DEF TextState
  <2>3. CASE ~bad
    <3>1. ~v.raised /\ Lists(t.pieces, HeardPieces)
      BY <1>8, <2>1, <2>3 DEF TextState
    <3>2. PICK H : H = HeardPieces
      OBVIOUS
    <3>3. \A p \in H : p \in HeardPieces'
      BY <1>2, <1>3, <3>2 DEF HeardPieces
    <3>4. ASSUME NEW p \in HeardPieces', p \notin H PROVE good /\ p = q
      <4>1. p \in SaidPieces' /\ p[2] = 1 /\ p[1] \in SurfacedLines \cup {n}
            /\ Entry(p)'.field = "content" /\ ~Entry(p)'.null
        BY <1>3 DEF HeardPieces
      <4>2. CASE p[1] # n
        <5>1. p \in SaidPieces /\ Entry(p)' = Entry(p)
          BY <1>2, <4>1, <4>2
        <5>2. p \in H
          BY <3>2, <4>1, <4>2, <5>1 DEF HeardPieces
        <5>3. QED BY <3>4, <5>2
      <4>3. CASE p[1] = n
        BY <1>6, <4>1, <4>3
      <4>4. QED BY <4>2, <4>3
    <3>5. good => q \in HeardPieces'
      <4>1. ASSUME good PROVE q \in HeardPieces'
        <5>1. q \in SaidPieces' /\ q[1] = n /\ q[2] = 1 /\ n \in SurfacedLines'
              /\ Entry(q)'.field = "content" /\ ~Entry(q)'.null
          BY <1>3, <1>5, <1>6, <4>1
        <5>2. QED BY <5>1 DEF HeardPieces
      <4>2. QED BY <4>1
    <3>6. CASE good
      <4>1. HeardPieces' = H \cup {q}
        <5> HIDE DEF good, bad
        <5>1. QED BY <3>3, <3>4, <3>5, <3>6
      <4>2. After(q, H)
        <5>1. ASSUME NEW p \in H PROVE Before(p, q)
          <6>1. p \in SaidPieces /\ p[1] \in SurfacedLines
            BY <3>2 DEF HeardPieces
          <6>2. p[1] \in DOMAIN said
            BY <1>3, <6>1 DEF ObjectLines
          <6>3. DOMAIN said = 1..Len(said) /\ Len(said) \in Nat
            BY OneMore DEF CodecInv
          <6>4. p[1] < n
            BY <1>1, <6>2, <6>3
          <6>5. QED BY <1>5, <6>4 DEF Before
        <5>2. QED BY <5>1 DEF After
      <4>3. v.pieces = Append(t.pieces, q)
        BY <2>1, <3>6
      <4>4. PICK x, y, Q : x = t.pieces /\ y = v.pieces /\ Q = H \cup {q}
        OBVIOUS
      <4>5. Lists(x, H) /\ y = Append(x, q)
        BY <3>1, <3>2, <4>3, <4>4
      <4>6. Lists(y, Q)
        BY <4>2, <4>4, <4>5, ListsAppend
      <4>7. Lists(v.pieces, HeardPieces')
        BY <4>1, <4>4, <4>6
      <4>8. Lists(v.pieces, HeardPieces)'
        BY <4>7 DEF Lists, Before
      <4>9. QED BY <3>1, <4>8 DEF TextState
    <3>7. CASE ~good
      <4>1. HeardPieces' = H
        <5> HIDE DEF good, bad
        <5>1. QED BY <3>3, <3>4, <3>7
      <4>2. v.pieces = t.pieces
        BY <2>1, <3>7
      <4>3. Lists(v.pieces, HeardPieces')
        BY <3>1, <3>2, <4>1, <4>2
      <4>4. Lists(v.pieces, HeardPieces)'
        BY <4>3 DEF Lists, Before
      <4>5. QED BY <3>1, <4>4 DEF TextState
    <3>8. QED BY <3>6, <3>7
  <2>4. QED BY <2>2, <2>3
<1>9. QED BY <1>7, <1>8

-----------------------------------------------------------------------------
WorkOK == \A w \in {work} : IF Walking THEN WorkState(w) ELSE w = Fresh

TextOK == \A t \in {text} : TextState(t)

AnswerOK ==
    \A a \in {answer}, t \in {text} :
        /\ "status" \in DOMAIN a
        /\ a.status # "none" => outcome # "open"
        /\ a.status = "returned" => AllSaid(a) /\ Agrees(a, t)

CompletionInv == CodecInv /\ WorkOK /\ TextOK /\ AnswerOK

LEMMA InvSays == CompletionInv => CollectedIsSaid /\ TextStreamAgrees
BY DEF CompletionInv, AnswerOK, CollectedIsSaid, TextStreamAgrees, Returned,
       AllSaid, Agrees, ZeroFirst

LEMMA InitCompletion == CompletionInit => CompletionInv
<1> SUFFICES ASSUME CompletionInit PROVE CompletionInv
  OBVIOUS
<1>1. CodecInv
  BY InitCodec DEF CompletionInit
<1>2. outcome = "open" /\ said = <<>> /\ surfaced = <<>> /\ work = Fresh
  BY DEF CompletionInit, Init, Fresh
<1>3. WorkOK
  BY <1>2 DEF WorkOK, Walking
<1>4. TextOK
  <2>1. text = [raised |-> FALSE, pieces |-> <<>>]
    BY DEF CompletionInit
  <2>2. ~text.raised /\ text.pieces = <<>>
    BY <2>1
  <2>3. DOMAIN surfaced = {}
    BY <1>2
  <2>4. HeardPieces = {}
    BY <2>3 DEF HeardPieces, SurfacedLines
  <2>5. Lists(text.pieces, HeardPieces)
    BY <2>2, <2>4, ListsNothing
  <2>6. QED BY <2>2, <2>5 DEF TextOK, TextState
<1>5. AnswerOK
  <2>1. answer = [status |-> "none", choices |-> <<>>, usage |-> 0]
    BY DEF CompletionInit
  <2>2. "status" \in DOMAIN answer /\ answer.status = "none"
    BY <2>1
  <2>3. QED BY <2>2 DEF AnswerOK
<1>6. QED BY <1>1, <1>3, <1>4, <1>5 DEF CompletionInv

(* A step that leaves the codec alone keeps all that is said of it. *)
LEMMA QuietCodec ==
    ASSUME CompletionInv, UNCHANGED <<vars, text>>
    PROVE  CodecInv' /\ TextOK' /\ (Walking' <=> Walking) /\ outcome' = outcome
<1>1. UNCHANGED vars
  OBVIOUS
<1>2. CodecInv'
  BY <1>1, StepCodec DEF CompletionInv
<1>3. PICK t : t = text
  OBVIOUS
<1>4. TextState(t)'
  BY <1>1, <1>3, SameSaid DEF CompletionInv, TextOK
<1>5. TextOK'
  BY <1>3, <1>4 DEF TextOK
<1>6. QED BY <1>1, <1>2, <1>5 DEF vars, Walking

LEMMA QuietWork ==
    ASSUME CompletionInv, UNCHANGED <<vars, work>>
    PROVE  WorkOK'
<1>1. UNCHANGED vars
  OBVIOUS
<1>2. Walking' <=> Walking
  BY DEF vars, Walking
<1>3. PICK w : w = work
  OBVIOUS
<1>4. IF Walking THEN WorkState(w) ELSE w = Fresh
  BY <1>3 DEF CompletionInv, WorkOK
<1>5. WorkState(w)' <=> WorkState(w)
  BY <1>1, SameWork
<1>6. Fresh' = Fresh
  BY DEF Fresh
<1>7. QED BY <1>2, <1>3, <1>4, <1>5, <1>6 DEF WorkOK

LEMMA QuietAnswer ==
    ASSUME CompletionInv, UNCHANGED <<vars, answer, text>>
    PROVE  AnswerOK'
<1>1. UNCHANGED vars
  OBVIOUS
<1>2. PICK a, t : a = answer /\ t = text
  OBVIOUS
<1>3. /\ "status" \in DOMAIN a
      /\ a.status # "none" => outcome # "open"
      /\ a.status = "returned" => AllSaid(a) /\ Agrees(a, t)
  BY <1>2 DEF CompletionInv, AnswerOK
<1>4. (AllSaid(a)' <=> AllSaid(a)) /\ (Agrees(a, t)' <=> Agrees(a, t))
  BY <1>1, SameSaid
<1>5. outcome' = outcome
  BY DEF vars
<1>6. QED BY <1>2, <1>3, <1>4, <1>5 DEF AnswerOK

(* To raise is to return nothing. *)
LEMMA RaiseKeeps ==
    ASSUME CompletionInv, Raise, UNCHANGED <<vars, work, text>>, outcome # "open"
    PROVE  CompletionInv'
<1>1. CodecInv' /\ TextOK' /\ WorkOK' /\ outcome' # "open"
  BY QuietCodec, QuietWork
<1>2. "status" \in DOMAIN answer
  BY DEF CompletionInv, AnswerOK
<1>3. "status" \in DOMAIN answer' /\ answer'.status = "raised"
  BY <1>2 DEF Raise
<1>4. AnswerOK'
  BY <1>1, <1>3 DEF AnswerOK
<1>5. QED BY <1>1, <1>4 DEF CompletionInv

LEMMA TakeChunkKeeps ==
    ASSUME CompletionInv, TakeChunk
    PROVE  CompletionInv'
<1>1. /\ Collecting /\ UNCHANGED <<vars, answer, text>>
      /\ work.entry = Len(Listed(work.chunk)) /\ work.chunk < Len(surfaced)
      /\ work' = [work EXCEPT !.chunk = @ + 1, !.entry = 0,
                      !.usage = IF said[LineOf(work.chunk + 1)].chunk.usage
                                THEN LineOf(work.chunk + 1) ELSE @]
  BY DEF TakeChunk
<1>2. PICK w, v, c, u : /\ w = work /\ v = work' /\ c = w.chunk + 1
                        /\ u = IF said[LineOf(c)].chunk.usage THEN LineOf(c) ELSE w.usage
  OBVIOUS
<1>3. Walking /\ WorkState(w)
  BY <1>1, <1>2 DEF Collecting, Walking, CompletionInv, WorkOK
<1>4. w = [chunk |-> w.chunk, entry |-> w.entry, choices |-> w.choices, usage |-> w.usage]
  BY <1>3 DEF WorkState
<1>5. v = [w EXCEPT !.chunk = c, !.entry = 0, !.usage = u]
  BY <1>1, <1>2, <1>4
<1>6. v = [chunk |-> c, entry |-> 0, choices |-> w.choices, usage |-> u]
  BY <1>4, <1>5
<1>7. WorkState(v)
  <2>1. w.entry = Len(Listed(w.chunk)) /\ w.chunk < Len(surfaced) /\ CodecInv
    BY <1>1, <1>2 DEF CompletionInv
  <2>2. c = w.chunk + 1 /\ u = IF said[LineOf(c)].chunk.usage THEN LineOf(c) ELSE w.usage
    BY <1>2
  <2>3. QED BY <1>3, <1>6, <2>1, <2>2, WalkToChunk
<1>8. WorkState(v)'
  BY <1>1, <1>7, SameWork
<1>9. CodecInv' /\ TextOK' /\ AnswerOK' /\ Walking'
  BY <1>1, <1>3, QuietCodec, QuietAnswer
<1>10. WorkOK'
  BY <1>2, <1>8, <1>9 DEF WorkOK
<1>11. QED BY <1>9, <1>10 DEF CompletionInv

LEMMA TakeEntryKeeps ==
    ASSUME CompletionInv, TakeEntry
    PROVE  CompletionInv'
<1>1. Collecting /\ UNCHANGED <<vars, text>> /\ work.entry < Len(Listed(work.chunk))
  BY DEF TakeEntry
<1>2. PICK n, e : n = work.entry + 1 /\ e = Listed(work.chunk)[n]
  OBVIOUS
<1>3. CASE e.field = "misshapen" /\ Raise /\ UNCHANGED work
  BY <1>1, <1>3, RaiseKeeps DEF Collecting
<1>4. CASE /\ e.field # "misshapen" /\ UNCHANGED answer
           /\ work' = [work EXCEPT
                  !.entry = n,
                  !.choices = AddToChoices(@, IndexOr(e.index, n - 1), e, <<LineOf(work.chunk), n>>)]
  <2>1. PICK w, v, p, cs : /\ w = work /\ v = work' /\ p = <<LineOf(w.chunk), n>>
                           /\ cs = AddToChoices(w.choices, IndexOr(e.index, n - 1), e, p)
    OBVIOUS
  <2>2. Walking /\ WorkState(w) /\ CodecInv
    BY <1>1, <2>1 DEF Collecting, Walking, CompletionInv, WorkOK
  <2>3. w = [chunk |-> w.chunk, entry |-> w.entry, choices |-> w.choices, usage |-> w.usage]
    BY <2>2 DEF WorkState
  <2>4. v = [w EXCEPT !.entry = n, !.choices = cs]
    BY <1>4, <2>1, <2>3
  <2>5. v = [chunk |-> w.chunk, entry |-> n, choices |-> cs, usage |-> w.usage]
    BY <2>3, <2>4
  <2>6. /\ w.entry < Len(Listed(w.chunk)) /\ n = w.entry + 1
        /\ e = Listed(w.chunk)[n] /\ e.field # "misshapen"
    BY <1>1, <1>2, <1>4, <2>1
  <2>7. p = <<LineOf(w.chunk), n>> /\ cs = AddToChoices(w.choices, IndexOr(e.index, n - 1), e, p)
    BY <2>1
  <2>8. WorkState(v)
    BY <2>2, <2>5, <2>6, <2>7, WalkToEntry
  <2>9. WorkState(v)'
    BY <1>1, <2>8, SameWork
  <2>10. CodecInv' /\ TextOK' /\ AnswerOK' /\ Walking'
    BY <1>1, <1>4, <2>2, QuietCodec, QuietAnswer
  <2>11. WorkOK'
    BY <2>1, <2>9, <2>10 DEF WorkOK
  <2>12. QED BY <2>10, <2>11 DEF CompletionInv
<1>5. QED BY <1>2, <1>3, <1>4 DEF TakeEntry

LEMMA ReturnKeeps ==
    ASSUME CompletionInv, Return
    PROVE  CompletionInv'
<1>1. /\ Collecting /\ UNCHANGED <<vars, work, text>>
      /\ work.entry = Len(Listed(work.chunk)) /\ work.chunk = Len(surfaced)
  BY DEF Return
<1>2. CASE DOMAIN work.choices = {} /\ Raise
  BY <1>1, <1>2, RaiseKeeps DEF Collecting
<1>3. CASE /\ DOMAIN work.choices # {}
           /\ LET order == Sorted(DOMAIN work.choices) IN
              answer' = [status  |-> "returned",
                         choices |-> [k \in DOMAIN order |->
                                         MessageOf(order[k], work.choices[order[k]])],
                         usage   |-> work.usage]
  <2>1. PICK w, cs, s : w = work /\ cs = w.choices /\ s = Sorted(DOMAIN cs)
    OBVIOUS
  <2>2. PICK choices, a, t : /\ choices = [k \in DOMAIN s |-> MessageOf(s[k], cs[s[k]])]
                             /\ a = [status |-> "returned", choices |-> choices, usage |-> w.usage]
                             /\ t = text
    OBVIOUS
  <2>3. answer' = a
    BY <1>3, <2>1, <2>2
  <2>4. Walking /\ WorkState(w) /\ CodecInv /\ CodecTypeOK /\ TextState(t)
        /\ w.entry = Len(Listed(w.chunk)) /\ w.chunk = Len(surfaced)
    BY <1>1, <2>1, <2>2 DEF Collecting, Walking, CompletionInv, WorkOK, TextOK, CodecInv
  <2>5. ChoicesOK(cs, SaidPieces)
    BY <2>1, <2>4, WalkEnds
  <2>6. PICK D : D = DOMAIN cs
    OBVIOUS
  <2>7. D \in SUBSET Nat /\ IsFiniteSet(D) /\ D = {ChoiceOf(p) : p \in SaidPieces}
    BY <2>4, <2>5, <2>6, PieceTypes DEF ChoicesOK
  <2>8. Enumerates(s, D)
    BY <2>1, <2>6, <2>7, SortedEnumerates
  <2>9. AllSaid(a) /\ \E n \in Nat : DOMAIN a.choices = 1..n
    <3>1. Enumerates(s, DOMAIN cs) /\ cs = w.choices
      BY <2>1, <2>6, <2>8
    <3>2. /\ choices = [k \in DOMAIN s |-> MessageOf(s[k], cs[s[k]])]
          /\ a = [status |-> "returned", choices |-> choices, usage |-> w.usage]
      BY <2>2
    <3>3. QED BY <2>4, <3>1, <3>2, ReturnSaysAll
  <2>10. Agrees(a, t)
    <3>1. \A p \in SaidPieces : Entry(p).field # "misshapen"
      BY <2>5 DEF ChoicesOK
    <3>2. SaidPieces # {}
      BY <1>3, <2>1, <2>6, <2>7
    <3>3. PICK n \in Nat : DOMAIN a.choices = 1..n
      BY <2>9
    <3>4. QED BY <2>4, <2>9, <3>1, <3>2, <3>3, ReturnAgrees
  <2>11. AllSaid(a)' /\ Agrees(a, t)'
    BY <1>1, <2>9, <2>10, SameSaid
  <2>12. CodecInv' /\ TextOK' /\ WorkOK' /\ outcome' # "open"
    BY <1>1, QuietCodec, QuietWork DEF Collecting
  <2>13. "status" \in DOMAIN a /\ a.status = "returned"
    BY <2>2
  <2>14. text' = t
    BY <1>1, <2>2
  <2>15. AnswerOK'
    BY <2>3, <2>11, <2>12, <2>13, <2>14 DEF AnswerOK
  <2>16. QED BY <2>12, <2>15 DEF CompletionInv
<1>4. QED BY <1>2, <1>3 DEF Return

(* What a line is to the chunk codec: nothing yielded, or its object.      *)
LEMMA ChunkLineYields ==
    ASSUME CodecInv, NEW line \in Lines, ChunkLine(line)
    PROVE  \/ UNCHANGED surfaced
           \/ /\ line.kind = "object" /\ surfaced' # surfaced
              /\ SurfacedLines' = SurfacedLines \cup {Len(said) + 1}
<1>1. CASE UNCHANGED surfaced
  BY <1>1
<1>2. CASE /\ line.kind = "object"
           /\ surfaced' = Append(surfaced, [data |-> {Len(said) + 1}, name |-> 0])
  <2>1. PICK item, n : item = [data |-> {Len(said) + 1}, name |-> 0] /\ n = Len(surfaced) + 1
    OBVIOUS
  <2>2. item.data = {Len(said) + 1} /\ surfaced' = Append(surfaced, item)
    BY <1>2, <2>1
  <2>3. surfaced \in Seq(ItemType \cup {item})
    <3>1. surfaced \in Seq(ItemType)
      BY DEF CodecInv, CodecTypeOK, ItemType
    <3>2. QED BY <3>1, SeqMonotonic
  <2>4. /\ Len(surfaced) \in Nat /\ DOMAIN surfaced = 1..Len(surfaced)
        /\ surfaced' \in Seq(ItemType \cup {item}) /\ Len(surfaced') = n
        /\ \A k \in 1..Len(surfaced) : surfaced'[k] = surfaced[k]
        /\ surfaced'[n] = item
    BY <2>1, <2>2, <2>3, AppendProperties, LenProperties
  <2>5. DOMAIN surfaced' = DOMAIN surfaced \cup {n}
    <3>1. DOMAIN surfaced' = 1..n
      BY <2>4, LenProperties
    <3>2. QED BY <2>1, <2>4, <3>1
  <2>6. SurfacedLines' = SurfacedLines \cup item.data
    BY <2>4, <2>5 DEF SurfacedLines
  <2>7. surfaced' # surfaced
    BY <2>1, <2>4
  <2>8. QED BY <1>2, <2>2, <2>6, <2>7
<1>3. QED BY <1>1, <1>2 DEF ChunkLine

(* The reader of the text stream hears of all that was yielded. *)
LEMMA ListenKeeps ==
    ASSUME CodecInv, TextOK, Next, Listen
    PROVE  TextOK'
<1>1. PICK t, v : t = text /\ v = text'
  OBVIOUS
<1>2. TextState(t) /\ outcome = "open" /\ UNCHANGED codec
  BY <1>1 DEF TextOK, Next, NextLine, EndOfLines, LinesBreak
<1>3. CASE codec # "chunks"
  BY <1>2, <1>3 DEF TextOK, TextState
<1>4. ASSUME codec = "chunks" PROVE TextState(v)'
  <2>1. ASSUME UNCHANGED surfaced PROVE v = t
    BY <1>1, <2>1 DEF Listen
  <2>2. CASE NextLine
    <3>1. PICK line \in Lines : said' = Append(said, line) /\ (ChunkLine(line) \/ EventLine(line))
      BY <2>2 DEF NextLine
    <3>2. ChunkLine(line)
      BY <1>4, <3>1 DEF EventLine
    <3>3. CASE UNCHANGED surfaced
      <4>1. v = t
        BY <2>1, <3>3
      <4>2. TextState(t)'
        BY <1>2, <1>4, <3>1, <3>3, HearsNothing
      <4>3. QED BY <4>1, <4>2
    <3>4. CASE /\ line.kind = "object" /\ surfaced' # surfaced
               /\ SurfacedLines' = SurfacedLines \cup {Len(said) + 1}
      <4>1. Len(said') = Len(said) + 1 /\ said'[Len(said) + 1] = line
        BY <3>1, OneMore DEF CodecInv
      <4>2. CASE t.raised
        <5>1. v = t
          BY <1>1, <4>2 DEF Listen
        <5>2. QED BY <1>2, <1>4, <3>1, <3>4, <4>2, <5>1, HearsChunk
      <4>3. CASE ~t.raised
        <5>1. v = Heard(said'[Len(said')].chunk.choices, Len(said'))
          BY <1>1, <1>4, <3>4, <4>3 DEF Listen
        <5>2. v = Heard(line.chunk.choices, Len(said) + 1)
          BY <4>1, <5>1
        <5>3. LET listed == line.chunk.choices
                  read   == DeltaOf(listed)
              IN  v = [raised |-> \E k \in read : listed[k].field = "misshapen",
                       pieces |-> IF \E k \in read : listed[k].field = "content" /\ ~listed[k].null
                                  THEN Append(t.pieces, <<Len(said) + 1, CHOOSE k \in read : TRUE>>)
                                  ELSE t.pieces]
          BY <1>1, <5>2 DEF Heard
        <5>4. QED BY <1>2, <1>4, <3>1, <3>4, <4>3, <5>3, HearsChunk
      <4>4. QED BY <4>2, <4>3
    <3>5. QED BY <3>2, <3>3, <3>4, ChunkLineYields
  <2>3. CASE EndOfLines \/ LinesBreak
    <3>1. UNCHANGED <<said, surfaced>>
      <4>1. frame = {}
        BY <1>2, <1>4 DEF CodecInv, CodecTypeOK, SinceBlank
      <4>2. InFrame(DataKinds) = {}
        BY <4>1 DEF InFrame
      <4>3. QED BY <2>3, <4>2 DEF EndOfLines, LinesBreak, SurfaceFrame
    <3>2. v = t
      BY <2>1, <3>1
    <3>3. TextState(t)' <=> TextState(t)
      BY <1>2, <3>1 DEF TextState, HeardPieces, SurfacedLines, Entry, SaidPieces, ObjectLines
    <3>4. QED BY <1>2, <3>2, <3>3
  <2>4. QED BY <2>2, <2>3 DEF Next
<1>5. QED BY <1>1, <1>3, <1>4 DEF TextOK

LEMMA FreshWork == CodecInv /\ codec = "chunks" => WorkState(Fresh)
BY WalkStarts

LEMMA NextKeeps ==
    ASSUME CompletionInv, Next, Listen, UNCHANGED <<work, answer>>
    PROVE  CompletionInv'
<1>1. outcome = "open" /\ UNCHANGED codec
  BY DEF Next, NextLine, EndOfLines, LinesBreak
<1>2. CodecInv'
  BY StepCodec DEF CompletionInv
<1>3. TextOK'
  BY ListenKeeps DEF CompletionInv
<1>4. WorkOK'
  <2>1. PICK w : w = work
    OBVIOUS
  <2>2. w = Fresh /\ Fresh' = Fresh
    BY <1>1, <2>1 DEF CompletionInv, WorkOK, Walking, Fresh
  <2>3. ASSUME Walking' PROVE WorkState(w)'
    <3>1. (CodecInv /\ codec = "chunks" => WorkState(Fresh))'
      BY FreshWork, PTL
    <3>2. WorkState(Fresh)'
      BY <1>2, <2>3, <3>1 DEF Walking
    <3>3. QED BY <2>2, <3>2 DEF Fresh
  <2>4. QED BY <2>1, <2>2, <2>3 DEF WorkOK
<1>5. AnswerOK'
  BY <1>1 DEF CompletionInv, AnswerOK
<1>6. QED BY <1>2, <1>3, <1>4, <1>5 DEF CompletionInv

LEMMA StepCompletion == CompletionInv /\ [CompletionNext]_allVars => CompletionInv'
<1> SUFFICES ASSUME CompletionInv, [CompletionNext]_allVars PROVE CompletionInv'
  OBVIOUS
<1>1. CASE Next /\ Listen /\ UNCHANGED <<work, answer>>
  BY <1>1, NextKeeps
<1>2. CASE TakeChunk
  BY <1>2, TakeChunkKeeps
<1>3. CASE TakeEntry
  BY <1>3, TakeEntryKeeps
<1>4. CASE Return
  BY <1>4, ReturnKeeps
<1>5. CASE StreamRaises
  <2>1. Raise /\ UNCHANGED <<vars, work, text>> /\ outcome # "open"
    BY <1>5 DEF StreamRaises
  <2>2. QED BY <2>1, RaiseKeeps
<1>6. CASE UNCHANGED allVars
  <2>1. UNCHANGED vars /\ UNCHANGED <<work, answer, text>>
    BY <1>6 DEF allVars
  <2>2. UNCHANGED <<vars, text>> /\ UNCHANGED <<vars, work>> /\ UNCHANGED <<vars, answer, text>>
    BY <2>1
  <2>3. QED BY <2>2, QuietCodec, QuietWork, QuietAnswer DEF CompletionInv
<1>7. QED BY <1>1, <1>2, <1>3, <1>4, <1>5, <1>6 DEF CompletionNext

LEMMA CompletionInvariance == CompletionSpec => []CompletionInv
BY InitCompletion, StepCompletion, PTL DEF CompletionSpec

(* What chat_completions returns is exactly what the server sent, choice   *)
(* by choice, and only for a stream that said [DONE] (_collect.py), for    *)
(* any chunks and streams of any length.                                   *)
THEOREM CollectionIsFaithful == CompletionSpec => []CollectedIsSaid
<1>1. CompletionInv => CollectedIsSaid
  BY InvSays
<1>2. QED BY <1>1, CompletionInvariance, PTL

(* The text of chat_completions_stream is the content that is returned,    *)
(* while the server lists choice 0 first (_delta_text).                    *)
THEOREM StreamTellsTheSame == CompletionSpec => []TextStreamAgrees
<1>1. CompletionInv => TextStreamAgrees
  BY InvSays
<1>2. QED BY <1>1, CompletionInvariance, PTL

=============================================================================
