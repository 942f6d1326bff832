---------------------------- MODULE MiningProofs ----------------------------
(***************************************************************************)
(* Proofs about an extraction run, for documents, chunk sizes and limits   *)
(* of any size and every outcome of OCR and of the model calls: that a     *)
(* published run has shown the model every passage, that its rows cite     *)
(* pages that have their wording, and that no chunk is asked about more    *)
(* often than CallsPerChunk.                                               *)
(*                                                                         *)
(* Covered is not inductive: what was not yet shown must be in a chunk     *)
(* still to do (CoverInv).  That cutting and halving lose no passage is    *)
(* arithmetic, in CutKeeps and HalvesKeep.  Nor is the bound on calls: it  *)
(* holds because the calls made so far and all that the parts still to do  *)
(* may cost stay within it together (Budget).  The cost of the parts is a  *)
(* certificate w, not a sum over todo, and 2^(n + 1) = 2 * 2^n is counted  *)
(* on sets (PowerDoubles): neither needs induction over data.              *)
(***************************************************************************)
EXTENDS Mining, FiniteSetTheorems, SequenceTheorems, WellFoundedInduction, TLAPS

ChunkZ == [start: Nat, stop: Nat, from: Int, to: Int, depth: 0..MaxDepth]

Inside(i, n, c) == c.start <= i /\ i + n <= c.stop
InTodo(i, n) == \E k \in DOMAIN todo : Inside(i, n, todo[k])
Shown(i, n) == \E l \in leaves : Inside(i, n, l)

Shape ==
  /\ doc \in Documents
  /\ phase = "reading" => pos = 0
  /\ Len(text) \in Nat
  /\ \A p \in 1..Len(text) : text[p].page \in Nat
  /\ pos \in 0..Len(text)
  /\ todo \in Seq(ChunkZ)
  /\ \A k \in DOMAIN todo : todo[k].start <= todo[k].stop
  /\ failed \in Nat

\* Where a passage is: cut off so far, still to do or shown, shown.
Kept ==
  \A i \in 0..Len(text) - 1, n \in 1..Overlap : Passage(i, n) =>
    /\ phase = "chunking" /\ i < pos => InTodo(i, n)
    /\ phase = "mining" => failed > 0 \/ InTodo(i, n) \/ Shown(i, n)
    /\ phase \in {"auditing", "ready"} => Shown(i, n)

CoverInv == Shape /\ Kept

-----------------------------------------------------------------------------
(* The text.                                                               *)

LEMMA FcnIsSeq ==
  ASSUME NEW S, NEW n \in Nat, NEW f \in [1..n -> S]
  PROVE  f \in Seq(S) /\ Len(f) = n /\ DOMAIN f = 1..n
<1>1. f \in UNION {[1..m -> S] : m \in Nat}
  OBVIOUS
<1>2. f \in Seq(S)
  BY <1>1, SeqDef
<1> QED
  BY <1>2, LenProperties

LEMMA PairsFinite ==
  ASSUME NEW q, NEW T, IsFiniteSet(T)
  PROVE  IsFiniteSet({q} \X T)
<1>1. IsFiniteSet({q})
  BY FS_Singleton
<1> QED
  BY <1>1, FS_Product

LEMMA InitialSegment ==
  ASSUME NEW n \in Nat
  PROVE  IsFiniteSet(1..n)
BY FS_Interval

LEMMA SubsetSize ==
  ASSUME NEW S, IsFiniteSet(S), NEW T, T \subseteq S
  PROVE  Cardinality(T) \in Nat
<1>1. IsFiniteSet(T)
  BY FS_Subset
<1> QED
  BY <1>1, FS_CardinalityType

\* The places of the units on the pages before p.
Before(ps, p) == UNION {{q} \X DOMAIN ps[q] : q \in 1..p - 1}

LEMMA BeforeFinite ==
  ASSUME NEW ps \in Seq(Seq(Words)), NEW p \in 1..Len(ps) + 1
  PROVE  IsFiniteSet(Before(ps, p)) /\ StartOf(ps, p) = Cardinality(Before(ps, p))
<1> DEFINE D == 1..p - 1
           S == {{q} \X DOMAIN ps[q] : q \in D}
           f == [q \in D |-> {q} \X DOMAIN ps[q]]
<1>1. IsFiniteSet(D)
  BY FS_Interval
<1>2. f \in Surjection(D, S)
  BY DEF Surjection
<1>3. IsFiniteSet(S)
  BY <1>1, <1>2, FS_Surjection
<1>4. ASSUME NEW q \in D PROVE IsFiniteSet({q} \X DOMAIN ps[q])
  <2>1. ps[q] \in Seq(Words)
    BY ElementOfSeq
  <2>2. DOMAIN ps[q] = 1..Len(ps[q]) /\ Len(ps[q]) \in Nat
    BY <2>1, LenProperties
  <2>3. IsFiniteSet(1..Len(ps[q]))
    BY <2>2, InitialSegment
  <2> QED
    BY <2>2, <2>3, PairsFinite
<1>5. \A T \in S : IsFiniteSet(T)
  BY <1>4
<1>6. IsFiniteSet(UNION S)
  BY <1>3, <1>5, FS_UNION
<1>7. StartOf(ps, p) = Cardinality(UNION S)
  BY DEF StartOf
<1> QED
  BY <1>6, <1>7 DEF Before

LEMMA StartIsNat ==
  ASSUME NEW ps \in Seq(Seq(Words)), NEW p \in 1..Len(ps) + 1
  PROVE  StartOf(ps, p) \in Nat
BY BeforeFinite, FS_CardinalityType

LEMMA JoinedText ==
  ASSUME NEW ps \in Seq(Seq(Words))
  PROVE  /\ Len(Joined(ps)) \in Nat
         /\ \A k \in 1..Len(Joined(ps)) : Joined(ps)[k].page \in Nat
<1> DEFINE n == StartOf(ps, Len(ps) + 1)
           S == {Joined(ps)[k] : k \in 1..n}
<1>1. Len(ps) \in Nat /\ DOMAIN ps = 1..Len(ps)
  BY LenProperties
<1>2. n \in Nat
  BY <1>1, StartIsNat
<1>3. Joined(ps) \in [1..n -> S]
  BY DEF Joined
<1>4. Len(Joined(ps)) = n
  BY <1>2, <1>3, FcnIsSeq
<1>5. ASSUME NEW k \in 1..n PROVE Joined(ps)[k].page \in Nat
  <2> DEFINE P == {q \in DOMAIN ps : StartOf(ps, q) < k}
  <2>1. Joined(ps)[k].page = Cardinality(P)
    BY DEF Joined
  <2>2. IsFiniteSet(DOMAIN ps)
    BY <1>1, FS_Interval
  <2>3. P \subseteq DOMAIN ps
    OBVIOUS
  <2>4. Cardinality(P) \in Nat
    BY <2>2, <2>3, SubsetSize
  <2> HIDE DEF P
  <2> QED
    BY <2>1, <2>4
<1> HIDE DEF n
<1> QED
  BY <1>2, <1>4, <1>5

\* Every page is read or empty.
LEMMA MergedPages ==
  ASSUME NEW read \in SUBSET DOMAIN Flagged, doc \in Documents
  PROVE  LET ps == Merged(OcrSubpdf(read))
         IN /\ ps \in Seq(Seq(Words))
            /\ DOMAIN ps = DOMAIN doc.pages
            /\ \A p \in DOMAIN ps : ps[p] \in {doc.pages[p], <<>>}
<1> DEFINE ps == Merged(OcrSubpdf(read))
<1>1. doc.pages \in Seq(Seq(Words))
  BY MiningBounds
<1>2. DOMAIN ps = DOMAIN doc.pages
  BY DEF Merged
<1>3. \A p \in DOMAIN ps : ps[p] \in {doc.pages[p], <<>>}
  BY DEF Merged, OcrSubpdf
<1>4. Len(doc.pages) \in Nat /\ DOMAIN doc.pages = 1..Len(doc.pages)
  BY <1>1, LenProperties
<1>5. \A p \in DOMAIN doc.pages : ps[p] \in Seq(Words)
  BY <1>1, <1>2, <1>3, <1>4, ElementOfSeq, EmptySeq
<1>6. ps \in [1..Len(doc.pages) -> Seq(Words)]
  BY <1>2, <1>4, <1>5 DEF Merged
<1>7. ps \in Seq(Seq(Words))
  BY <1>4, <1>6, FcnIsSeq
<1> HIDE DEF ps
<1> QED
  BY <1>2, <1>3, <1>7 DEF ps

-----------------------------------------------------------------------------
(* Cutting and halving.                                                    *)

\* A chunk ends where its section does, or an overlap beyond the start of the
\* next chunk.
LEMMA CutKeeps ==
  ASSUME Shape, NEW e \in 1..Len(text), SectionEnds(pos, e), Cut(e)
  PROVE  /\ pos' \in 0..Len(text)
         /\ todo' \in Seq(ChunkZ)
         /\ Len(todo') = Len(todo) + 1
         /\ \A k \in 1..Len(todo) : todo'[k] = todo[k]
         /\ todo'[Len(todo) + 1].start <= todo'[Len(todo) + 1].stop
         /\ \A i \in 0..Len(text) - 1, n \in 1..Overlap :
              Passage(i, n) /\ pos <= i /\ i < pos'
                => Inside(i, n, todo'[Len(todo) + 1])
<1> DEFINE stop == IF pos + Target < e THEN pos + Target ELSE e
           c == [start |-> pos, stop |-> stop, from |-> PageAt(pos),
                 to |-> PageAt(stop - 1), depth |-> 0]
<1>1. /\ Len(text) \in Nat /\ pos \in Nat /\ e \in Nat
      /\ pos < e /\ e <= Len(text)
  BY DEF Shape, SectionEnds
<1>2. Target \in Nat /\ Overlap \in Nat /\ MaxDepth \in Nat /\ Overlap < Target
  BY MiningBounds
<1>3. stop \in Nat /\ pos < stop /\ stop <= e
  BY <1>1, <1>2
<1>4. todo' = Append(todo, c) /\ pos' = IF stop = e THEN e ELSE pos + (Target - Overlap)
  BY DEF Cut
<1>5. PageAt(pos) \in Int /\ PageAt(stop - 1) \in Int
  <2>1. pos + 1 \in 1..Len(text) /\ stop - 1 + 1 \in 1..Len(text)
    BY <1>1, <1>3
  <2> HIDE DEF stop
  <2> QED
    BY <2>1 DEF PageAt, Shape
<1>6. c \in ChunkZ
  <2> HIDE DEF stop
  <2> QED
    BY <1>1, <1>2, <1>3, <1>5 DEF ChunkZ
<1>7. c.start = pos /\ c.stop = stop
  OBVIOUS
<1>8. todo \in Seq(ChunkZ)
  BY DEF Shape
<1>9. pos' \in 0..Len(text)
  BY <1>1, <1>2, <1>4
<1>10. ASSUME NEW i \in 0..Len(text) - 1, NEW n \in 1..Overlap,
              Passage(i, n), pos <= i, i < pos'
       PROVE  i + n <= stop
  <2>1. CASE stop = e
    <3>1. i < e
      BY <1>4, <1>10, <2>1
    <3>2. CASE e = Len(text)
      BY <1>10, <2>1, <3>2 DEF Passage
    <3>3. CASE e \in Heads
      <4>1. ~(e < i + n)
        BY <1>10, <3>1, <3>3 DEF Passage
      <4> QED
        BY <1>1, <2>1, <4>1, <1>2
    <3> QED
      BY <3>2, <3>3 DEF SectionEnds
  <2>2. CASE stop # e
    <3>1. stop = pos + Target /\ i < pos + (Target - Overlap)
      BY <1>4, <1>10, <2>2
    <3> QED
      BY <1>1, <1>2, <3>1
  <2> QED
    BY <2>1, <2>2
<1> HIDE DEF c, stop
<1>11. /\ todo' \in Seq(ChunkZ)
       /\ Len(todo') = Len(todo) + 1
       /\ \A k \in 1..Len(todo) : todo'[k] = todo[k]
       /\ todo'[Len(todo) + 1] = c
  BY <1>4, <1>6, <1>8
<1> QED
  BY <1>1, <1>3, <1>7, <1>9, <1>10, <1>11 DEF Inside

\* Half of the overlap on both sides of the middle: a passage that is longer
\* than fits into one half is longer than the overlap.
LEMMA HalvesKeep ==
  ASSUME NEW c \in ChunkZ, c.start <= c.stop, c.depth < MaxDepth
  PROVE  /\ Halves(c)[1] \in ChunkZ /\ Halves(c)[1].start <= Halves(c)[1].stop
         /\ Halves(c)[2] \in ChunkZ /\ Halves(c)[2].start <= Halves(c)[2].stop
         /\ \A i \in Nat, n \in 1..Overlap : Inside(i, n, c) =>
              Inside(i, n, Halves(c)[1]) \/ Inside(i, n, Halves(c)[2])
<1> DEFINE mid == (c.stop - c.start) \div 2
           lap == IF Overlap \div 2 < mid THEN Overlap \div 2 ELSE mid
           page == c.from + (c.to - c.from) \div 2
           h1 == [c EXCEPT !.stop = c.start + mid + lap, !.to = page, !.depth = @ + 1]
           h2 == [c EXCEPT !.start = c.start + mid - lap, !.from = page, !.depth = @ + 1]
<1>1. /\ c.start \in Nat /\ c.stop \in Nat /\ c.from \in Int /\ c.to \in Int
      /\ c.depth \in 0..MaxDepth /\ MaxDepth \in Nat /\ Overlap \in Nat
  BY MiningBounds DEF ChunkZ
<1>2. /\ mid \in Nat /\ 2 * mid <= c.stop - c.start /\ lap \in Nat /\ lap <= mid
      /\ lap = mid \/ 2 * lap + 1 >= Overlap
  BY <1>1
<1>3. page \in Int
  BY <1>1
<1>4. Halves(c)[1] = h1 /\ Halves(c)[2] = h2
  BY DEF Halves
<1> HIDE DEF mid, lap, page
<1>5. c.depth + 1 \in 0..MaxDepth /\ c.start + mid + lap \in Nat /\ c.start + mid - lap \in Nat
  BY <1>1, <1>2
<1>6. /\ h1 \in ChunkZ /\ h1.start = c.start /\ h1.stop = c.start + mid + lap
      /\ h2 \in ChunkZ /\ h2.start = c.start + mid - lap /\ h2.stop = c.stop
  BY <1>3, <1>5 DEF ChunkZ
<1> HIDE DEF h1, h2
<1>7. ASSUME NEW i \in Nat, NEW n \in 1..Overlap, c.start <= i, i + n <= c.stop
      PROVE  i + n <= c.start + mid + lap \/ c.start + mid - lap <= i
  BY <1>1, <1>2, <1>7
<1> QED
  BY <1>1, <1>2, <1>4, <1>6, <1>7 DEF Inside

\* Taking the first chunk off, or putting its halves in its place.
LEMMA TodoTail ==
  ASSUME todo \in Seq(ChunkZ), todo # <<>>,
         \A k \in DOMAIN todo : todo[k].start <= todo[k].stop
  PROVE  /\ Head(todo) \in ChunkZ /\ Head(todo).start <= Head(todo).stop
         /\ Tail(todo) \in Seq(ChunkZ)
         /\ \A k \in DOMAIN Tail(todo) : Tail(todo)[k].start <= Tail(todo)[k].stop
         /\ \A i, n : InTodo(i, n) =>
              \/ Inside(i, n, Head(todo))
              \/ \E k \in DOMAIN Tail(todo) : Inside(i, n, Tail(todo)[k])
<1>1. /\ Len(todo) \in Nat /\ Len(todo) >= 1 /\ DOMAIN todo = 1..Len(todo)
  BY EmptySeq, LenProperties
<1>2. /\ Tail(todo) \in Seq(ChunkZ) /\ DOMAIN Tail(todo) = 1..Len(todo) - 1
      /\ \A k \in 1..Len(todo) - 1 : Tail(todo)[k] = todo[k + 1]
  BY <1>1
<1>3. Head(todo) = todo[1]
  BY <1>1
<1>4. \A k \in 1..Len(todo) - 1 : k + 1 \in 1..Len(todo)
  BY <1>1
<1>5. ASSUME NEW i, NEW n, InTodo(i, n)
      PROVE  \/ Inside(i, n, Head(todo))
             \/ \E k \in DOMAIN Tail(todo) : Inside(i, n, Tail(todo)[k])
  <2>1. PICK k \in 1..Len(todo) : Inside(i, n, todo[k])
    BY <1>1, <1>5 DEF InTodo
  <2>2. CASE k = 1
    BY <1>3, <2>1, <2>2
  <2>3. CASE k # 1
    <3>1. k - 1 \in 1..Len(todo) - 1 /\ k - 1 + 1 = k
      BY <1>1, <2>3
    <3>2. Tail(todo)[k - 1] = todo[k]
      BY <1>2, <3>1
    <3> QED
      BY <1>2, <2>1, <3>1, <3>2
  <2> QED
    BY <2>2, <2>3
<1>6. Head(todo) \in ChunkZ /\ Head(todo).start <= Head(todo).stop
  BY <1>1, <1>3, ElementOfSeq
<1>7. \A k \in DOMAIN Tail(todo) : Tail(todo)[k].start <= Tail(todo)[k].stop
  BY <1>1, <1>2, <1>4
<1> QED
  BY <1>2, <1>5, <1>6, <1>7

LEMMA TodoHalved ==
  ASSUME todo \in Seq(ChunkZ), todo # <<>>, Head(todo).depth < MaxDepth,
         \A k \in DOMAIN todo : todo[k].start <= todo[k].stop,
         NEW new, new = Halves(Head(todo)) \o Tail(todo)
  PROVE  /\ new \in Seq(ChunkZ)
         /\ \A k \in DOMAIN new : new[k].start <= new[k].stop
         /\ \A i \in Nat, n \in 1..Overlap :
              InTodo(i, n) => \E k \in DOMAIN new : Inside(i, n, new[k])
<1> DEFINE t == Tail(todo)
<1>1. /\ Head(todo) \in ChunkZ /\ Head(todo).start <= Head(todo).stop
      /\ t \in Seq(ChunkZ)
      /\ \A k \in DOMAIN t : t[k].start <= t[k].stop
      /\ \A i, n : InTodo(i, n) =>
           Inside(i, n, Head(todo)) \/ \E k \in DOMAIN t : Inside(i, n, t[k])
  BY TodoTail
<1>2. PICK a, b : Halves(Head(todo)) = <<a, b>>
  BY DEF Halves
<1> HIDE DEF t
<1> DEFINE h == <<a, b>>
<1>2a. h[1] = a /\ h[2] = b
  OBVIOUS
<1>2b. Halves(Head(todo))[1] = a /\ Halves(Head(todo))[2] = b
  BY <1>2
<1>3. /\ a \in ChunkZ /\ a.start <= a.stop
      /\ b \in ChunkZ /\ b.start <= b.stop
      /\ \A i \in Nat, n \in 1..Overlap : Inside(i, n, Head(todo)) =>
           Inside(i, n, a) \/ Inside(i, n, b)
  BY <1>1, <1>2b, HalvesKeep
<1>4. h \in Seq(ChunkZ) /\ Len(h) = 2
  BY <1>3
<1>5. Len(t) \in Nat /\ DOMAIN t = 1..Len(t)
  BY <1>1, LenProperties
<1>6. new = h \o t
  BY <1>2 DEF t
<1> HIDE DEF h
<1>7. /\ new \in Seq(ChunkZ) /\ Len(new) = 2 + Len(t)
      /\ \A k \in 1..2 + Len(t) : new[k] = IF k <= 2 THEN h[k] ELSE t[k - 2]
  <2>1. /\ h \o t \in Seq(ChunkZ)
        /\ Len(h \o t) = Len(h) + Len(t)
        /\ \A k \in 1..Len(h) + Len(t) :
             (h \o t)[k] = IF k <= Len(h) THEN h[k] ELSE t[k - Len(h)]
    BY <1>1, <1>4, ConcatProperties
  <2> QED
    BY <1>4, <1>6, <2>1
<1>8. DOMAIN new = 1..2 + Len(t)
  BY <1>7, LenProperties
<1>9. new[1] = a /\ new[2] = b /\ 1 \in DOMAIN new /\ 2 \in DOMAIN new
  BY <1>2a, <1>5, <1>7, <1>8, SMTT(20)
<1>10. \A k \in 1..Len(t) : k + 2 \in DOMAIN new /\ new[k + 2] = t[k]
  BY <1>5, <1>7, <1>8
<1>11. ASSUME NEW k \in DOMAIN new PROVE new[k].start <= new[k].stop
  <2>1. CASE k \in {1, 2}
    BY <1>3, <1>9, <2>1
  <2>2. CASE k \notin {1, 2}
    <3>1. k - 2 \in 1..Len(t) /\ k - 2 + 2 = k
      BY <1>5, <1>8, <2>2
    <3>2. new[k] = t[k - 2]
      BY <1>10, <3>1
    <3> QED
      BY <1>1, <1>5, <3>1, <3>2
  <2> QED
    BY <2>1, <2>2
<1>12. ASSUME NEW i \in Nat, NEW n \in 1..Overlap, InTodo(i, n)
       PROVE  \E k \in DOMAIN new : Inside(i, n, new[k])
  <2>1. CASE Inside(i, n, Head(todo))
    BY <1>3, <1>9, <2>1
  <2>2. CASE \E k \in DOMAIN t : Inside(i, n, t[k])
    BY <1>5, <1>10, <2>2
  <2> QED
    BY <1>1, <1>12, <2>1, <2>2
<1> QED
  BY <1>7, <1>11, <1>12

-----------------------------------------------------------------------------
(* Every passage is shown.                                                 *)

LEMMA CoverStart == Init => CoverInv
<1> SUFFICES ASSUME Init PROVE CoverInv
  OBVIOUS
<1>1. Len(text) = 0 /\ todo \in Seq(ChunkZ) /\ DOMAIN todo = {}
  BY EmptySeq DEF Init
<1> QED
  BY <1>1 DEF Init, CoverInv, Shape, Kept

LEMMA ReadKeeps == CoverInv /\ ReadPages => CoverInv'
<1> SUFFICES ASSUME CoverInv, ReadPages PROVE CoverInv'
  OBVIOUS
<1>1. PICK read \in SUBSET DOMAIN Flagged : pages' = Merged(OcrSubpdf(read))
  BY DEF ReadPages
<1>2. pages' \in Seq(Seq(Words))
  BY <1>1, MergedPages DEF CoverInv, Shape
<1>3. PICK t : t = text'
  OBVIOUS
<1>4. t = Joined(pages')
  BY <1>3 DEF ReadPages
<1>5. Len(t) \in Nat /\ \A k \in 1..Len(t) : t[k].page \in Nat
  BY <1>2, <1>4, JoinedText
<1>6. t = <<>> => Len(t) = 0
  BY EmptySeq
<1>7. /\ doc' = doc /\ pos' = 0 /\ todo' = todo /\ failed' = failed /\ leaves' = leaves
      /\ phase' = IF t = <<>> THEN "ready" ELSE "chunking"
  BY <1>3 DEF ReadPages, CoverInv, Shape
<1>8. Shape'
  BY <1>3, <1>5, <1>7 DEF CoverInv, Shape
<1>9. Kept'
  BY <1>3, <1>5, <1>6, <1>7 DEF Kept
<1> QED
  BY <1>8, <1>9 DEF CoverInv

\* What passages there are depends on the text alone.
LEMMA SamePassages ==
  ASSUME UNCHANGED text
  PROVE  \A i, n : Passage(i, n)' <=> Passage(i, n)
BY DEF Passage, Heads

LEMMA ChunkKeeps ==
  ASSUME CoverInv, NEW e \in 1..Len(text), BuildChunk(e)
  PROVE  CoverInv'
<1>1. /\ phase = "chunking" /\ UNCHANGED <<doc, phase, text, leaves, failed>>
      /\ SectionEnds(pos, e) /\ Cut(e) /\ Shape
  BY DEF BuildChunk, CoverInv
<1>2. /\ pos' \in 0..Len(text)
      /\ todo' \in Seq(ChunkZ)
      /\ Len(todo') = Len(todo) + 1
      /\ \A k \in 1..Len(todo) : todo'[k] = todo[k]
      /\ todo'[Len(todo) + 1].start <= todo'[Len(todo) + 1].stop
      /\ \A i \in 0..Len(text) - 1, n \in 1..Overlap :
           Passage(i, n) /\ pos <= i /\ i < pos'
             => Inside(i, n, todo'[Len(todo) + 1])
  BY <1>1, CutKeeps
<1>3. PICK new : new = todo'
  OBVIOUS
<1>4. PICK p : p = pos'
  OBVIOUS
<1>5. Len(todo) \in Nat /\ DOMAIN todo = 1..Len(todo)
  BY <1>1, LenProperties DEF Shape
<1>6. DOMAIN new = 1..Len(todo) + 1
  BY <1>2, <1>3, LenProperties
<1>7. ASSUME NEW k \in DOMAIN new PROVE new[k].start <= new[k].stop
  <2>1. CASE k = Len(todo) + 1
    BY <1>2, <1>3, <2>1
  <2>2. CASE k # Len(todo) + 1
    <3>1. k \in 1..Len(todo)
      BY <1>5, <1>6, <2>2
    <3> QED
      BY <1>1, <1>2, <1>3, <1>5, <3>1 DEF Shape
  <2> QED
    BY <2>1, <2>2
<1>8. Shape'
  BY <1>1, <1>2, <1>3, <1>7 DEF Shape
<1>9. ASSUME NEW i \in 0..Len(text) - 1, NEW n \in 1..Overlap, Passage(i, n), i < p
      PROVE  \E k \in DOMAIN new : Inside(i, n, new[k])
  <2>1. CASE i < pos
    <3>1. PICK k \in DOMAIN todo : Inside(i, n, todo[k])
      BY <1>1, <1>9, <2>1 DEF CoverInv, Kept, InTodo
    <3>2. k \in DOMAIN new /\ new[k] = todo[k]
      BY <1>2, <1>3, <1>5, <1>6, <3>1
    <3> QED
      BY <3>1, <3>2
  <2>2. CASE pos <= i
    <3>1. Len(todo) + 1 \in DOMAIN new
      BY <1>5, <1>6
    <3> QED
      BY <1>2, <1>3, <1>4, <1>9, <2>2, <3>1
  <2>3. i \in Int /\ pos \in Int
    BY <1>1 DEF Shape
  <2> QED
    BY <2>1, <2>2, <2>3
<1>10. Kept'
  BY <1>1, <1>3, <1>4, <1>9, SamePassages DEF Kept, InTodo, Inside
<1> QED
  BY <1>8, <1>10 DEF CoverInv

LEMMA MarkerKeeps == CoverInv /\ BuildMarker => CoverInv'
<1> SUFFICES ASSUME CoverInv, BuildMarker PROVE CoverInv'
  OBVIOUS
<1>1. /\ phase = "chunking" /\ pos = 0 /\ Len(text) > 0 /\ Shape
      /\ UNCHANGED <<doc, phase, text, pos, leaves, failed>>
  BY DEF BuildMarker, MarkerDue, CoverInv
<1>2. PICK c : /\ c = [start |-> 0, stop |-> 0, from |-> 1, to |-> PageAt(0), depth |-> 0]
               /\ todo' = <<c>>
  BY DEF BuildMarker
<1>3. PageAt(0) \in Nat
  BY <1>1 DEF PageAt, Shape
<1>4. c \in ChunkZ /\ c.start <= c.stop
  BY <1>2, <1>3, MiningBounds DEF ChunkZ
<1>5. todo' \in Seq(ChunkZ) /\ \A k \in DOMAIN todo' : todo'[k] = c
  BY <1>2, <1>4
<1>6. Shape'
  BY <1>1, <1>4, <1>5 DEF Shape
<1>7. Kept'
  BY <1>1 DEF Kept
<1> QED
  BY <1>6, <1>7 DEF CoverInv

LEMMA MiningStarts == CoverInv /\ StartMining => CoverInv'
<1> SUFFICES ASSUME CoverInv, StartMining PROVE CoverInv'
  OBVIOUS
<1>1. /\ phase = "chunking" /\ phase' = "mining" /\ pos = Len(text)
      /\ UNCHANGED <<doc, text, pos, todo, leaves, failed>>
  BY DEF StartMining
<1>2. Shape'
  BY <1>1 DEF CoverInv, Shape
<1>3. ASSUME NEW i \in 0..Len(text) - 1, NEW n \in 1..Overlap, Passage(i, n)
      PROVE  InTodo(i, n)
  <2>1. i < pos
    BY <1>1 DEF CoverInv, Shape
  <2> QED
    BY <1>1, <1>3, <2>1 DEF CoverInv, Kept
<1>4. Kept'
  BY <1>1, <1>3, SamePassages DEF Kept, InTodo, Inside
<1> QED
  BY <1>2, <1>4 DEF CoverInv

\* After a step of mining, CoverInv holds if what it does to the chunks and the
\* calls loses no passage.
LEMMA MinedOn ==
  ASSUME CoverInv, phase' \in {"mining", "failed"}, UNCHANGED <<doc, text, pos>>,
         failed' \in Nat,
         NEW new, new = todo', new \in Seq(ChunkZ),
         \A k \in DOMAIN new : new[k].start <= new[k].stop,
         NEW shown, shown = leaves',
         \A i \in 0..Len(text) - 1, n \in 1..Overlap : Passage(i, n) =>
           \/ phase' = "failed"
           \/ failed' > 0
           \/ \E k \in DOMAIN new : Inside(i, n, new[k])
           \/ \E l \in shown : Inside(i, n, l)
  PROVE  CoverInv'
<1>1. Shape'
  BY DEF CoverInv, Shape
<1>2. Kept'
  BY SamePassages DEF Kept, InTodo, Shown, Inside
<1> QED
  BY <1>1, <1>2 DEF CoverInv

LEMMA ProcessKeeps == CoverInv /\ ProcessChunk => CoverInv'
<1> SUFFICES ASSUME CoverInv, ProcessChunk PROVE CoverInv'
  OBVIOUS
<1> DEFINE c == Head(todo)
<1>1. /\ phase = "mining" /\ todo # <<>> /\ Process(c)
      /\ todo \in Seq(ChunkZ) /\ \A k \in DOMAIN todo : todo[k].start <= todo[k].stop
      /\ failed \in Nat
  BY DEF ProcessChunk, CoverInv, Shape
<1>2. ASSUME NEW i \in 0..Len(text) - 1, NEW n \in 1..Overlap, Passage(i, n)
      PROVE  failed > 0 \/ InTodo(i, n) \/ Shown(i, n)
  BY <1>1, <1>2 DEF CoverInv, Kept
<1>3. /\ Tail(todo) \in Seq(ChunkZ)
      /\ \A k \in DOMAIN Tail(todo) : Tail(todo)[k].start <= Tail(todo)[k].stop
      /\ \A i, n : InTodo(i, n) =>
           \/ Inside(i, n, c)
           \/ \E k \in DOMAIN Tail(todo) : Inside(i, n, Tail(todo)[k])
  BY <1>1, TodoTail
<1>4. PICK new : new = todo'
  OBVIOUS
<1>5. PICK shown : shown = leaves'
  OBVIOUS
<1>6. ASSUME UNCHANGED <<doc, phase, text, pos, todo, leaves, failed>>
      PROVE  CoverInv'
  <2>1. \A i \in 0..Len(text) - 1, n \in 1..Overlap : Passage(i, n) =>
          \/ failed' > 0
          \/ \E k \in DOMAIN new : Inside(i, n, new[k])
          \/ \E l \in shown : Inside(i, n, l)
    BY <1>2, <1>4, <1>5, <1>6 DEF InTodo, Shown
  <2> QED
    BY <1>1, <1>4, <1>5, <1>6, <2>1, MinedOn
<1>7. ASSUME Halve(c) PROVE CoverInv'
  <2>1. /\ c.depth < MaxDepth /\ new = Halves(c) \o Tail(todo)
        /\ UNCHANGED <<doc, phase, text, pos, leaves, failed>>
    BY <1>4, <1>7 DEF Halve
  <2>2. /\ new \in Seq(ChunkZ)
        /\ \A k \in DOMAIN new : new[k].start <= new[k].stop
        /\ \A i \in Nat, n \in 1..Overlap :
             InTodo(i, n) => \E k \in DOMAIN new : Inside(i, n, new[k])
    BY <1>1, <2>1, TodoHalved
  <2>3. \A i \in 0..Len(text) - 1 : i \in Nat
    OBVIOUS
  <2>4. \A i \in 0..Len(text) - 1, n \in 1..Overlap : Passage(i, n) =>
          \/ failed' > 0
          \/ \E k \in DOMAIN new : Inside(i, n, new[k])
          \/ \E l \in shown : Inside(i, n, l)
    BY <1>2, <1>5, <2>1, <2>2, <2>3 DEF Shown
  <2> QED
    BY <1>1, <1>4, <1>5, <2>1, <2>2, <2>4, MinedOn
<1>8. ASSUME todo' = Tail(todo), failed' = failed + 1,
             UNCHANGED <<doc, phase, text, pos, leaves>>
      PROVE  CoverInv'
  <2>1. failed' \in Nat /\ failed' > 0
    BY <1>1, <1>8
  <2>2. /\ new \in Seq(ChunkZ)
        /\ \A k \in DOMAIN new : new[k].start <= new[k].stop
    BY <1>3, <1>4, <1>8
  <2> QED
    BY <1>1, <1>4, <1>5, <1>8, <2>1, <2>2, MinedOn
<1>9. ASSUME NEW found, Reply(c, found) PROVE CoverInv'
  <2>1. /\ new = Tail(todo)
        /\ shown = leaves \cup {[start |-> c.start, stop |-> c.stop]}
        /\ UNCHANGED <<doc, phase, text, pos, failed>>
    BY <1>4, <1>5, <1>9 DEF Reply
  <2>2. ASSUME NEW i, NEW n, Inside(i, n, c)
        PROVE  \E l \in shown : Inside(i, n, l)
    <3>1. Inside(i, n, [start |-> c.start, stop |-> c.stop])
      BY <2>2 DEF Inside
    <3> QED
      BY <2>1, <3>1
  <2>3. \A i, n : Shown(i, n) => \E l \in shown : Inside(i, n, l)
    BY <2>1 DEF Shown
  <2>4. \A i \in 0..Len(text) - 1, n \in 1..Overlap : Passage(i, n) =>
          \/ failed' > 0
          \/ \E k \in DOMAIN new : Inside(i, n, new[k])
          \/ \E l \in shown : Inside(i, n, l)
    BY <1>2, <1>3, <2>1, <2>2, <2>3
  <2> QED
    BY <1>1, <1>3, <1>4, <1>5, <2>1, <2>4, MinedOn
<1>10. CASE HalveFirst(c)
  BY <1>7, <1>10 DEF HalveFirst
<1>11. CASE CallUnavailable(c)
  BY <1>6, <1>11 DEF CallUnavailable
<1>12. CASE CallFails(c)
  <2>1. phase' = "failed" /\ UNCHANGED <<doc, text, pos, todo, leaves, failed>>
    BY <1>12 DEF CallFails
  <2> QED
    BY <1>1, <1>4, <1>5, <2>1, MinedOn
<1>13. CASE HalveAfter(c)
  BY <1>7, <1>13 DEF HalveAfter
<1>14. CASE TooDeep(c)
  BY <1>8, <1>14 DEF TooDeep
<1>15. CASE Malformed(c)
  BY <1>6, <1>8, <1>15 DEF Malformed
<1>16. CASE \E found \in Replies(c) : Reply(c, found)
  BY <1>9, <1>16
<1> HIDE DEF c
<1> QED
  BY <1>1, <1>10, <1>11, <1>12, <1>13, <1>14, <1>15, <1>16 DEF Process

LEMMA RestKeeps ==
  CoverInv /\ (EndMining \/ Audit \/ ReadFails \/ ChunkCapExceeded \/ UNCHANGED vars)
    => CoverInv'
<1> SUFFICES ASSUME CoverInv, EndMining \/ Audit \/ ReadFails \/ ChunkCapExceeded \/ UNCHANGED vars
             PROVE  CoverInv'
  OBVIOUS
<1>1. UNCHANGED <<doc, text, pos, todo, leaves, failed>>
  BY DEF EndMining, Audit, ReadFails, ChunkCapExceeded, Fail, vars
<1>2. phase' \in {"failed", "auditing", "ready"} \/ phase' = phase
  BY DEF EndMining, Audit, ReadFails, ChunkCapExceeded, Fail, vars
<1>3. Shape'
  BY <1>1, <1>2 DEF CoverInv, Shape
<1>4. ASSUME NEW i \in 0..Len(text) - 1, NEW n \in 1..Overlap, Passage(i, n),
             phase' # phase, phase' \in {"auditing", "ready"}
      PROVE  Shown(i, n)
  <2>1. CASE EndMining
    <3>1. phase = "mining" /\ todo = <<>> /\ ~(failed > 0)
      BY <1>4, <2>1 DEF EndMining
    <3>2. ~InTodo(i, n)
      BY <3>1, EmptySeq DEF InTodo
    <3> QED
      BY <1>4, <3>1, <3>2 DEF CoverInv, Kept
  <2>2. CASE Audit
    BY <1>4, <2>2 DEF Audit, CoverInv, Kept
  <2> QED
    BY <1>4, <2>1, <2>2 DEF ReadFails, ChunkCapExceeded, Fail, vars
<1>5. Kept'
  <2>1. CASE phase' = phase
    BY <1>1, <2>1, SamePassages DEF CoverInv, Kept, InTodo, Shown, Inside
  <2>2. CASE phase' # phase
    BY <1>1, <1>2, <1>4, <2>2, SamePassages DEF Kept, Shown, Inside
  <2> QED
    BY <2>1, <2>2
<1> QED
  BY <1>3, <1>5 DEF CoverInv

\* At every moment every passage is ahead of build_chunks, in a chunk still to
\* do, in the text of a call whose reply was kept, or a chunk was given up.
THEOREM CoverInvariance == Spec => []CoverInv
<1>1. Init => CoverInv
  BY CoverStart
<1>2. CoverInv /\ [Next]_vars => CoverInv'
  <2> SUFFICES ASSUME CoverInv, [Next]_vars PROVE CoverInv'
    OBVIOUS
  <2>1. CASE \E e \in 1..Len(text) : BuildChunk(e)
    BY <2>1, ChunkKeeps
  <2> QED
    BY <2>1, ReadKeeps, MarkerKeeps, MiningStarts, ProcessKeeps, RestKeeps DEF Next
<1> QED
  BY <1>1, <1>2, PTL DEF Spec

\* A run is published only when every passage of a section, up to the length of
\* the overlap, was whole in the text of a call whose reply was kept: for every
\* document, chunk size, overlap, limit on halving and number of retries.
THEOREM EveryPassageShown == Spec => []Covered
<1>1. CoverInv => Covered
  BY DEF CoverInv, Kept, Shown, Inside, Covered
<1> QED
  BY <1>1, CoverInvariance, PTL

-----------------------------------------------------------------------------
(* Rows cite pages that have their wording.                                *)

\* A page is as printed or empty, items are written by the calls and rows by
\* the audit only.
CiteInv ==
  /\ doc \in Documents
  /\ DOMAIN pages \subseteq DOMAIN doc.pages
  /\ \A p \in DOMAIN pages : pages[p] \in {doc.pages[p], <<>>}
  /\ \A i \in items : i = [words |-> i.words, page |-> i.page]
  /\ phase \in {"reading", "chunking"} => items = {}
  /\ phase # "ready" => rows = {}
  /\ CitedWhereItIs

LEMMA RepliesAreItems ==
  ASSUME NEW c, NEW found \in Replies(c), NEW i \in found
  PROVE  LET j == [i EXCEPT !.page = Clamp(c, @)]
         IN j = [words |-> j.words, page |-> j.page]
<1>1. i \in [words: {text[p + 1].words : p \in c.start..c.stop - 1} \cup {Invented},
             page: 0..Len(pages) + 1]
  BY DEF Replies
<1>2. PICK w, p : i = [words |-> w, page |-> p]
  BY <1>1
<1> QED
  BY <1>2

LEMMA AuditCites == CiteInv /\ Audit => CiteInv'
<1> SUFFICES ASSUME CiteInv, Audit PROVE CiteInv'
  OBVIOUS
<1>1. /\ rows' = {i \in {Located(j) : j \in items} : ~AuditFailure(i)}
      /\ phase' = "ready" /\ UNCHANGED <<doc, pages, items>>
  BY DEF Audit
<1>2. PICK new : new = rows'
  OBVIOUS
<1>3. ASSUME NEW r \in new PROVE r.words \in Range(doc.pages[r.page])
  <2>1. r.page \in DOMAIN pages /\ r.words \in Range(pages[r.page])
    BY <1>1, <1>2, <1>3 DEF AuditFailure, On
  <2>2. pages[r.page] # <<>>
    BY <2>1, EmptySeq DEF Range
  <2> QED
    BY <2>1, <2>2 DEF CiteInv
<1>4. ASSUME NEW i \in items, NEW p \in DOMAIN pages, On(i.words) = {p}
      PROVE  [words |-> i.words, page |-> p] \in new
  <2> DEFINE j == [words |-> i.words, page |-> p]
  <2>1. Cardinality(On(i.words)) = 1
    BY <1>4, FS_Singleton
  <2>2. (CHOOSE q \in On(i.words) : TRUE) = p
    BY <1>4
  <2>3. PICK w, q : i = [words |-> w, page |-> q]
    BY DEF CiteInv
  <2>4. Located(i) = [i EXCEPT !.page = p]
    BY <2>1, <2>2 DEF Located
  <2>5. Located(i) = j
    BY <2>3, <2>4
  <2>6. j.page \in On(j.words)
    BY <1>4
  <2>7. ~AuditFailure(j)
    BY <2>6 DEF AuditFailure
  <2> HIDE DEF j
  <2>8. j \in new
    BY <1>1, <1>2, <2>5, <2>7
  <2> QED
    BY <2>8 DEF j
<1>5. CitedWhereItIs'
  BY <1>1, <1>2, <1>3, <1>4 DEF CitedWhereItIs, On
<1> QED
  BY <1>1, <1>5 DEF CiteInv

LEMMA CiteStep == CiteInv /\ [Next]_vars => CiteInv'
<1> SUFFICES ASSUME CiteInv, [Next]_vars PROVE CiteInv'
  OBVIOUS
<1>1. ASSUME UNCHANGED <<doc, pages, items, rows>>, phase # "ready",
             phase' # "ready",
             phase' \in {"reading", "chunking"} => phase \in {"reading", "chunking"}
      PROVE  CiteInv'
  BY <1>1 DEF CiteInv, CitedWhereItIs
<1>2. CASE ReadPages
  <2>1. PICK read \in SUBSET DOMAIN Flagged : pages' = Merged(OcrSubpdf(read))
    BY <1>2 DEF ReadPages
  <2>2. PICK ps : ps = pages'
    OBVIOUS
  <2>3. DOMAIN ps = DOMAIN doc.pages /\ \A p \in DOMAIN ps : ps[p] \in {doc.pages[p], <<>>}
    BY <2>1, <2>2, MergedPages DEF CiteInv
  <2>4. doc' = doc /\ items' = {} /\ rows' = {}
    BY <1>2 DEF ReadPages, CiteInv
  <2> QED
    BY <2>2, <2>3, <2>4 DEF CiteInv, CitedWhereItIs
<1>3. CASE ReadFails
  BY <1>1, <1>3 DEF ReadFails, Fail
<1>4. CASE BuildMarker \/ \E e \in 1..Len(text) : BuildChunk(e)
  BY <1>1, <1>4 DEF BuildMarker, BuildChunk
<1>5. CASE StartMining
  BY <1>1, <1>5 DEF StartMining
<1>6. CASE ChunkCapExceeded
  BY <1>1, <1>6 DEF ChunkCapExceeded, Fail
<1>7. CASE ProcessChunk
  <2> DEFINE c == Head(todo)
  <2>1. phase = "mining" /\ Process(c)
    BY <1>7 DEF ProcessChunk
  <2>2. CASE \E found \in Replies(c) : Reply(c, found)
    <3>1. PICK found \in Replies(c) : Reply(c, found)
      BY <2>2
    <3>2. /\ items' = items \cup {[i EXCEPT !.page = Clamp(c, @)] : i \in found}
          /\ UNCHANGED <<doc, phase, pages, rows>>
      BY <3>1 DEF Reply
    <3>3. ASSUME NEW k \in items' PROVE k = [words |-> k.words, page |-> k.page]
      <4>1. CASE k \in items
        BY <4>1 DEF CiteInv
      <4>2. CASE k \notin items
        <5>1. PICK i \in found : k = [i EXCEPT !.page = Clamp(c, @)]
          BY <3>2, <3>3, <4>2
        <5> DEFINE j == [i EXCEPT !.page = Clamp(c, @)]
        <5>2. j = [words |-> j.words, page |-> j.page]
          BY RepliesAreItems
        <5>3. k = j
          BY <5>1
        <5> HIDE DEF j
        <5> QED
          BY <5>2, <5>3
      <4> QED
        BY <4>1, <4>2
    <3> QED
      BY <2>1, <3>2, <3>3 DEF CiteInv, CitedWhereItIs
  <2>3. CASE CallFails(c)
    BY <1>1, <2>1, <2>3 DEF CallFails
  <2>4. CASE HalveFirst(c) \/ HalveAfter(c)
    BY <1>1, <2>1, <2>4 DEF HalveFirst, HalveAfter, Halve
  <2>5. CASE CallUnavailable(c) \/ TooDeep(c) \/ Malformed(c)
    BY <1>1, <2>1, <2>5 DEF CallUnavailable, TooDeep, Malformed
  <2> HIDE DEF c
  <2> QED
    BY <2>1, <2>2, <2>3, <2>4, <2>5 DEF Process
<1>8. CASE EndMining
  BY <1>1, <1>8 DEF EndMining
<1>9. CASE Audit
  BY <1>9, AuditCites
<1>10. CASE UNCHANGED vars
  BY <1>10 DEF vars, CiteInv, CitedWhereItIs, On
<1> QED
  BY <1>2, <1>3, <1>4, <1>5, <1>6, <1>7, <1>8, <1>9, <1>10 DEF Next

\* However OCR came back, whatever page the model claimed and halving guessed, a
\* published row cites a page of the document as printed that has its wording,
\* and wording that one page has is published with that page.
THEOREM RowsCiteTheirPage == Spec => []CitedWhereItIs
<1>1. Init => CiteInv
  BY EmptySeq DEF Init, CiteInv, CitedWhereItIs
<1>2. CiteInv => CitedWhereItIs
  BY DEF CiteInv
<1> QED
  BY <1>1, <1>2, CiteStep, PTL DEF Spec
-----------------------------------------------------------------------------
(* Types: the text.                                                        *)

Unit == [words: Words, page: Nat]

LEMMA LeastElement ==
  ASSUME NEW T \in SUBSET Nat, T # {}
  PROVE  \E x \in T : \A y \in T : x <= y
<1>1. IsWellFoundedOn(OpToRel(<, Nat), Nat)
  BY NatLessThanWellFounded
<1>2. \E x \in T : \A y \in T : ~ (<<y, x>> \in OpToRel(<, Nat))
  BY <1>1, WFMin
<1>3. \A x, y \in T : <<y, x>> \notin OpToRel(<, Nat) => x <= y
  BY DEF OpToRel
<1> QED
  BY <1>2, <1>3

LEMMA PairsCounted ==
  ASSUME NEW p, NEW n \in Nat
  PROVE  IsFiniteSet({p} \X (1..n)) /\ Cardinality({p} \X (1..n)) = n
<1>1. PICK S, T : S = {p} /\ T = 1..n
  OBVIOUS
<1>2. IsFiniteSet(S) /\ Cardinality(S) = 1
  BY <1>1, FS_Singleton
<1>3. IsFiniteSet(T) /\ Cardinality(T) = n
  BY <1>1, FS_Interval
<1>4. IsFiniteSet(S \X T) /\ Cardinality(S \X T) = Cardinality(S) * Cardinality(T)
  BY <1>2, <1>3, FS_Product
<1>5. 1 * n = n
  OBVIOUS
<1> QED
  BY <1>1, <1>2, <1>3, <1>4, <1>5

LEMMA StartAdds ==
  ASSUME NEW ps \in Seq(Seq(Words))
  PROVE  /\ StartOf(ps, 1) = 0
         /\ \A p \in 1..Len(ps) : StartOf(ps, p + 1) = StartOf(ps, p) + Len(ps[p])
         /\ \A p \in 1..Len(ps) + 1 : \A q \in 1..p : StartOf(ps, q) <= StartOf(ps, p)
<1>1. Len(ps) \in Nat
  BY LenProperties
<1>2. StartOf(ps, 1) = 0
  <2>1. Before(ps, 1) = {}
    BY DEF Before
  <2>2. 1 \in 1..Len(ps) + 1
    BY <1>1
  <2> QED
    BY <2>1, <2>2, BeforeFinite, FS_EmptySet
<1>3. ASSUME NEW p \in 1..Len(ps)
      PROVE  StartOf(ps, p + 1) = StartOf(ps, p) + Len(ps[p])
  <2> DEFINE U == Before(ps, p)
             V == {p} \X DOMAIN ps[p]
             n == Len(ps[p])
  <2>1. p \in 1..Len(ps) + 1 /\ p + 1 \in 1..Len(ps) + 1
    BY <1>1
  <2>2. IsFiniteSet(U) /\ StartOf(ps, p) = Cardinality(U)
        /\ StartOf(ps, p + 1) = Cardinality(Before(ps, p + 1))
    BY <2>1, BeforeFinite
  <2>3. ps[p] \in Seq(Words)
    BY ElementOfSeq
  <2>4. DOMAIN ps[p] = 1..n /\ n \in Nat
    BY <2>3, LenProperties
  <2>6. IsFiniteSet(V) /\ Cardinality(V) = n
    BY <2>4, PairsCounted
  <2>7. Before(ps, p + 1) = U \cup V
    <3>1. 1..(p + 1) - 1 = (1..p - 1) \cup {p}
      OBVIOUS
    <3> QED
      BY <3>1 DEF Before
  <2>8. U \cap V = {}
    BY DEF Before
  <2>9. Cardinality(U \cap V) = 0
    BY <2>8, FS_EmptySet
  <2> HIDE DEF U, V, n
  <2>10. Cardinality(U \cup V) = Cardinality(U) + Cardinality(V) - Cardinality(U \cap V)
    BY <2>2, <2>6, FS_Union
  <2>11. Cardinality(U) \in Nat
    BY <2>2, FS_CardinalityType
  <2>12. StartOf(ps, p + 1) = StartOf(ps, p) + n
    <3>1. PICK a \in Nat, b \in Nat : a = Cardinality(U) /\ b = n
      BY <2>4, <2>11
    <3>2. Cardinality(U \cup V) = a + b - 0
      BY <2>6, <2>9, <2>10, <3>1
    <3>3. Cardinality(U \cup V) = a + b
      BY <3>2
    <3> QED
      BY <2>2, <2>7, <3>1, <3>3
  <2> QED
    BY <2>12 DEF n
<1>4. ASSUME NEW p \in 1..Len(ps) + 1, NEW q \in 1..p
      PROVE  StartOf(ps, q) <= StartOf(ps, p)
  <2>1. q \in 1..Len(ps) + 1
    BY <1>1
  <2>2. Before(ps, q) \subseteq Before(ps, p)
    <3>1. 1..q - 1 \subseteq 1..p - 1
      BY <1>1
    <3> QED
      BY <3>1 DEF Before
  <2> QED
    BY <2>1, <2>2, BeforeFinite, FS_Subset
<1> QED
  BY <1>2, <1>3, <1>4

\* Each unit says what its page says there.
LEMMA JoinedTyped == ASSUME NEW ps \in Seq(Seq(Words)) PROVE Joined(ps) \in Seq(Unit)
<1> DEFINE L == Len(ps)
           n == StartOf(ps, L + 1)
<1>1. L \in Nat /\ DOMAIN ps = 1..L
  BY LenProperties
<1>2. \A p \in 1..L + 1 : StartOf(ps, p) \in Nat
  BY StartIsNat
<1>3. n \in Nat
  BY <1>1, <1>2
<1>4. ASSUME NEW k \in 1..n PROVE Joined(ps)[k] \in Unit
  <2> DEFINE P == {q \in DOMAIN ps : StartOf(ps, q) < k}
             T == {q \in 1..L + 1 : StartOf(ps, q) >= k}
  <2>1. Joined(ps)[k] = [words |-> ps[Cardinality(P)][k - StartOf(ps, Cardinality(P))],
                         page |-> Cardinality(P)]
    BY DEF Joined
  <2>2. T \in SUBSET Nat /\ T # {}
    BY <1>1, <1>3
  <2>3. PICK x \in T : \A y \in T : x <= y
    BY <2>2, LeastElement
  <2>4. x \in 1..L + 1 /\ StartOf(ps, x) >= k
    BY <2>3
  <2>5. x # 1
    BY <2>4, StartAdds
  <2> DEFINE m == x - 1
  <2>6. m \in 1..L /\ m + 1 = x /\ m \in 1..L + 1
    BY <1>1, <2>4, <2>5
  <2>7. StartOf(ps, m) < k
    <3>1. m \notin T
      BY <2>3, <2>6
    <3> QED
      BY <1>2, <2>6, <3>1
  <2>8. \A q \in 1..L : q <= m => StartOf(ps, q) < k
    <3> SUFFICES ASSUME NEW q \in 1..L, q <= m PROVE StartOf(ps, q) < k
      OBVIOUS
    <3>1. q \in 1..m /\ q \in 1..L + 1
      BY <1>1, <2>6
    <3>2. StartOf(ps, q) <= StartOf(ps, m)
      BY <2>6, <3>1, StartAdds
    <3>3. PICK a \in Nat, b \in Nat : a = StartOf(ps, q) /\ b = StartOf(ps, m)
      BY <1>2, <2>6, <3>1
    <3>4. a <= b /\ b < k => a < k
      OBVIOUS
    <3> QED
      BY <2>7, <3>2, <3>3, <3>4
  <2>9. \A q \in 1..L : ~(q <= m) => ~(StartOf(ps, q) < k)
    <3> SUFFICES ASSUME NEW q \in 1..L, ~(q <= m) PROVE ~(StartOf(ps, q) < k)
      OBVIOUS
    <3>1. q \in 1..L + 1 /\ x \in 1..q
      BY <1>1, <2>4, <2>6
    <3>2. StartOf(ps, x) <= StartOf(ps, q)
      BY <3>1, StartAdds
    <3> QED
      BY <1>2, <2>4, <3>1, <3>2
  <2>10. P = 1..m
    <3> HIDE DEF m
    <3>1. \A q \in 1..L : q \in P <=> q <= m
      BY <1>1, <2>8, <2>9
    <3>2. P \subseteq 1..L
      BY <1>1
    <3>3. 1..m \subseteq 1..L
      BY <1>1, <2>6
    <3> HIDE DEF P
    <3>4. \A q \in 1..m : q <= m
      BY <2>6
    <3>5. \A q \in 1..L : q <= m => q \in 1..m
      BY <1>1, <2>6
    <3> QED
      BY <3>1, <3>2, <3>3, <3>4, <3>5
  <2>11. Cardinality(P) = m
    <3>1. m \in Nat
      BY <2>6
    <3> HIDE DEF P, m
    <3> QED
      BY <2>10, <3>1, FS_Interval
  <2> HIDE DEF P, T, m
  <2>12. Joined(ps)[k] = [words |-> ps[m][k - StartOf(ps, m)], page |-> m]
    BY <2>1, <2>11
  <2>13. ps[m] \in Seq(Words)
    BY <2>6, ElementOfSeq
  <2>14. Len(ps[m]) \in Nat
    BY <2>13, LenProperties
  <2>15. StartOf(ps, x) = StartOf(ps, m) + Len(ps[m])
    BY <2>6, StartAdds
  <2>16. k - StartOf(ps, m) \in 1..Len(ps[m])
    BY <1>2, <2>4, <2>6, <2>7, <2>14, <2>15
  <2>17. ps[m][k - StartOf(ps, m)] \in Words
    BY <2>13, <2>16, ElementOfSeq
  <2> QED
    BY <2>6, <2>12, <2>17 DEF Unit
<1>5. Joined(ps) \in [1..n -> Unit]
  <2>1. Joined(ps) = [k \in 1..n |-> Joined(ps)[k]]
    BY DEF Joined
  <2> HIDE DEF n
  <2> QED
    BY <1>4, <2>1
<1> HIDE DEF n
<1> QED
  BY <1>3, <1>5, FcnIsSeq

-----------------------------------------------------------------------------
(* Types: chunks, items and rows.  A chunk stays inside the text.          *)

Fitting == {c \in Chunk : c.start <= c.stop /\ c.stop <= Len(text)}

Parts ==
  /\ doc \in Documents
  /\ phase \in {"reading", "chunking", "mining", "auditing", "ready", "failed"}
  /\ phase = "reading" => pos = 0 /\ todo = <<>>
  /\ pages \in Seq(Seq(Words)) /\ text \in Seq(Unit)
  /\ pos \in 0..Len(text)
  /\ todo \in Seq(Fitting)
  /\ attempt \in 0..1 /\ sent \in 0..Retries - 1
  /\ leaves \subseteq [start: Nat, stop: Nat]
  /\ failed \in Nat
  /\ items \subseteq Item /\ rows \subseteq Item

LEMMA UnitsTyped ==
  ASSUME Parts
  PROVE  /\ Len(text) \in Nat
         /\ \A k \in 1..Len(text) : text[k].words \in Words /\ text[k].page \in Nat
<1>1. text \in Seq(Unit)
  BY DEF Parts
<1>2. Len(text) \in Nat
  BY <1>1, LenProperties
<1>3. \A k \in 1..Len(text) : text[k] \in Unit
  BY <1>1, ElementOfSeq
<1> QED
  BY <1>2, <1>3 DEF Unit

LEMMA FirstFits ==
  ASSUME Parts, todo # <<>>
  PROVE  /\ Head(todo) \in Fitting /\ Head(todo) = todo[1] /\ Tail(todo) \in Seq(Fitting)
         /\ Len(todo) \in Nat /\ Len(todo) >= 1 /\ DOMAIN todo = 1..Len(todo)
<1>1. todo \in Seq(Fitting)
  BY DEF Parts
<1>2. Len(todo) \in Nat /\ Len(todo) >= 1 /\ DOMAIN todo = 1..Len(todo)
  BY <1>1, EmptySeq, LenProperties
<1>3. Head(todo) = todo[1] /\ Tail(todo) \in Seq(Fitting)
  BY <1>1, <1>2
<1> QED
  BY <1>1, <1>2, <1>3, ElementOfSeq

LEMMA HalvesFit ==
  ASSUME Parts, NEW c \in Fitting, c.depth < MaxDepth
  PROVE  \E a, b \in Fitting : /\ Halves(c) = <<a, b>>
                               /\ a.depth = c.depth + 1 /\ b.depth = c.depth + 1
<1> DEFINE mid == (c.stop - c.start) \div 2
           lap == IF Overlap \div 2 < mid THEN Overlap \div 2 ELSE mid
           page == c.from + (c.to - c.from) \div 2
           a == [c EXCEPT !.stop = c.start + mid + lap, !.to = page, !.depth = @ + 1]
           b == [c EXCEPT !.start = c.start + mid - lap, !.from = page, !.depth = @ + 1]
<1>1. /\ c \in Chunk /\ c.start \in Nat /\ c.stop \in Nat /\ c.from \in Nat /\ c.to \in Nat
      /\ c.depth \in 0..MaxDepth /\ MaxDepth \in Nat /\ Overlap \in Nat
      /\ c.start <= c.stop /\ c.stop <= Len(text) /\ Len(text) \in Nat
  BY MiningBounds, UnitsTyped DEF Fitting, Chunk
<1>2. mid \in Nat /\ 2 * mid <= c.stop - c.start /\ lap \in Nat /\ lap <= mid
  BY <1>1, SMTT(20)
<1>3. page \in Nat
  BY <1>1
<1>4. Halves(c) = <<a, b>>
  BY DEF Halves
<1> HIDE DEF mid, lap, page
<1>5. /\ c.depth + 1 \in 0..MaxDepth /\ c.start + mid + lap \in Nat
      /\ c.start + mid - lap \in Nat /\ c.start <= c.start + mid + lap
      /\ c.start + mid + lap <= Len(text) /\ c.start + mid - lap <= c.stop
  <2>1. PICK x \in Nat, y \in Nat, n \in Nat, m \in Nat, l \in Nat :
          x = c.start /\ y = c.stop /\ n = Len(text) /\ m = mid /\ l = lap
    BY <1>1, <1>2
  <2>2. 2 * m <= y - x /\ l <= m /\ x <= y /\ y <= n
    BY <1>1, <1>2, <2>1
  <2>3. x + m + l \in Nat /\ x + m - l \in Nat /\ x <= x + m + l /\ x + m + l <= n
        /\ x + m - l <= y
    BY <2>2
  <2>4. c.depth + 1 \in 0..MaxDepth
    BY <1>1
  <2>5. c.start + mid + lap = x + m + l /\ c.start + mid - lap = x + m - l
    BY <2>1
  <2> QED
    BY <2>1, <2>3, <2>4, <2>5, Zenon
<1>6. /\ a \in Chunk /\ a.start = c.start /\ a.stop = c.start + mid + lap
      /\ b \in Chunk /\ b.start = c.start + mid - lap /\ b.stop = c.stop
      /\ a.depth = c.depth + 1 /\ b.depth = c.depth + 1
  BY <1>1, <1>3, <1>5 DEF Chunk
<1> HIDE DEF a, b
<1>7. a \in Fitting /\ b \in Fitting
  BY <1>1, <1>5, <1>6 DEF Fitting
<1> QED
  BY <1>4, <1>6, <1>7

LEMMA PartsStart == Init => Parts
BY EmptySeq, MiningBounds DEF Init, Parts

LEMMA ReadTyped == Parts /\ ReadPages => Parts'
<1> SUFFICES ASSUME Parts, ReadPages PROVE Parts'
  OBVIOUS
<1>1. PICK read \in SUBSET DOMAIN Flagged : pages' = Merged(OcrSubpdf(read))
  BY DEF ReadPages
<1>2. pages' \in Seq(Seq(Words))
  BY <1>1, MergedPages DEF Parts
<1>3. PICK t : t = text'
  OBVIOUS
<1>4. t \in Seq(Unit) /\ Len(t) \in Nat
  BY <1>2, <1>3, JoinedTyped, LenProperties DEF ReadPages
<1>5. /\ phase = "reading" /\ phase' \in {"ready", "chunking"} /\ todo' = todo /\ pos' = pos
      /\ UNCHANGED <<doc, attempt, sent, leaves, failed, items, rows>>
  BY DEF ReadPages
<1>6. todo' \in Seq(Fitting')
  BY <1>5, EmptySeq DEF Parts
<1>7. pos' \in 0..Len(text')
  BY <1>3, <1>4, <1>5 DEF Parts
<1> QED
  BY <1>2, <1>3, <1>4, <1>5, <1>6, <1>7 DEF Parts

LEMMA BuildTyped == ASSUME Parts, NEW e \in 1..Len(text), BuildChunk(e) PROVE Parts'
<1> DEFINE stop == IF pos + Target < e THEN pos + Target ELSE e
           c == [start |-> pos, stop |-> stop, from |-> PageAt(pos),
                 to |-> PageAt(stop - 1), depth |-> 0]
<1>1. /\ phase = "chunking" /\ SectionEnds(pos, e) /\ todo' = Append(todo, c)
      /\ pos' = IF stop = e THEN e ELSE pos + (Target - Overlap)
      /\ UNCHANGED <<doc, phase, pages, text, attempt, sent, leaves, failed, items, rows>>
  BY DEF BuildChunk, Cut
<1>2. /\ Len(text) \in Nat /\ pos \in Nat /\ e \in Nat /\ pos < e /\ e <= Len(text)
      /\ Target \in Nat /\ Overlap \in Nat /\ Overlap < Target /\ MaxDepth \in Nat
  BY <1>1, UnitsTyped, MiningBounds DEF Parts, SectionEnds
<1>3. stop \in Nat /\ pos < stop /\ stop <= e
  BY <1>2
<1>4. pos' \in 0..Len(text)
  BY <1>1, <1>2
<1> HIDE DEF stop
<1>5. PageAt(pos) \in Nat /\ PageAt(stop - 1) \in Nat
  <2>1. pos + 1 \in 1..Len(text) /\ stop - 1 + 1 \in 1..Len(text)
    BY <1>2, <1>3
  <2> QED
    BY <2>1, UnitsTyped DEF PageAt
<1>6. c \in Chunk /\ c.start = pos /\ c.stop = stop
  BY <1>2, <1>3, <1>5 DEF Chunk
<1> HIDE DEF c
<1>7. c \in Fitting
  BY <1>2, <1>3, <1>6 DEF Fitting
<1>8. Append(todo, c) \in Seq(Fitting)
  BY <1>7, AppendProperties DEF Parts
<1>9. Fitting' = Fitting
  BY <1>1 DEF Fitting
<1> QED
  BY <1>1, <1>4, <1>8, <1>9 DEF Parts

LEMMA MarkerTyped == ASSUME Parts, BuildMarker PROVE Parts'
<1>1. /\ phase = "chunking" /\ Len(text) > 0
      /\ UNCHANGED <<doc, phase, pages, text, pos, attempt, sent, leaves, failed, items, rows>>
  BY DEF BuildMarker, MarkerDue
<1>2. PICK c : /\ c = [start |-> 0, stop |-> 0, from |-> 1, to |-> PageAt(0), depth |-> 0]
               /\ todo' = <<c>>
  BY DEF BuildMarker
<1>3. PageAt(0) \in Nat /\ Len(text) \in Nat
  BY <1>1, UnitsTyped DEF PageAt
<1>4. c \in Fitting
  BY <1>2, <1>3, MiningBounds DEF Fitting, Chunk
<1>5. todo' \in Seq(Fitting) /\ Fitting' = Fitting
  BY <1>1, <1>2, <1>4 DEF Fitting
<1> QED
  BY <1>1, <1>5 DEF Parts

\* Cites are numbers of pages, and wording is the document's or the model's.
LEMMA ReplyTyped ==
  ASSUME Parts, NEW c \in Fitting, NEW found \in Replies(c), NEW i \in found
  PROVE  [i EXCEPT !.page = Clamp(c, @)] \in Item
<1>1. i \in [words: {text[p + 1].words : p \in c.start..c.stop - 1} \cup {Invented},
             page: 0..Len(pages) + 1]
  BY DEF Replies
<1>2. PICK w, q : /\ i = [words |-> w, page |-> q]
                  /\ w \in {text[p + 1].words : p \in c.start..c.stop - 1} \cup {Invented}
                  /\ q \in 0..Len(pages) + 1
  BY <1>1
<1>3. /\ c.start \in Nat /\ c.stop \in Nat /\ c.stop <= Len(text) /\ c.from \in Nat
      /\ c.to \in Nat /\ Len(text) \in Nat
  BY UnitsTyped DEF Fitting, Chunk
<1>4. \A p \in c.start..c.stop - 1 : p + 1 \in 1..Len(text)
  BY <1>3
<1>5. w \in Words \cup {Invented}
  BY <1>2, <1>4, UnitsTyped
<1>6. Clamp(c, q) \in Nat
  <2>1. Len(pages) \in Nat
    BY LenProperties DEF Parts
  <2> QED
    BY <1>2, <1>3, <2>1 DEF Clamp
<1>7. [i EXCEPT !.page = Clamp(c, @)] = [words |-> w, page |-> Clamp(c, q)]
  BY <1>2
<1> QED
  BY <1>5, <1>6, <1>7 DEF Item

LEMMA ProcessTyped == Parts /\ ProcessChunk => Parts'
<1> SUFFICES ASSUME Parts, ProcessChunk PROVE Parts'
  OBVIOUS
<1>1. PICK c : c = Head(todo)
  OBVIOUS
<1>2. /\ phase = "mining" /\ todo # <<>> /\ Process(c) /\ c \in Fitting
      /\ Tail(todo) \in Seq(Fitting) /\ todo \in Seq(Fitting)
  BY <1>1, FirstFits DEF ProcessChunk, Parts
<1>3. UNCHANGED <<doc, pages, text, pos>> /\ Fitting' = Fitting
  BY <1>2 DEF Process, HalveFirst, CallUnavailable, CallFails, HalveAfter, TooDeep, Malformed,
              Reply, Halve, Fitting
<1>4. /\ Retries \in Nat \ {0} /\ attempt \in 0..1 /\ sent \in 0..Retries - 1 /\ failed \in Nat
      /\ 0 \in 0..Retries - 1
  BY MiningBounds DEF Parts
<1>5. ASSUME todo' \in Seq(Fitting), attempt' \in 0..1, sent' \in 0..Retries - 1,
             phase' \in {"mining", "failed"}, failed' \in Nat,
             UNCHANGED <<leaves, items, rows>>
      PROVE  Parts'
  BY <1>2, <1>3, <1>5 DEF Parts
<1>6. ASSUME Halve(c) PROVE Parts'
  <2>1. /\ c.depth < MaxDepth /\ todo' = Halves(c) \o Tail(todo)
        /\ attempt' = 0 /\ sent' = 0 /\ UNCHANGED <<phase, failed, leaves, items, rows>>
    BY <1>6 DEF Halve
  <2>2. PICK a, b \in Fitting : Halves(c) = <<a, b>>
    BY <1>2, <2>1, HalvesFit
  <2>3. Halves(c) \in Seq(Fitting)
    BY <2>2
  <2>4. todo' \in Seq(Fitting)
    BY <1>2, <2>1, <2>3, ConcatProperties
  <2> QED
    BY <1>2, <1>4, <1>5, <2>1, <2>4
<1>7. CASE HalveFirst(c) \/ HalveAfter(c)
  BY <1>6, <1>7 DEF HalveFirst, HalveAfter
<1>8. CASE CallUnavailable(c)
  <2>1. /\ sent + 1 < Retries /\ sent' = sent + 1
        /\ UNCHANGED <<phase, todo, attempt, failed, leaves, items, rows>>
    BY <1>8 DEF CallUnavailable
  <2>2. sent' \in 0..Retries - 1
    BY <1>4, <2>1
  <2> QED
    BY <1>2, <1>4, <1>5, <2>1, <2>2
<1>9. CASE CallFails(c)
  BY <1>2, <1>4, <1>5, <1>9 DEF CallFails
<1>10. CASE TooDeep(c)
  <2>1. /\ failed' = failed + 1 /\ todo' = Tail(todo) /\ attempt' = 0 /\ sent' = 0
        /\ UNCHANGED <<phase, leaves, items, rows>>
    BY <1>10 DEF TooDeep
  <2>2. failed' \in Nat
    BY <1>4, <2>1
  <2> QED
    BY <1>2, <1>4, <1>5, <2>1, <2>2
<1>11. CASE Malformed(c)
  <2>1. /\ sent' = 0 /\ UNCHANGED <<phase, leaves, items, rows>>
        /\ \/ attempt' = 1 /\ UNCHANGED <<todo, failed>>
           \/ attempt' = 0 /\ todo' = Tail(todo) /\ failed' = failed + 1
    BY <1>11 DEF Malformed
  <2>2. failed' \in Nat /\ todo' \in Seq(Fitting) /\ attempt' \in 0..1
    BY <1>2, <1>4, <2>1
  <2> QED
    BY <1>2, <1>4, <1>5, <2>1, <2>2
<1>12. ASSUME NEW found \in Replies(c), Reply(c, found) PROVE Parts'
  <2>1. /\ leaves' = leaves \cup {[start |-> c.start, stop |-> c.stop]}
        /\ items' = items \cup {[i EXCEPT !.page = Clamp(c, @)] : i \in found}
        /\ todo' = Tail(todo) /\ attempt' = 0 /\ sent' = 0
        /\ UNCHANGED <<phase, failed, rows>>
    BY <1>12 DEF Reply
  <2>2. [start |-> c.start, stop |-> c.stop] \in [start: Nat, stop: Nat]
    BY <1>2 DEF Fitting, Chunk
  <2>3. \A i \in found : [i EXCEPT !.page = Clamp(c, @)] \in Item
    BY <1>2, ReplyTyped
  <2>4. items' \subseteq Item /\ leaves' \subseteq [start: Nat, stop: Nat]
    BY <2>1, <2>2, <2>3 DEF Parts
  <2> QED
    BY <1>2, <1>3, <1>4, <2>1, <2>4 DEF Parts
<1> QED
  BY <1>2, <1>7, <1>8, <1>9, <1>10, <1>11, <1>12 DEF Process

LEMMA AuditTyped == Parts /\ Audit => Parts'
<1> SUFFICES ASSUME Parts, Audit PROVE Parts'
  OBVIOUS
<1>1. /\ rows' \subseteq {Located(j) : j \in items} /\ phase' = "ready"
      /\ UNCHANGED <<doc, pages, text, pos, todo, attempt, sent, leaves, failed, items>>
  BY DEF Audit
<1>2. ASSUME NEW j \in items PROVE Located(j) \in Item
  <2>1. j \in Item
    BY DEF Parts
  <2>2. CASE Cardinality(On(j.words)) = 1
    <3>1. On(j.words) # {}
      BY <2>2, FS_EmptySet
    <3>2. (CHOOSE p \in On(j.words) : TRUE) \in On(j.words)
      BY <3>1
    <3>3. On(j.words) \subseteq Nat
      <4>1. DOMAIN pages = 1..Len(pages)
        BY LenProperties DEF Parts
      <4> QED
        BY <4>1 DEF On
    <3>4. PICK p \in Nat : p = CHOOSE q \in On(j.words) : TRUE
      BY <3>2, <3>3
    <3>5. Located(j) = [j EXCEPT !.page = p]
      BY <2>2, <3>4 DEF Located
    <3> QED
      BY <2>1, <3>5 DEF Item
  <2>3. CASE Cardinality(On(j.words)) # 1
    BY <2>1, <2>3 DEF Located
  <2> QED
    BY <2>2, <2>3
<1>3. rows' \subseteq Item
  BY <1>1, <1>2
<1>4. Fitting' = Fitting
  BY <1>1 DEF Fitting
<1> QED
  BY <1>1, <1>3, <1>4 DEF Parts

LEMMA PartsStep == Parts /\ [Next]_vars => Parts'
<1> SUFFICES ASSUME Parts, [Next]_vars PROVE Parts'
  OBVIOUS
<1>1. CASE ReadFails \/ ChunkCapExceeded \/ StartMining \/ EndMining \/ UNCHANGED vars
  <2>1. /\ UNCHANGED <<doc, pages, text, pos, todo, attempt, sent, leaves, failed, items, rows>>
        /\ phase' \in {"failed", "mining", "auditing", phase}
    BY <1>1 DEF ReadFails, ChunkCapExceeded, StartMining, EndMining, Fail, vars
  <2>2. Fitting' = Fitting
    BY <2>1 DEF Fitting
  <2> QED
    BY <2>1, <2>2 DEF Parts
<1> QED
  BY <1>1, ReadTyped, MarkerTyped, BuildTyped, ProcessTyped, AuditTyped DEF Next

-----------------------------------------------------------------------------
(* The calls made for a chunk.  What is still to do of a chunk that was    *)
(* halved comes first in todo, and may cost what a full halving of each    *)
(* part would: with the calls made so far no more than CallsPerChunk.      *)

LEMMA SubsetsCounted ==
  ASSUME NEW n \in Nat
  PROVE  /\ Cardinality(SUBSET (1..n)) = 2^n /\ 2^n \in Nat
         /\ IsFiniteSet(SUBSET (1..n))
<1>1. IsFiniteSet(1..n) /\ Cardinality(1..n) = n
  BY FS_Interval
<1>2. Cardinality(SUBSET (1..n)) = 2^Cardinality(1..n) /\ IsFiniteSet(SUBSET (1..n))
  BY <1>1, FS_SUBSET
<1>3. Cardinality(SUBSET (1..n)) = 2^n
  BY <1>1, <1>2
<1>4. Cardinality(SUBSET (1..n)) \in Nat
  BY <1>2, FS_CardinalityType
<1> QED
  BY <1>2, <1>3, <1>4

LEMMA PowerDoubles ==
  ASSUME NEW n \in Nat
  PROVE  2^n \in Nat /\ 2^n >= 1 /\ 2^(n + 1) = 2 * 2^n
<1> DEFINE A == SUBSET (1..n)
           B == SUBSET (1..n + 1)
           C == B \ A
           f == [X \in A |-> X \cup {n + 1}]
<1>1. n + 1 \in Nat /\ 1..n + 1 = 1..n \cup {n + 1} /\ n + 1 \notin 1..n
  OBVIOUS
<1>2. /\ Cardinality(A) = 2^n /\ IsFiniteSet(A) /\ 2^n \in Nat
      /\ Cardinality(B) = 2^(n + 1) /\ IsFiniteSet(B) /\ 2^(n + 1) \in Nat
  BY <1>1, SubsetsCounted
<1>3. A \subseteq B
  BY <1>1
<1>4. f \in Bijection(A, C)
  <2>1. \A X \in A : f[X] \in C
    BY <1>1
  <2>2. \A X, Y \in A : f[X] = f[Y] => X = Y
    BY <1>1
  <2>3. \A Z \in C : Z \ {n + 1} \in A /\ f[Z \ {n + 1}] = Z
    <3> SUFFICES ASSUME NEW Z \in C PROVE Z \ {n + 1} \in A /\ f[Z \ {n + 1}] = Z
      OBVIOUS
    <3>1. Z \subseteq 1..n \cup {n + 1} /\ ~(Z \subseteq 1..n)
      BY <1>1
    <3>2. n + 1 \in Z /\ Z \ {n + 1} \subseteq 1..n
      BY <3>1
    <3>3. (Z \ {n + 1}) \cup {n + 1} = Z
      BY <3>2
    <3> QED
      BY <3>2, <3>3
  <2>4. f \in [A -> C]
    BY <2>1
  <2>5. \A Z \in C : \E X \in A : f[X] = Z
    BY <2>3
  <2> HIDE DEF A, C, f
  <2> QED
    BY <2>2, <2>4, <2>5 DEF Bijection, Injection, Surjection, IsInjective
<1>5. Cardinality(C) = Cardinality(A)
  BY <1>2, <1>4, FS_Bijection DEF ExistsBijection
<1>6. IsFiniteSet(C) /\ A \cap C = {} /\ A \cup C = B
  BY <1>2, <1>3, FS_Subset
<1>7. Cardinality(A \cup C) = Cardinality(A) + Cardinality(C) - Cardinality(A \cap C)
  BY <1>2, <1>6, FS_Union
<1>8. Cardinality(A \cap C) = 0
  BY <1>6, FS_EmptySet
<1>9. 2^n >= 1
  <2>1. {} \in A /\ A # {}
    BY DEF A
  <2>2. Cardinality(A) # 0
    BY <1>2, <2>1, FS_EmptySet
  <2> QED
    BY <1>2, <2>2
<1> HIDE DEF A, B, C
<1>10. PICK x \in Nat, y \in Nat : x = 2^n /\ y = 2^(n + 1)
  BY <1>2
<1>11. y = x + x - 0
  BY <1>2, <1>5, <1>6, <1>7, <1>8, <1>10
<1>12. y = 2 * x
  BY <1>10, <1>11
<1> QED
  BY <1>2, <1>9, <1>10, <1>12


\* Of a part of a given depth: its own calls, and those of its halves.
Cost(d) == (2^(MaxDepth + 1 - d) - 1) * (2 * Retries)

LEMMA CostLaw ==
  ASSUME NEW d \in 0..MaxDepth
  PROVE  /\ Cost(d) \in Nat /\ Cost(d) >= 2 * Retries
         /\ Cost(0) = CallsPerChunk
         /\ d < MaxDepth => Cost(d) = 2 * Retries + 2 * Cost(d + 1)
<1>1. MaxDepth \in Nat /\ Retries \in Nat \ {0} /\ MaxDepth - d \in Nat
  BY MiningBounds
<1>2. PICK K \in Nat : K = 2 * Retries
  BY <1>1
<1>3. PICK m \in Nat : m = MaxDepth - d
  BY <1>1
<1>4. PICK x \in Nat : x = 2^m /\ x >= 1 /\ 2^(m + 1) = 2 * x
  BY PowerDoubles
<1>5. Cost(d) = (2 * x - 1) * K
  <2>1. MaxDepth + 1 - d = m + 1
    BY <1>1, <1>3
  <2> QED
    BY <1>2, <1>4, <2>1 DEF Cost
<1>6. (2 * x - 1) * K = K + 2 * ((x - 1) * K) /\ (x - 1) * K \in Nat
  <2>1. PICK y \in Nat : y = x - 1
    BY <1>4
  <2>2. (2 * x - 1) * K = (2 * y + 1) * K /\ (x - 1) * K = y * K
    BY <2>1
  <2>3. (2 * y + 1) * K = K + 2 * (y * K)
    OBVIOUS
  <2> QED
    BY <2>1, <2>2, <2>3
<1>7. Cost(d) \in Nat /\ Cost(d) >= K
  BY <1>2, <1>5, <1>6
<1>8. ASSUME d < MaxDepth PROVE Cost(d) = K + 2 * Cost(d + 1)
  <2>1. MaxDepth + 1 - (d + 1) = m
    BY <1>1, <1>3
  <2>2. Cost(d + 1) = (x - 1) * K
    BY <1>2, <1>4, <2>1 DEF Cost
  <2> QED
    BY <1>5, <1>6, <2>2
<1>9. Cost(0) = CallsPerChunk
  <2>1. PICK z \in Nat : z = 2^(MaxDepth + 1)
    BY <1>1, PowerDoubles
  <2>2. MaxDepth + 1 - 0 = MaxDepth + 1
    BY <1>1
  <2>3. Cost(0) = (z - 1) * (2 * Retries) /\ CallsPerChunk = (z - 1) * 2 * Retries
    BY <2>1, <2>2 DEF Cost, CallsPerChunk
  <2>4. (z - 1) * (2 * Retries) = (z - 1) * 2 * Retries
    BY <1>1
  <2> QED
    BY <2>3, <2>4
<1> QED
  BY <1>2, <1>7, <1>8, <1>9

\* w[k]: what the parts from the k-th on, up to the next whole chunk, may cost.
Pays(s, w) == \A k \in 2..Len(s) : s[k].depth > 0 => Cost(s[k].depth) + w[k + 1] <= w[k]
Affords(s, n, m) == \E w \in [Nat -> Nat] :
  n + Cost(s[1].depth) + w[2] <= CallsPerChunk + m /\ Pays(s, w)

\* Calls put already for the part at hand: each question up to Retries times.
Spent == IF attempt = 1 THEN Retries + sent ELSE sent

Budget ==
  \A s, n, m : (phase = "mining" /\ s = todo /\ s # <<>> /\ n = calls /\ m = Spent) =>
    \/ s[1].depth = 0 /\ m = 0
    \/ Affords(s, n, m)

\* Parts of a chunk come before the chunks not yet begun.
Group(s) == \A j, k \in 1..Len(s) : j < k /\ s[k].depth > 0 => s[j].depth > 0

Calling ==
  /\ calls \in 0..CallsPerChunk
  /\ phase \in {"reading", "chunking"} =>
       /\ calls = 0 /\ attempt = 0 /\ sent = 0
       /\ \A k \in DOMAIN todo : todo[k].depth = 0
  /\ Group(todo)
  /\ Budget

LEMMA BoundIsNat == CallsPerChunk \in Nat
<1>1. 0 \in 0..MaxDepth
  BY MiningBounds
<1> QED
  BY <1>1, CostLaw

\* The part at hand is done with: the next one, or a whole chunk.
LEMMA PartDone ==
  ASSUME NEW s \in Seq(Chunk), s # <<>>, NEW n \in Nat, NEW w \in [Nat -> Nat],
         n + w[2] <= CallsPerChunk, Pays(s, w), NEW t, t = Tail(s), t # <<>>
  PROVE  t[1].depth = 0 \/ Affords(t, n, 0)
<1> DEFINE v == [k \in Nat |-> w[k + 1]]
<1>1. /\ Len(s) \in Nat /\ Len(t) = Len(s) - 1 /\ Len(t) \in Nat /\ Len(t) >= 1
      /\ \A k \in 1..Len(t) : t[k] = s[k + 1]
      /\ \A k \in 1..Len(s) : s[k].depth \in 0..MaxDepth
  <2>1. Len(s) \in Nat /\ Len(s) >= 1
    BY EmptySeq, LenProperties
  <2>2. t \in Seq(Chunk) /\ Len(t) = Len(s) - 1 /\ \A k \in 1..Len(t) : t[k] = s[k + 1]
    BY <2>1
  <2>3. Len(t) \in Nat /\ Len(t) >= 1
    <3>1. Len(t) \in Nat /\ Len(t) # 0
      BY <2>2, EmptySeq, LenProperties
    <3>2. PICK l \in Nat : l = Len(t)
      BY <3>1
    <3>3. l # 0
      BY <3>1, <3>2
    <3>4. l >= 1
      BY <3>3
    <3> QED
      BY <3>2, <3>4
  <2>4. \A k \in 1..Len(s) : s[k] \in Chunk
    BY ElementOfSeq
  <2> QED
    BY <2>1, <2>2, <2>3, <2>4 DEF Chunk
<1>2. v \in [Nat -> Nat] /\ \A k \in Nat : v[k] = w[k + 1]
  <2>1. \A k \in Nat : k + 1 \in Nat
    OBVIOUS
  <2>2. \A k \in Nat : w[k + 1] \in Nat
    BY <2>1
  <2> QED
    BY <2>2
<1> HIDE DEF v
<1>3. CallsPerChunk \in Nat /\ MaxDepth \in Nat /\ w[2] \in Nat /\ w[2 + 1] \in Nat
  <2>1. 2 \in Nat /\ 2 + 1 \in Nat
    OBVIOUS
  <2> QED
    BY <2>1, BoundIsNat, MiningBounds
<1>4. ASSUME t[1].depth # 0 PROVE Affords(t, n, 0)
  <2>1. t[1] = s[2] /\ 2 \in 2..Len(s) /\ s[2].depth \in 0..MaxDepth
    BY <1>1
  <2>2. s[2].depth > 0
    <3>1. PICK l \in 0..MaxDepth : l = s[2].depth
      BY <2>1
    <3>2. l # 0
      BY <1>4, <2>1, <3>1
    <3>3. l > 0
      BY <1>3, <3>2
    <3> QED
      BY <3>1, <3>3
  <2>3. Cost(s[2].depth) + w[2 + 1] <= w[2]
    BY <2>1, <2>2 DEF Pays
  <2>4. Cost(s[2].depth) \in Nat
    BY <2>1, CostLaw
  <2>5. n + Cost(t[1].depth) + v[2] <= CallsPerChunk + 0
    <3>1. PICK a \in Nat, x \in Nat, y \in Nat, c \in Nat :
            a = Cost(s[2].depth) /\ x = w[2 + 1] /\ y = w[2] /\ c = CallsPerChunk
      BY <1>3, <2>4
    <3>2. a + x <= y /\ n + y <= c
      BY <2>3, <3>1
    <3>3. n + a + x <= c + 0
      BY <3>2
    <3>4. v[2] = x
      BY <1>2, <3>1
    <3> QED
      BY <2>1, <3>1, <3>3, <3>4
  <2>6. Pays(t, v)
    <3> SUFFICES ASSUME NEW k \in 2..Len(t), t[k].depth > 0
                 PROVE  Cost(t[k].depth) + v[k + 1] <= v[k]
      BY DEF Pays
    <3>1. k + 1 \in 2..Len(s) /\ t[k] = s[k + 1] /\ k \in Nat /\ k + 1 \in Nat
      <4>1. PICK l \in Nat, m \in Nat : l = Len(s) /\ m = Len(t) /\ m = l - 1
        BY <1>1, Zenon
      <4>2. k \in Nat /\ k + 1 \in Nat /\ k + 1 \in 2..l /\ k \in 1..m
        BY <4>1
      <4> QED
        BY <1>1, <4>1, <4>2, Zenon
    <3>2. Cost(s[k + 1].depth) + w[k + 1 + 1] <= w[k + 1]
      BY <3>1 DEF Pays
    <3> QED
      BY <1>2, <3>1, <3>2
  <2> QED
    BY <1>2, <2>5, <2>6 DEF Affords
<1> QED
  BY <1>4

\* The part at hand is halved.
LEMMA PartHalved ==
  ASSUME NEW s \in Seq(Chunk), s # <<>>, NEW n \in Nat, NEW w \in [Nat -> Nat],
         NEW a \in Chunk, NEW b \in Chunk, NEW d \in 1..MaxDepth, a.depth = d, b.depth = d,
         n + 2 * Cost(d) + w[2] <= CallsPerChunk, Pays(s, w),
         NEW t, t = <<a, b>> \o Tail(s)
  PROVE  Affords(t, n, 0)
<1> DEFINE v == [k \in Nat |-> IF k = 2 THEN Cost(d) + w[2] ELSE IF k > 2 THEN w[k - 1] ELSE 0]
<1>1. /\ Len(s) \in Nat /\ Len(t) = Len(s) + 1
      /\ t[1] = a /\ t[2] = b /\ \A k \in 3..Len(t) : t[k] = s[k - 1]
  <2>1. Len(s) \in Nat /\ Len(s) >= 1
    BY EmptySeq, LenProperties
  <2>2. PICK r : r = Tail(s)
    OBVIOUS
  <2>3. r \in Seq(Chunk) /\ Len(r) = Len(s) - 1 /\ \A k \in 1..Len(r) : r[k] = s[k + 1]
    BY <2>1, <2>2
  <2>4. Len(t) = 2 + Len(r) /\ t[1] = a /\ t[2] = b
        /\ \A k \in 3..2 + Len(r) : t[k] = r[k - 2]
    BY <2>2, <2>3
  <2>5. \A k \in 3..2 + Len(r) : k - 2 \in 1..Len(r) /\ k - 2 + 1 = k - 1
    BY <2>3
  <2> QED
    BY <2>1, <2>3, <2>4, <2>5
<1>2. CallsPerChunk \in Nat /\ Cost(d) \in Nat /\ MaxDepth \in Nat
  BY BoundIsNat, CostLaw, MiningBounds
<1>3. v \in [Nat -> Nat] /\ v[2] = Cost(d) + w[2] /\ v[3] = w[2]
      /\ \A k \in Nat : k > 2 => v[k] = w[k - 1] /\ v[k + 1] = w[k]
  <2>1. \A k \in Nat : k > 2 => k - 1 \in Nat
    OBVIOUS
  <2>2. \A k \in Nat : k > 2 => w[k - 1] \in Nat
    BY <2>1
  <2>3. w[2] \in Nat /\ Cost(d) + w[2] \in Nat
    <3>1. 2 \in Nat
      OBVIOUS
    <3>2. PICK x \in Nat, y \in Nat : x = Cost(d) /\ y = w[2]
      BY <1>2, <3>1
    <3>3. x + y \in Nat
      OBVIOUS
    <3> QED
      BY <3>2, <3>3
  <2>4. \A k \in Nat :
          (IF k = 2 THEN Cost(d) + w[2] ELSE IF k > 2 THEN w[k - 1] ELSE 0) \in Nat
    BY <2>2, <2>3
  <2>5. v \in [Nat -> Nat]
    BY <2>4
  <2>6. v[2] = Cost(d) + w[2]
    OBVIOUS
  <2>7. 3 \in Nat /\ 3 > 2 /\ 3 # 2 /\ 3 - 1 = 2
    OBVIOUS
  <2>8. v[3] = w[2]
    BY <2>7
  <2>9. \A k \in Nat : k > 2 => v[k] = w[k - 1]
    OBVIOUS
  <2>10. \A k \in Nat : k > 2 => k + 1 \in Nat /\ k + 1 > 2 /\ k + 1 - 1 = k
    OBVIOUS
  <2>11. \A k \in Nat : k > 2 => v[k + 1] = w[k]
    BY <2>9, <2>10
  <2> QED
    BY <2>5, <2>6, <2>8, <2>9, <2>11
<1> HIDE DEF v
<1>4. n + Cost(t[1].depth) + v[2] <= CallsPerChunk + 0
  <2>1. PICK x \in Nat, y \in Nat, c \in Nat : x = Cost(d) /\ y = w[2] /\ c = CallsPerChunk
    BY <1>2
  <2>2. n + 2 * x + y <= c
    BY <2>1
  <2>3. n + x + (x + y) <= c + 0
    BY <2>2
  <2> QED
    BY <1>1, <1>3, <2>1, <2>3
<1>5. Pays(t, v)
  <2> SUFFICES ASSUME NEW k \in 2..Len(t), t[k].depth > 0
               PROVE  Cost(t[k].depth) + v[k + 1] <= v[k]
    BY DEF Pays
  <2>1. CASE k = 2
    <3>1. t[k].depth = d /\ v[k] = Cost(d) + w[2]
      BY <1>1, <1>3, <2>1
    <3>2. k + 1 = 3
      BY <2>1
    <3>3. v[k + 1] = w[2]
      BY <1>3, <3>2
    <3>4. PICK x \in Nat : x = Cost(d) + w[2]
      <4>1. 2 \in Nat
        OBVIOUS
      <4>2. v[2] \in Nat
        BY <1>3, <4>1
      <4> QED
        BY <1>3, <4>2
    <3>5. x <= x
      OBVIOUS
    <3> QED
      BY <3>1, <3>3, <3>4, <3>5
  <2>2. CASE k # 2
    <3>1. PICK l \in Nat, m \in Nat : l = Len(s) /\ m = Len(t) /\ m = l + 1
      <4>1. PICK l \in Nat : l = Len(s)
        BY <1>1
      <4>2. l + 1 \in Nat
        OBVIOUS
      <4> QED
        BY <1>1, <4>1, <4>2
    <3>2. /\ k \in Nat /\ k > 2 /\ k \in 3..m
          /\ k - 1 \in 2..l /\ k - 1 + 1 = k
      BY <2>2, <3>1
    <3>3. t[k] = s[k - 1] /\ v[k] = w[k - 1] /\ v[k + 1] = w[k]
      BY <1>1, <1>3, <3>1, <3>2
    <3>4. k - 1 \in 2..Len(s) /\ s[k - 1].depth > 0
      BY <3>1, <3>2, <3>3
    <3>5. Cost(s[k - 1].depth) + w[k - 1 + 1] <= w[k - 1]
      BY <3>4 DEF Pays
    <3> QED
      BY <3>2, <3>3, <3>5
  <2> QED
    BY <2>1, <2>2
<1> QED
  BY <1>3, <1>4, <1>5 DEF Affords
LEMMA NoneBegun ==
  ASSUME NEW s \in Seq(Chunk), s # <<>>, Group(s), s[1].depth = 0
  PROVE  \E w \in [Nat -> Nat] : w[2] = 0 /\ Pays(s, w)
<1> DEFINE w == [k \in Nat |-> 0]
<1>1. Len(s) \in Nat /\ \A k \in 1..Len(s) : s[k] \in Chunk
  BY LenProperties, ElementOfSeq
<1>2. ASSUME NEW k \in 2..Len(s) PROVE ~(s[k].depth > 0)
  <2>1. 1 \in 1..Len(s) /\ k \in 1..Len(s) /\ 1 < k
    BY <1>1
  <2>2. ~(s[1].depth > 0)
    OBVIOUS
  <2> QED
    BY <2>1, <2>2 DEF Group
<1>3. Pays(s, w)
  BY <1>2 DEF Pays
<1>4. w \in [Nat -> Nat] /\ w[2] = 0
  OBVIOUS
<1> QED
  BY <1>3, <1>4

LEMMA AskedTwice ==
  ASSUME Parts
  PROVE  /\ Spent \in Nat /\ Spent + 1 <= 2 * Retries /\ Retries \in Nat \ {0}
         /\ attempt = 0 => Spent = sent /\ Spent + 1 <= Retries
         /\ Spent = 0 => attempt = 0 /\ sent = 0
<1>1. Retries \in Nat \ {0} /\ attempt \in {0, 1} /\ sent \in 0..Retries - 1
  BY MiningBounds DEF Parts
<1>2. PICK r \in Nat, x \in Nat : r = Retries /\ x = sent /\ x + 1 <= r
  BY <1>1
<1>3. Spent = IF attempt = 1 THEN r + x ELSE x
  BY <1>2 DEF Spent
<1>4. CASE attempt = 1
  BY <1>1, <1>2, <1>3, <1>4
<1>5. CASE attempt = 0
  BY <1>1, <1>2, <1>3, <1>5
<1> QED
  BY <1>1, <1>4, <1>5

\* A call leaves what is still to do within the bound.
LEMMA CallPays ==
  ASSUME Parts, Calling, phase = "mining", todo # <<>>, NEW c, c = Head(todo), Called(c)
  PROVE  /\ calls' \in 0..CallsPerChunk
         /\ \E w \in [Nat -> Nat] :
              /\ Pays(todo, w)
              /\ calls' + Cost(c.depth) + w[2] <= CallsPerChunk + Spent + 1
<1>1. /\ todo \in Seq(Chunk) /\ c = todo[1] /\ c.depth \in 0..MaxDepth /\ Group(todo)
      /\ calls \in Nat /\ CallsPerChunk \in Nat
  <2>1. todo \in Seq(Fitting) /\ Fitting \subseteq Chunk
    BY DEF Parts, Fitting
  <2>2. todo \in Seq(Chunk)
    BY <2>1
  <2> QED
    BY <2>1, <2>2, FirstFits, BoundIsNat DEF Chunk, Calling
<1>2. /\ Cost(c.depth) \in Nat /\ Cost(c.depth) >= 2 * Retries /\ Cost(0) = CallsPerChunk
  <2>1. 0 \in 0..MaxDepth
    BY MiningBounds
  <2> QED
    BY <1>1, <2>1, CostLaw
<1>3. \E w \in [Nat -> Nat] :
        /\ Pays(todo, w) /\ calls' \in Nat
        /\ calls' + Cost(c.depth) + w[2] <= CallsPerChunk + Spent + 1
  <2>1. CASE Fresh(c)
    <3>1. PICK w \in [Nat -> Nat] : w[2] = 0 /\ Pays(todo, w)
      BY <1>1, <2>1, NoneBegun DEF Fresh
    <3>2. calls' = 1 /\ Spent = 0 /\ Cost(c.depth) = CallsPerChunk
      BY <1>2, <2>1, SMTT(20) DEF Called, Fresh, Spent
    <3>3. PICK x \in Nat : x = CallsPerChunk
      BY <1>1
    <3>4. 1 + x + 0 <= x + 0 + 1
      OBVIOUS
    <3>5. calls' + Cost(c.depth) + w[2] <= CallsPerChunk + Spent + 1
      BY <3>1, <3>2, <3>3, <3>4
    <3> QED
      BY <3>1, <3>2, <3>5
  <2>2. CASE ~Fresh(c)
    <3>1. calls' = calls + 1
      BY <2>2 DEF Called
    <3>2. ~(c.depth = 0 /\ Spent = 0)
      BY <2>2, AskedTwice DEF Fresh
    <3>3. Affords(todo, calls, Spent)
      BY <1>1, <3>2 DEF Calling, Budget
    <3>4. PICK w \in [Nat -> Nat] :
            calls + Cost(c.depth) + w[2] <= CallsPerChunk + Spent /\ Pays(todo, w)
      BY <1>1, <3>3 DEF Affords
    <3>5. PICK n \in Nat, x \in Nat, y \in Nat, p \in Nat, m \in Nat :
            /\ n = calls /\ x = Cost(c.depth) /\ y = w[2] /\ p = CallsPerChunk /\ m = Spent
      <4>1. 2 \in Nat
        OBVIOUS
      <4> QED
        BY <1>1, <1>2, <4>1, AskedTwice
    <3>6. n + x + y <= p + m
      BY <3>4, <3>5
    <3>7. n + 1 + x + y <= p + m + 1 /\ n + 1 \in Nat
      BY <3>6
    <3> QED
      BY <3>1, <3>4, <3>5, <3>7
  <2> QED
    BY <2>1, <2>2
<1>4. PICK w \in [Nat -> Nat] :
        calls' \in Nat /\ calls' + Cost(c.depth) + w[2] <= CallsPerChunk + Spent + 1
  BY <1>3
<1>5. PICK n \in Nat, x \in Nat, y \in Nat, p \in Nat, m \in Nat, r \in Nat :
        /\ n = calls' /\ x = Cost(c.depth) /\ y = w[2] /\ p = CallsPerChunk /\ m = Spent
        /\ r = 2 * Retries
  <2>1. 2 \in Nat
    OBVIOUS
  <2>2. PICK r \in Nat : r = Retries
    BY AskedTwice
  <2>3. 2 * r \in Nat
    OBVIOUS
  <2> QED
    BY <1>1, <1>2, <1>4, <2>1, <2>2, <2>3, AskedTwice
<1>6. n + x + y <= p + m + 1 /\ m + 1 <= r /\ x >= r
  BY <1>2, <1>4, <1>5, AskedTwice
<1>7. n \in 0..p
  BY <1>6
<1> QED
  BY <1>3, <1>5, <1>7

LEMMA Tailed ==
  ASSUME NEW s \in Seq(Chunk), s # <<>>, Group(s)
  PROVE  Group(Tail(s))
<1>1. PICK l \in Nat : l = Len(s) /\ l # 0
  BY EmptySeq, LenProperties
<1>2. PICK t : t = Tail(s)
  OBVIOUS
<1>3. Len(t) = l - 1 /\ \A k \in 1..l - 1 : t[k] = s[k + 1]
  BY <1>1, <1>2
<1>4. ASSUME NEW j \in 1..l - 1, NEW k \in 1..l - 1, j < k, t[k].depth > 0
      PROVE  t[j].depth > 0
  <2>1. j + 1 \in 1..l /\ k + 1 \in 1..l /\ j + 1 < k + 1
    BY <1>4
  <2>2. s[k + 1].depth > 0
    BY <1>3, <1>4
  <2>3. s[j + 1].depth > 0
    BY <1>1, <2>1, <2>2 DEF Group
  <2> QED
    BY <1>3, <2>3
<1> QED
  BY <1>2, <1>3, <1>4 DEF Group

LEMMA TwoBefore ==
  ASSUME NEW s \in Seq(Chunk), s # <<>>, Group(s),
         NEW a \in Chunk, NEW b \in Chunk, a.depth > 0, b.depth > 0
  PROVE  Group(<<a, b>> \o Tail(s))
<1>1. PICK t, r : r = Tail(s) /\ t = <<a, b>> \o r
  OBVIOUS
<1>2. Group(r) /\ r \in Seq(Chunk)
  <2>1. Tail(s) \in Seq(Chunk)
    OBVIOUS
  <2> QED
    BY <1>1, <2>1, Tailed
<1>3. PICK l \in Nat : l = Len(r)
  BY <1>2, LenProperties
<1>4. Len(t) = l + 2 /\ t[1] = a /\ t[2] = b /\ \A k \in 3..l + 2 : t[k] = r[k - 2]
  BY <1>1, <1>2, <1>3
<1>5. ASSUME NEW j \in 1..l + 2, NEW k \in 1..l + 2, j < k, t[k].depth > 0
      PROVE  t[j].depth > 0
  <2>1. CASE j \in {1, 2}
    BY <1>4, <2>1
  <2>2. CASE j \notin {1, 2}
    <3>1. /\ j \in 3..l + 2 /\ k \in 3..l + 2
          /\ j - 2 \in 1..l /\ k - 2 \in 1..l /\ j - 2 < k - 2
      BY <1>5, <2>2
    <3>2. t[j] = r[j - 2] /\ t[k] = r[k - 2]
      BY <1>4, <3>1
    <3>3. r[k - 2].depth > 0
      BY <1>5, <3>2
    <3>4. r[j - 2].depth > 0
      BY <1>2, <1>3, <3>1, <3>3 DEF Group
    <3> QED
      BY <3>2, <3>4
  <2> QED
    BY <2>1, <2>2
<1>6. Group(t)
  BY <1>4, <1>5 DEF Group
<1> QED
  BY <1>1, <1>6
LEMMA HalvesPay ==
  ASSUME Parts, todo # <<>>, Group(todo), NEW c, c = Head(todo), c.depth < MaxDepth,
         NEW n \in Nat, NEW w \in [Nat -> Nat], Pays(todo, w),
         n + Cost(c.depth) + w[2] <= CallsPerChunk + 2 * Retries,
         NEW t, t = Halves(c) \o Tail(todo)
  PROVE  Group(t) /\ Affords(t, n, 0)
<1>1. /\ todo \in Seq(Chunk) /\ c \in Fitting /\ c.depth \in 0..MaxDepth /\ MaxDepth \in Nat
      /\ Fitting \subseteq Chunk /\ CallsPerChunk \in Nat /\ Retries \in Nat
  <2>1. todo \in Seq(Fitting) /\ Fitting \subseteq Chunk
    BY DEF Parts, Fitting
  <2>2. todo \in Seq(Chunk)
    BY <2>1
  <2> QED
    BY <2>1, <2>2, FirstFits, BoundIsNat, MiningBounds DEF Chunk
<1>2. PICK a \in Fitting, b \in Fitting :
        Halves(c) = <<a, b>> /\ a.depth = c.depth + 1 /\ b.depth = c.depth + 1
  BY <1>1, HalvesFit
<1>3. PICK d \in 1..MaxDepth : d = c.depth + 1
  <2>1. PICK e \in 0..MaxDepth, m \in Nat : e = c.depth /\ m = MaxDepth
    BY <1>1
  <2>2. e \in 0..m /\ e < m
    BY <2>1
  <2>3. e + 1 \in 1..m
    BY <2>2
  <2> QED
    BY <2>1, <2>3
<1>4. d > 0 /\ d \in 0..MaxDepth
  BY <1>1
<1>5. Cost(d) \in Nat /\ Cost(c.depth) \in Nat /\ Cost(c.depth) = 2 * Retries + 2 * Cost(d)
  BY <1>1, <1>3, <1>4, CostLaw
<1>6. n + 2 * Cost(d) + w[2] <= CallsPerChunk
  <2>1. PICK x \in Nat, y \in Nat, p \in Nat, r \in Nat :
          x = Cost(d) /\ y = w[2] /\ p = CallsPerChunk /\ r = Retries
    <3>1. 2 \in Nat
      OBVIOUS
    <3> QED
      BY <1>1, <1>5, <3>1
  <2>2. n + (2 * r + 2 * x) + y <= p + 2 * r
    BY <1>5, <2>1
  <2>3. n + 2 * x + y <= p
    BY <2>2
  <2> QED
    BY <2>1, <2>3
<1>7. Group(<<a, b>> \o Tail(todo))
  <2>1. a.depth > 0 /\ b.depth > 0 /\ a \in Chunk /\ b \in Chunk
    BY <1>1, <1>2, <1>3, <1>4
  <2> QED
    BY <1>1, <2>1, TwoBefore
<1>8. a \in Chunk /\ b \in Chunk /\ a.depth = d /\ b.depth = d
      /\ t = <<a, b>> \o Tail(todo)
  BY <1>1, <1>2, <1>3
<1>9. Affords(t, n, 0)
  BY <1>1, <1>6, <1>8, PartHalved
<1> QED
  BY <1>7, <1>8, <1>9

LEMMA NextPays ==
  ASSUME Parts, todo # <<>>, Group(todo), NEW c, c = Head(todo),
         NEW n \in Nat, NEW w \in [Nat -> Nat], Pays(todo, w),
         n + Cost(c.depth) + w[2] <= CallsPerChunk + 2 * Retries,
         NEW t, t = Tail(todo)
  PROVE  Group(t) /\ (t = <<>> \/ t[1].depth = 0 \/ Affords(t, n, 0))
<1>1. /\ todo \in Seq(Chunk) /\ c.depth \in 0..MaxDepth
      /\ CallsPerChunk \in Nat /\ Retries \in Nat
  <2>1. todo \in Seq(Fitting) /\ Fitting \subseteq Chunk
    BY DEF Parts, Fitting
  <2>2. todo \in Seq(Chunk)
    BY <2>1
  <2> QED
    BY <2>1, <2>2, FirstFits, BoundIsNat, MiningBounds DEF Chunk
<1>2. Cost(c.depth) \in Nat /\ Cost(c.depth) >= 2 * Retries
  BY <1>1, CostLaw
<1>3. n + w[2] <= CallsPerChunk
  <2>1. PICK x \in Nat, y \in Nat, p \in Nat, r \in Nat :
          x = Cost(c.depth) /\ y = w[2] /\ p = CallsPerChunk /\ r = Retries
    <3>1. 2 \in Nat
      OBVIOUS
    <3> QED
      BY <1>1, <1>2, <3>1
  <2>2. n + x + y <= p + 2 * r /\ x >= 2 * r
    BY <1>2, <2>1
  <2>3. n + y <= p
    BY <2>2
  <2> QED
    BY <2>1, <2>3
<1>4. Group(t)
  BY <1>1, Tailed
<1> QED
  BY <1>1, <1>3, <1>4, PartDone

LEMMA ProcessCalls == Parts /\ Calling /\ ProcessChunk => Calling'
<1> SUFFICES ASSUME Parts, Calling, ProcessChunk PROVE Calling'
  OBVIOUS
<1>1. PICK c : c = Head(todo)
  OBVIOUS
<1>2. /\ phase = "mining" /\ todo # <<>> /\ Process(c) /\ Group(todo)
      /\ c = todo[1] /\ c.depth \in 0..MaxDepth
      /\ CallsPerChunk \in Nat /\ calls \in 0..CallsPerChunk
  BY <1>1, FirstFits, BoundIsNat DEF ProcessChunk, Calling, Fitting, Chunk
<1>3. phase' \in {"mining", "failed"}
  BY <1>2 DEF Process, HalveFirst, CallUnavailable, CallFails, HalveAfter, TooDeep, Malformed,
              Reply, Halve
<1>4. Spent \in Nat /\ Spent + 1 <= 2 * Retries /\ Retries \in Nat
  BY AskedTwice
<1>5. ASSUME calls' \in 0..CallsPerChunk,
             \A t : t = todo' => Group(t),
             \A t, n : t = todo' /\ n = calls' =>
               \/ phase' = "failed" \/ t = <<>>
               \/ t[1].depth = 0 /\ Spent' = 0
               \/ Affords(t, n, Spent')
      PROVE  Calling'
  <2>1. Group(todo)'
    BY <1>5
  <2>2. Budget'
    BY <1>5 DEF Budget
  <2> QED
    BY <1>3, <1>5, <2>1, <2>2 DEF Calling
<1>6. ASSUME Called(c)
      PROVE  /\ calls' \in 0..CallsPerChunk /\ calls' \in Nat
             /\ \E w \in [Nat -> Nat] :
                  /\ Pays(todo, w)
                  /\ calls' + Cost(c.depth) + w[2] <= CallsPerChunk + Spent + 1
                  /\ calls' + Cost(c.depth) + w[2] <= CallsPerChunk + 2 * Retries
  <2>1. PICK w \in [Nat -> Nat] :
          /\ Pays(todo, w)
          /\ calls' + Cost(c.depth) + w[2] <= CallsPerChunk + Spent + 1
    BY <1>1, <1>2, <1>6, CallPays
  <2>2. calls' \in 0..CallsPerChunk
    BY <1>1, <1>2, <1>6, CallPays
  <2>3. calls' \in Nat
    BY <1>2, <2>2
  <2>4. PICK n \in Nat, x \in Nat, y \in Nat, p \in Nat, m \in Nat, r \in Nat :
          /\ n = calls' /\ x = Cost(c.depth) /\ y = w[2] /\ p = CallsPerChunk /\ m = Spent
          /\ r = Retries
    <3>1. 2 \in Nat
      OBVIOUS
    <3> QED
      BY <1>2, <1>4, <2>3, <3>1, CostLaw
  <2>5. n + x + y <= p + m + 1 /\ m + 1 <= 2 * r
    BY <1>4, <2>1, <2>4
  <2>6. n + x + y <= p + 2 * r
    BY <2>5
  <2> QED
    BY <2>1, <2>2, <2>3, <2>4, <2>6
<1>7. CASE HalveFirst(c)
  <2>1. /\ c.depth < MaxDepth /\ attempt = 0 /\ sent = 0 /\ attempt' = 0 /\ sent' = 0
        /\ calls' = IF c.depth = 0 THEN 0 ELSE calls
        /\ todo' = Halves(c) \o Tail(todo)
    BY <1>7 DEF HalveFirst, Halve
  <2>2. Spent = 0 /\ Spent' = 0
    BY <2>1 DEF Spent
  <2>3. calls' \in 0..CallsPerChunk /\ calls' \in Nat
    BY <1>2, <2>1
  <2>4. /\ todo \in Seq(Chunk) /\ Cost(c.depth) \in Nat /\ Cost(0) = CallsPerChunk
    <3>1. todo \in Seq(Fitting) /\ Fitting \subseteq Chunk
      BY DEF Parts, Fitting
    <3>2. 0 \in 0..MaxDepth
      BY MiningBounds
    <3> QED
      BY <1>2, <3>1, <3>2, CostLaw
  <2>5. \E w \in [Nat -> Nat] :
          Pays(todo, w) /\ calls' + Cost(c.depth) + w[2] <= CallsPerChunk + 0
    <3>1. CASE c.depth = 0
      <4>1. PICK w \in [Nat -> Nat] : w[2] = 0 /\ Pays(todo, w)
        BY <1>2, <2>4, <3>1, NoneBegun
      <4>2. calls' = 0 /\ Cost(c.depth) = CallsPerChunk
        BY <2>1, <2>4, <3>1
      <4>3. PICK x \in Nat : x = CallsPerChunk
        BY <1>2
      <4>4. 0 + x + 0 <= x + 0
        OBVIOUS
      <4> QED
        BY <4>1, <4>2, <4>3, <4>4
    <3>2. CASE c.depth # 0
      <4>1. Affords(todo, calls, Spent)
        BY <1>2, <3>2 DEF Calling, Budget
      <4> QED
        BY <1>2, <2>1, <2>2, <3>2, <4>1 DEF Affords
    <3> QED
      BY <3>1, <3>2
  <2>6. PICK w \in [Nat -> Nat] :
          Pays(todo, w) /\ calls' + Cost(c.depth) + w[2] <= CallsPerChunk + 0
    BY <2>5
  <2>7. calls' + Cost(c.depth) + w[2] <= CallsPerChunk + 2 * Retries
    <3>1. PICK n \in Nat, x \in Nat, y \in Nat, p \in Nat, r \in Nat :
            n = calls' /\ x = Cost(c.depth) /\ y = w[2] /\ p = CallsPerChunk /\ r = Retries
      <4>1. 2 \in Nat
        OBVIOUS
      <4> QED
        BY <1>2, <1>4, <2>3, <2>4, <4>1
    <3>2. n + x + y <= p + 0
      BY <2>6, <3>1
    <3>3. n + x + y <= p + 2 * r
      BY <3>2
    <3> QED
      BY <3>1, <3>3
  <2>8. \A t, n : t = todo' /\ n = calls' => Group(t) /\ Affords(t, n, 0)
    BY <1>1, <1>2, <2>1, <2>3, <2>6, <2>7, HalvesPay
  <2> QED
    BY <1>5, <2>2, <2>3, <2>8
<1>8. CASE HalveAfter(c)
  <2>1. /\ Called(c) /\ c.depth < MaxDepth /\ attempt' = 0 /\ sent' = 0
        /\ todo' = Halves(c) \o Tail(todo)
    BY <1>8 DEF HalveAfter, Halve
  <2>2. \A t, n : t = todo' /\ n = calls' => Group(t) /\ Affords(t, n, 0)
    BY <1>1, <1>2, <1>6, <2>1, HalvesPay
  <2>3. Spent' = 0
    BY <2>1 DEF Spent
  <2> QED
    BY <1>5, <1>6, <2>1, <2>2, <2>3
<1>9. ASSUME Called(c), todo' = Tail(todo), attempt' = 0, sent' = 0 PROVE Calling'
  <2>1. \A t, n : t = todo' /\ n = calls' =>
          Group(t) /\ (t = <<>> \/ t[1].depth = 0 \/ Affords(t, n, 0))
    BY <1>1, <1>2, <1>6, <1>9, NextPays
  <2>2. Spent' = 0
    BY <1>9 DEF Spent
  <2> QED
    BY <1>5, <1>6, <1>9, <2>1, <2>2
<1>10. CASE TooDeep(c) \/ \E found \in Replies(c) : Reply(c, found)
  BY <1>9, <1>10 DEF TooDeep, Reply
\* A question put again: the same part, with one call more.
<1>11. ASSUME Called(c), UNCHANGED todo, Spent + 1 <= Spent', Spent' \in Nat PROVE Calling'
  <2>1. PICK w \in [Nat -> Nat] :
          /\ Pays(todo, w)
          /\ calls' + Cost(c.depth) + w[2] <= CallsPerChunk + Spent + 1
    BY <1>6, <1>11
  <2>2. calls' + Cost(c.depth) + w[2] <= CallsPerChunk + Spent'
    <3>1. PICK n \in Nat, x \in Nat, y \in Nat, p \in Nat, m \in Nat, q \in Nat :
            /\ n = calls' /\ x = Cost(c.depth) /\ y = w[2] /\ p = CallsPerChunk /\ m = Spent
            /\ q = Spent'
      <4>1. 2 \in Nat
        OBVIOUS
      <4> QED
        BY <1>2, <1>4, <1>6, <1>11, <4>1, CostLaw
    <3>2. n + x + y <= p + m + 1 /\ m + 1 <= q
      BY <1>11, <2>1, <3>1
    <3>3. n + x + y <= p + q
      BY <3>2
    <3> QED
      BY <3>1, <3>3
  <2>3. \A t, n : t = todo' /\ n = calls' => Group(t) /\ Affords(t, n, Spent')
    BY <1>2, <1>11, <2>1, <2>2 DEF Affords
  <2> QED
    BY <1>5, <1>6, <1>11, <2>3
<1>12. CASE CallUnavailable(c)
  <2>1. Called(c) /\ UNCHANGED <<todo, attempt>> /\ sent' = sent + 1 /\ sent \in Nat
    BY <1>12 DEF CallUnavailable, Parts
  <2>2. PICK x \in Nat, r \in Nat : x = sent /\ r = Retries
    BY <1>4, <2>1
  <2>3. Spent = (IF attempt = 1 THEN r + x ELSE x)
        /\ Spent' = (IF attempt = 1 THEN r + (x + 1) ELSE x + 1)
    BY <2>1, <2>2 DEF Spent
  <2>4. Spent + 1 <= Spent' /\ Spent' \in Nat
    BY <2>3
  <2> QED
    BY <1>11, <2>1, <2>4
<1>13. CASE CallFails(c)
  <2>1. Called(c) /\ UNCHANGED todo /\ phase' = "failed"
    BY <1>13 DEF CallFails
  <2> QED
    BY <1>2, <1>5, <1>6, <2>1
<1>14. CASE Malformed(c)
  <2>1. CASE attempt = 0 /\ attempt' = 1 /\ UNCHANGED <<todo, failed>>
    <3>1. Called(c) /\ sent' = 0
      BY <1>14 DEF Malformed
    <3>2. Spent' = Retries + 0 /\ Spent + 1 <= Retries
      BY <2>1, <3>1, AskedTwice DEF Spent
    <3>3. Spent' = Retries
      BY <1>4, <3>2
    <3> QED
      BY <1>4, <1>11, <2>1, <3>1, <3>2, <3>3
  <2>2. CASE attempt' = 0 /\ todo' = Tail(todo)
    BY <1>9, <1>14, <2>2 DEF Malformed
  <2> QED
    BY <1>14, <2>1, <2>2 DEF Malformed
<1> QED
  BY <1>2, <1>7, <1>8, <1>10, <1>12, <1>13, <1>14 DEF Process

LEMMA BuildCalls == ASSUME Parts, Calling, NEW e, BuildChunk(e) PROVE Calling'
<1>1. PICK c : c.depth = 0 /\ todo' = Append(todo, c)
  <2>1. \E x : todo' = Append(todo, x) /\ x.depth = 0
    BY DEF BuildChunk, Cut
  <2> QED
    BY <2>1
<1>2. phase = "chunking" /\ UNCHANGED <<phase, attempt, sent, calls>>
  BY DEF BuildChunk
<1>3. PICK l \in Nat : l = Len(todo) /\ DOMAIN todo = 1..l
  BY LenProperties DEF Parts
<1>4. todo \in Seq(Fitting)
  BY DEF Parts
<1>5. PICK t : t = todo'
  OBVIOUS
<1>6. DOMAIN t = 1..l + 1 /\ Len(t) = l + 1 /\ \A k \in 1..l + 1 : t[k].depth = 0
  <2>1. Len(t) = l + 1 /\ DOMAIN t = 1..l + 1
    BY <1>1, <1>3, <1>4, <1>5
  <2>2. \A k \in 1..l : t[k] = todo[k]
    BY <1>1, <1>3, <1>4, <1>5
  <2>3. t[l + 1] = c
    BY <1>1, <1>3, <1>4, <1>5
  <2>4. \A k \in 1..l : todo[k].depth = 0
    BY <1>2, <1>3 DEF Calling
  <2>5. \A k \in 1..l + 1 : k \in 1..l \/ k = l + 1
    OBVIOUS
  <2> QED
    BY <1>1, <2>1, <2>2, <2>3, <2>4, <2>5
<1>7. Group(t)
  BY <1>6 DEF Group
<1>8. Group(todo)' /\ \A k \in DOMAIN todo' : todo'[k].depth = 0
  BY <1>5, <1>6, <1>7
<1>9. Budget'
  BY <1>2 DEF Budget
<1> QED
  BY <1>2, <1>8, <1>9 DEF Calling

LEMMA MarkerCalls == ASSUME Parts, Calling, BuildMarker PROVE Calling'
<1>1. phase = "chunking" /\ UNCHANGED <<phase, attempt, sent, calls>>
  BY DEF BuildMarker
<1>2. PICK t : t = todo' /\ Len(t) = 1 /\ DOMAIN t = 1..1 /\ t[1].depth = 0
  BY DEF BuildMarker
<1>3. Group(t)
  BY <1>2 DEF Group
<1>4. Group(todo)' /\ \A k \in DOMAIN todo' : todo'[k].depth = 0
  BY <1>2, <1>3
<1>5. Budget'
  BY <1>1 DEF Budget
<1> QED
  BY <1>1, <1>4, <1>5 DEF Calling

LEMMA CallsStep == Parts /\ Calling /\ [Next]_vars => Calling'
<1> SUFFICES ASSUME Parts, Calling, [Next]_vars PROVE Calling'
  OBVIOUS
<1>1. ASSUME UNCHANGED <<todo, attempt, sent, calls>>,
             \/ phase' \in {"auditing", "ready", "failed", phase}
             \/ phase = "reading" /\ phase' = "chunking"
      PROVE  Calling'
  <2>1. Group(todo)'
    BY <1>1 DEF Calling
  <2>2. Spent' = Spent
    BY <1>1 DEF Spent
  <2>3. Budget'
    BY <1>1, <2>2 DEF Calling, Budget
  <2> QED
    BY <1>1, <2>1, <2>3 DEF Calling
<1>2. CASE ReadPages
  <2>1. phase = "reading" /\ phase' \in {"ready", "chunking"}
        /\ UNCHANGED <<todo, attempt, sent, calls>>
    BY <1>2 DEF ReadPages
  <2> QED
    BY <1>1, <2>1
<1>3. CASE ReadFails \/ ChunkCapExceeded \/ EndMining \/ Audit \/ UNCHANGED vars
  <2>1. /\ UNCHANGED <<todo, attempt, sent, calls>>
        /\ phase' \in {"auditing", "ready", "failed", phase}
    BY <1>3 DEF ReadFails, ChunkCapExceeded, EndMining, Audit, Fail, vars
  <2> QED
    BY <1>1, <2>1
<1>4. CASE StartMining
  <2>1. phase = "chunking" /\ phase' = "mining" /\ UNCHANGED <<todo, attempt, sent, calls>>
    BY <1>4 DEF StartMining
  <2>2. attempt' = 0 /\ sent' = 0 /\ \A k \in DOMAIN todo : todo[k].depth = 0
    BY <2>1 DEF Calling
  <2>3. Spent' = 0
    BY <2>2 DEF Spent
  <2>4. todo # <<>> => todo[1].depth = 0
    BY <2>2, FirstFits
  <2>5. Budget'
    BY <2>1, <2>3, <2>4 DEF Budget
  <2> QED
    BY <2>1, <2>5 DEF Calling
<1> QED
  BY <1>2, <1>3, <1>4, MarkerCalls, BuildCalls, ProcessCalls DEF Next

LEMMA CallsStart == Init => Calling
<1> SUFFICES ASSUME Init PROVE Calling
  OBVIOUS
<1>1. calls \in 0..CallsPerChunk
  BY BoundIsNat DEF Init
<1>2. todo = <<>> /\ phase = "reading" /\ calls = 0 /\ attempt = 0 /\ sent = 0
  BY DEF Init
<1>3. Group(todo) /\ \A k \in DOMAIN todo : todo[k].depth = 0
  BY <1>2 DEF Group
<1>4. Budget
  BY <1>2 DEF Budget
<1> QED
  BY <1>1, <1>2, <1>3, <1>4 DEF Calling

\* Everything a run keeps has its type: pages and text are the document's, chunks
\* lie in the text, and no chunk is asked about more often than its halvings and
\* retries allow, for every MAX_RECHUNK_DEPTH and PROVIDER_RETRIES.
THEOREM MiningTypeCorrect == Spec => []TypeOK
<1>1. Init => Parts /\ Calling
  BY PartsStart, CallsStart
<1>2. Parts /\ Calling /\ [Next]_vars => (Parts /\ Calling)'
  BY PartsStep, CallsStep
<1>3. Parts /\ Calling => TypeOK
  <2> SUFFICES ASSUME Parts, Calling PROVE TypeOK
    OBVIOUS
  <2>1. todo \in Seq(Chunk)
    <3>1. todo \in Seq(Fitting) /\ Fitting \subseteq Chunk
      BY DEF Parts, Fitting
    <3> QED
      BY <3>1
  <2> QED
    BY <2>1 DEF Parts, Calling, TypeOK, Unit
<1> QED
  BY <1>1, <1>2, <1>3, PTL DEF Spec
=============================================================================
