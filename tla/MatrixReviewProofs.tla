------------------------ MODULE MatrixReviewProofs ------------------------
(***************************************************************************)
(* Proofs about the matrix of a document, for any number of overlapping    *)
(* requests: types, that nothing found is lost, that generated rows stay   *)
(* in document order, and that a new extraction keeps what a person did.   *)
(*                                                                         *)
(* NothingLost is nearly inductive.  DocumentOrder and ReviewSurvives need *)
(* to know what may have appeared since persist_mine_result read the rows: *)
(* restored rows only (Unread), and that restored rows are told from       *)
(* generated ones by their clause id (Sources).                            *)
(***************************************************************************)
EXTENDS MatrixReview, FiniteSetTheorems, TLAPS

Finite == /\ IsFiniteSet(rows)
          /\ existing # None => IsFiniteSet(existing)

Sources == /\ \A row \in rows : row.source = "model" <=> row.line = 0
           /\ \A line \in lines : line.seq >= 1

Unread == existing # None =>
  /\ nruns < MaxRuns
  /\ \A row \in rows :
       row.source = "model" => \E old \in existing : Id(old) = Id(row)

IInv == TypeOK /\ Finite /\ Sources /\ Unread /\ NothingLost /\ DocumentOrder

-----------------------------------------------------------------------------
(* Rows.                                                                   *)

LEMMA SeqUpdate ==
  ASSUME NEW row \in Row, NEW n \in Nat
  PROVE  /\ [row EXCEPT !.seq = n] \in Row
         /\ [row EXCEPT !.seq = n] =
              [run |-> row.run, item |-> row.item, source |-> row.source,
               copy |-> row.copy, line |-> row.line, seq |-> n,
               checked |-> row.checked]
BY DEF Row

LEMMA CheckUpdate ==
  ASSUME NEW row \in Row, NEW b \in BOOLEAN
  PROVE  /\ [row EXCEPT !.checked = b] \in Row
         /\ [row EXCEPT !.checked = b] =
              [run |-> row.run, item |-> row.item, source |-> row.source,
               copy |-> row.copy, line |-> row.line, seq |-> row.seq,
               checked |-> b]
BY DEF Row

LEMMA LineUpdates ==
  ASSUME NEW line \in Line, NEW b \in BOOLEAN
  PROVE  LET new == Marked(line, b)
         IN /\ new \in Line
            /\ new.run = line.run /\ new.item = line.item
            /\ new.panel = line.panel /\ new.seq = line.seq
            /\ new.re_included = TRUE /\ new.failed = b
BY DEF Line, Marked

LEMMA IdEquality ==
  ASSUME NEW a, NEW b
  PROVE  Id(a) = Id(b) <=> /\ a.run = b.run /\ a.item = b.item
                           /\ a.source = b.source /\ a.copy = b.copy
BY DEF Id

LEMMA FoundItems == ASSUME NEW m, NEW v PROVE Found(m, v) \in SUBSET Items
BY DEF Found

LEMMA FoundMention ==
  ASSUME NEW m \in SUBSET Mentions, NEW mention \in m
  PROVE  /\ mention.item \in Found(m, mention.verdict)
         /\ mention.verdict \in {"row"} \cup Panels
<1>1. mention \in [item : Items, verdict : {"row"} \cup Panels]
  BY DEF Mentions
<1>2. mention = [item |-> mention.item, verdict |-> mention.verdict]
  BY <1>1
<1>3. QED
  BY <1>1, <1>2 DEF Found

\* Rank counts: it is positive within S, and grows with the item.
LEMMA RankType ==
  ASSUME NEW S \in SUBSET Items, NEW i \in Items
  PROVE  Rank(i, S) \in Nat /\ (i \in S => Rank(i, S) >= 1)
<1> DEFINE T == {j \in S : j <= i}
<1>1. T \in SUBSET Items
  OBVIOUS
<1>2. IsFiniteSet(T) /\ Cardinality(T) \in Nat
  BY <1>1, ReviewBounds, FS_Subset, FS_CardinalityType
<1>3. i \in S => T # {}
  BY ReviewBounds
<1>4. Cardinality(T) = 0 <=> T = {}
  BY <1>2, FS_EmptySet
<1>5. Rank(i, S) = Cardinality(T)
  BY DEF Rank
<1> HIDE DEF T
<1>6. QED
  BY <1>2, <1>3, <1>4, <1>5

LEMMA RankGrows ==
  ASSUME NEW S \in SUBSET Items, NEW i \in S, NEW j \in S, i < j
  PROVE  Rank(i, S) < Rank(j, S)
<1> DEFINE T == {k \in S : k <= i}
           U == {k \in S : k <= j}
<1>1. i \in Nat /\ j \in Nat /\ S \subseteq Nat
  BY ReviewBounds
<1>2. T \in SUBSET U /\ j \in U /\ j \notin T
  <2>1. \A k \in S : k <= i => k <= j
    BY <1>1
  <2>2. j <= j /\ ~(j <= i)
    BY <1>1
  <2>3. QED
    BY <2>1, <2>2
<1>3. U \in SUBSET Items
  OBVIOUS
<1>4. Rank(i, S) = Cardinality(T) /\ Rank(j, S) = Cardinality(U)
  BY DEF Rank
<1> HIDE DEF T, U
<1>5. IsFiniteSet(U)
  BY <1>3, ReviewBounds, FS_Subset
<1>6. /\ IsFiniteSet(T) /\ Cardinality(T) <= Cardinality(U)
      /\ Cardinality(U) = Cardinality(T) => U = T
  BY <1>2, <1>5, FS_Subset
<1>7. Cardinality(T) \in Nat /\ Cardinality(U) \in Nat
  BY <1>5, <1>6, FS_CardinalityType
<1>8. QED
  BY <1>2, <1>4, <1>6, <1>7

-----------------------------------------------------------------------------
(* persist_mine_result.                                                    *)

Generated(new, m) == /\ new.source = "model" /\ new.line = 0
                     /\ new.item \in Found(m, "row")
                     /\ new.seq = Rank(new.item, Found(m, "row"))

Untouched(new, row) == /\ row.source # "model"
                       /\ Id(new) = Id(row) /\ new.line = row.line

\* The rows it keeps by updating them in place.
LEMMA RetainedRows ==
  ASSUME IInv, existing # None, NEW m \in SUBSET Mentions,
         NEW row \in Retained(m)
  PROVE  LET new == InPlaceUpdate(row, row.item, m)
         IN /\ row \in rows /\ row.source = "model"
            /\ new \in Row /\ Generated(new, m)
            /\ new.item = row.item /\ Id(new) = Id(row)
            /\ new.checked = row.checked
<1> DEFINE new == InPlaceUpdate(row, row.item, m)
           n == Rank(row.item, Found(m, "row"))
<1>1. /\ row \in rows /\ row \in Row /\ row.line = 0
      /\ row.item \in Found(m, "row")
  BY DEF Retained, Matches, IInv, TypeOK
<1>2. row.source = "model"
  BY <1>1 DEF IInv, Sources
<1>3. Found(m, "row") \in SUBSET Items /\ row.item \in Items
  BY <1>1, FoundItems
<1>4. n \in Nat
  BY <1>3, RankType
<1>5. new = [row EXCEPT !.seq = n]
  BY DEF InPlaceUpdate
<1> HIDE DEF n
<1>6. /\ new \in Row
      /\ new = [run |-> row.run, item |-> row.item, source |-> row.source,
                copy |-> row.copy, line |-> row.line, seq |-> n,
                checked |-> row.checked]
  BY <1>1, <1>4, <1>5, SeqUpdate
<1> HIDE DEF new
<1>7. /\ new.item = row.item /\ new.seq = n /\ new.checked = row.checked
      /\ new.source = "model" /\ new.line = 0 /\ new.run = row.run
      /\ new.copy = row.copy
  BY <1>1, <1>2, <1>6
<1>8. Id(new) = Id(row)
  BY <1>2, <1>7, IdEquality
<1>9. Generated(new, m)
  BY <1>1, <1>7 DEF Generated, n
<1>10. QED
  BY <1>1, <1>2, <1>6, <1>7, <1>8, <1>9 DEF new

\* The rows it adds.
LEMMA AddedRows ==
  ASSUME IInv, existing # None, NEW m \in SUBSET Mentions, NEW i \in Missing(m)
  PROVE  /\ NewRow(i, m) \in Row
         /\ Generated(NewRow(i, m), m)
         /\ NewRow(i, m).item = i
<1>1. i \in Found(m, "row") /\ i \in Items
  BY FoundItems DEF Missing
<1>2. Rank(i, Found(m, "row")) \in Nat
  BY <1>1, FoundItems, RankType
<1>3. nruns + 1 \in 1..MaxRuns
  BY ReviewBounds DEF IInv, TypeOK, Unread
<1>4. 0 \in 0..MaxCopies
  BY ReviewBounds
<1>5. NewRow(i, m) \in Row
  BY <1>1, <1>2, <1>3, <1>4 DEF NewRow, Row
<1>6. QED
  BY <1>1, <1>5 DEF NewRow, Generated

\* The rows of a person it renumbers.
LEMMA KeptRows ==
  ASSUME IInv, existing # None, NEW m \in SUBSET Mentions,
         NEW order \in Orders(Kept(m)), NEW row \in Kept(m)
  PROVE  LET new == Renumbered(row, m, order)
         IN /\ row \in rows /\ new \in Row /\ Untouched(new, row)
            /\ new.checked = row.checked
<1> DEFINE K == Kept(m)
           new == Renumbered(row, m, order)
           n == Cardinality(Found(m, "row")) + order[Id(row)]
<1>1. row \in rows /\ row \in Row
  BY DEF Kept, IInv, TypeOK
<1>2. row.source # "model"
  BY IdEquality DEF Kept, Preserved
<1>3. IsFiniteSet(K) /\ Cardinality(K) \in Nat
  BY FS_Subset, FS_CardinalityType DEF Kept, IInv, Finite
<1>4. order[Id(row)] \in 1..Cardinality(K)
  BY DEF Orders
<1>5. Cardinality(Found(m, "row")) \in Nat
  BY FoundItems, ReviewBounds, FS_Subset, FS_CardinalityType
<1> HIDE DEF K
<1>6. n \in Nat
  BY <1>3, <1>4, <1>5
<1>7. new = [row EXCEPT !.seq = n]
  BY DEF Renumbered
<1> HIDE DEF n
<1>8. /\ new \in Row
      /\ new = [run |-> row.run, item |-> row.item, source |-> row.source,
                copy |-> row.copy, line |-> row.line, seq |-> n,
                checked |-> row.checked]
  BY <1>1, <1>6, <1>7, SeqUpdate
<1> HIDE DEF new
<1>9. /\ new.item = row.item /\ new.checked = row.checked
      /\ new.source = row.source /\ new.line = row.line /\ new.run = row.run
      /\ new.copy = row.copy
  BY <1>8
<1>10. Untouched(new, row)
  BY <1>2, <1>9, IdEquality DEF Untouched
<1>11. QED
  BY <1>1, <1>8, <1>9, <1>10 DEF new

\* The rows it did not see.
LEMMA UnseenRows ==
  ASSUME IInv, existing # None, NEW row \in Unseen
  PROVE  row \in rows /\ row \in Row /\ Untouched(row, row)
<1>1. row \in rows /\ row \in Row
  BY DEF Unseen, IInv, TypeOK
<1>2. row.source # "model"
  BY <1>1 DEF IInv, Unread, Unseen
<1>3. QED
  BY <1>1, <1>2 DEF Untouched

\* Every row of the new matrix is of one of these kinds.
LEMMA NewRowKinds ==
  ASSUME IInv, existing # None, NEW m \in SUBSET Mentions,
         NEW order \in Orders(Kept(m)), NEW new \in NewRows(m, order)
  PROVE  /\ new \in Row
         /\ Generated(new, m) \/ \E row \in rows : Untouched(new, row)
<1>1. CASE \E row \in Retained(m) : new = InPlaceUpdate(row, row.item, m)
  BY <1>1, RetainedRows
<1>2. CASE \E i \in Missing(m) : new = NewRow(i, m)
  BY <1>2, AddedRows
<1>3. CASE \E row \in Kept(m) : new = Renumbered(row, m, order)
  BY <1>3, KeptRows
<1>4. CASE new \in Unseen
  BY <1>4, UnseenRows
<1>5. QED
  BY <1>1, <1>2, <1>3, <1>4 DEF NewRows

LEMMA NewRowsFinite ==
  ASSUME IInv, existing # None, NEW m \in SUBSET Mentions, NEW order
  PROVE  IsFiniteSet(NewRows(m, order))
<1> DEFINE R == Retained(m)
           f == [row \in R |-> InPlaceUpdate(row, row.item, m)]
           A == {InPlaceUpdate(row, row.item, m) : row \in R}
           I == Missing(m)
           g == [i \in I |-> NewRow(i, m)]
           B == {NewRow(i, m) : i \in I}
           K == Kept(m)
           h == [row \in K |-> Renumbered(row, m, order)]
           C == {Renumbered(row, m, order) : row \in K}
<1>1. IsFiniteSet(rows)
  BY DEF IInv, Finite
<1>2. IsFiniteSet(R) /\ IsFiniteSet(K) /\ IsFiniteSet(Unseen)
  BY <1>1, FS_Subset DEF Retained, Kept, Unseen
<1>3. IsFiniteSet(I)
  <2>1. I \in SUBSET Items
    BY FoundItems DEF Missing
  <2>2. QED
    BY <2>1, ReviewBounds, FS_Subset
<1>4. NewRows(m, order) = ((A \cup B) \cup C) \cup Unseen
  BY DEF NewRows
<1> HIDE DEF R, I, K
<1>5. f \in Surjection(R, A) /\ g \in Surjection(I, B) /\ h \in Surjection(K, C)
  BY DEF Surjection
<1> HIDE DEF A, B, C, f, g, h
<1>6. IsFiniteSet(A) /\ IsFiniteSet(B) /\ IsFiniteSet(C)
  BY <1>2, <1>3, <1>5, FS_Surjection
<1>7. IsFiniteSet(A \cup B)
  BY <1>6, FS_Union
<1>8. IsFiniteSet((A \cup B) \cup C)
  BY <1>6, <1>7, FS_Union
<1>9. QED
  BY <1>2, <1>4, <1>8, FS_Union

\* No item gets two generated rows.
LEMMA GeneratedOnce ==
  ASSUME IInv, existing # None, NEW m \in SUBSET Mentions,
         NEW order \in Orders(Kept(m)),
         NEW a \in NewRows(m, order), NEW b \in NewRows(m, order),
         a.source = "model", b.source = "model", a.item = b.item
  PROVE  a = b
<1>1. ASSUME NEW new \in NewRows(m, order), new.source = "model"
      PROVE  \/ \E row \in Retained(m) : new = InPlaceUpdate(row, row.item, m)
             \/ \E i \in Missing(m) : new = NewRow(i, m)
  <2>1. CASE \E row \in Kept(m) : new = Renumbered(row, m, order)
    <3>1. PICK row \in Kept(m) : new = Renumbered(row, m, order)
      BY <2>1
    <3>2. Untouched(new, row)
      BY <3>1, KeptRows
    <3>3. QED
      BY <1>1, <3>2, IdEquality DEF Untouched
  <2>2. CASE new \in Unseen
    BY <1>1, <2>2, UnseenRows DEF Untouched
  <2>3. QED
    BY <2>1, <2>2 DEF NewRows
<1>2. ASSUME NEW x \in Retained(m), NEW y \in Retained(m), x.item = y.item
      PROVE  x = y
  <2>1. /\ x \in rows /\ y \in rows /\ x.source = "model" /\ y.source = "model"
        /\ x.item \in Nat /\ x \in Row /\ y \in Row
    BY RetainedRows, ReviewBounds DEF IInv, TypeOK, Row
  <2>2. QED
    BY <1>2, <2>1 DEF IInv, DocumentOrder
<1>3. ASSUME NEW x \in Retained(m), NEW i \in Missing(m)
      PROVE  x.item # i
  BY DEF Missing, Retained, Matches
<1>4. CASE \E x \in Retained(m) : a = InPlaceUpdate(x, x.item, m)
  <2>1. PICK x \in Retained(m) : a = InPlaceUpdate(x, x.item, m)
    BY <1>4
  <2>2. a.item = x.item
    BY <2>1, RetainedRows
  <2>3. CASE \E y \in Retained(m) : b = InPlaceUpdate(y, y.item, m)
    <3>1. PICK y \in Retained(m) : b = InPlaceUpdate(y, y.item, m)
      BY <2>3
    <3>2. b.item = y.item
      BY <3>1, RetainedRows
    <3>3. x.item = y.item
      BY <2>1, <2>2, <3>1, <3>2
    <3>4. x = y
      BY <1>2, <3>3
    <3>5. QED
      BY <2>1, <3>1, <3>4
  <2>4. CASE \E i \in Missing(m) : b = NewRow(i, m)
    <3>1. PICK i \in Missing(m) : b = NewRow(i, m)
      BY <2>4
    <3>2. b.item = i
      BY <3>1, AddedRows
    <3>3. x.item # i
      BY <1>3
    <3>4. QED
      BY <2>2, <3>2, <3>3
  <2>5. QED
    BY <1>1, <2>3, <2>4
<1>5. CASE \E i \in Missing(m) : a = NewRow(i, m)
  <2>1. PICK i \in Missing(m) : a = NewRow(i, m)
    BY <1>5
  <2>2. a.item = i
    BY <2>1, AddedRows
  <2>3. CASE \E y \in Retained(m) : b = InPlaceUpdate(y, y.item, m)
    <3>1. PICK y \in Retained(m) : b = InPlaceUpdate(y, y.item, m)
      BY <2>3
    <3>2. b.item = y.item
      BY <3>1, RetainedRows
    <3>3. QED
      BY <1>3, <2>2, <3>1, <3>2
  <2>4. CASE \E k \in Missing(m) : b = NewRow(k, m)
    BY <2>1, <2>2, <2>4, AddedRows
  <2>5. QED
    BY <1>1, <2>3, <2>4
<1>6. QED
  BY <1>1, <1>4, <1>5

\* Every item that is found gets its row, and every other mention its line.
LEMMA RowForItem ==
  ASSUME IInv, existing # None, NEW m \in SUBSET Mentions,
         NEW order, NEW i \in Found(m, "row")
  PROVE  \E new \in NewRows(m, order) : Matches(new, i)
<1>1. CASE i \in Missing(m)
  <2>1. Matches(NewRow(i, m), i)
    BY <1>1, AddedRows DEF Matches, Generated
  <2>2. QED
    BY <1>1, <2>1 DEF NewRows
<1>2. CASE i \notin Missing(m)
  <2>1. PICK row \in Retained(m) : Matches(row, i)
    BY <1>2 DEF Missing
  <2>2. Matches(InPlaceUpdate(row, row.item, m), i)
    BY <2>1, RetainedRows DEF Matches, Generated
  <2>3. QED
    BY <2>2 DEF NewRows
<1>3. QED
  BY <1>1, <1>2

NewLine(i, p, m) ==
  [run |-> nruns + 1, item |-> i, panel |-> p, seq |-> Rank(i, Found(m, p)),
   re_included |-> FALSE, failed |-> FALSE]

LEMMA NewLineTyping ==
  ASSUME IInv, existing # None, NEW m \in SUBSET Mentions, NEW p \in Panels,
         NEW i \in Found(m, p)
  PROVE  NewLine(i, p, m) \in Line /\ NewLine(i, p, m).seq >= 1
<1>1. i \in Items /\ Found(m, p) \in SUBSET Items
  BY FoundItems
<1>2. Rank(i, Found(m, p)) \in Nat /\ Rank(i, Found(m, p)) >= 1
  BY <1>1, RankType
<1>3. nruns + 1 \in 1..MaxRuns
  BY ReviewBounds DEF IInv, TypeOK, Unread
<1>4. QED
  BY <1>1, <1>2, <1>3 DEF NewLine, Line

LEMMA NewLinesForm ==
  ASSUME NEW m
  PROVE  \A line : line \in NewLines(m) <=>
           \E p \in Panels : \E i \in Found(m, p) : line = NewLine(i, p, m)
BY DEF NewLines, NewLine

LEMMA PersistCommitIInv ==
  ASSUME IInv, NEW m \in Extractions, PersistCommit(m)
  PROVE  IInv'
<1>1. m \in SUBSET Mentions /\ existing # None
  BY ReviewBounds DEF PersistCommit
<1>2. PICK order \in Orders(Kept(m)) : rows' = NewRows(m, order)
  BY DEF PersistCommit
<1>3. /\ lines' = NewLines(m) /\ mined' = m /\ nruns' = nruns + 1
      /\ state' = "ready" /\ existing' = None
      /\ file' = file /\ req' = req /\ restarts' = restarts
  BY DEF PersistCommit
<1>4. \A line \in lines' : line \in Line /\ line.seq >= 1
  BY <1>1, <1>3, NewLinesForm, NewLineTyping
<1>5. \A row \in rows' : /\ row \in Row
                         /\ Generated(row, m) \/ \E old \in rows : Untouched(row, old)
  BY <1>1, <1>2, NewRowKinds
<1>6. TypeOK'
  <2>1. nruns' \in 0..MaxRuns
    BY <1>1, <1>3, ReviewBounds DEF IInv, TypeOK, Unread
  <2>2. rows' \subseteq Row /\ lines' \subseteq Line
    BY <1>4, <1>5
  <2>3. QED
    BY <1>1, <1>3, <2>1, <2>2 DEF IInv, TypeOK
<1>7. Finite'
  BY <1>1, <1>2, <1>3, NewRowsFinite DEF Finite
<1>8. Sources'
  <2>1. ASSUME NEW row \in rows' PROVE row.source = "model" <=> row.line = 0
    <3>1. CASE Generated(row, m)
      BY <3>1 DEF Generated
    <3>2. CASE \E old \in rows : Untouched(row, old)
      <4>1. PICK old \in rows : Untouched(row, old)
        BY <3>2
      <4>2. row.source = old.source /\ row.line = old.line
        BY <4>1, IdEquality DEF Untouched
      <4>3. QED
        BY <4>2 DEF IInv, Sources
    <3>3. QED
      BY <1>5, <3>1, <3>2
  <2>2. QED
    BY <1>4, <2>1 DEF Sources
<1>9. Unread'
  BY <1>3 DEF Unread
<1>10. NothingLost'
  <2>1. SUFFICES ASSUME NEW mention \in m PROVE Placed(mention)'
    BY <1>3 DEF NothingLost
  <2>2. /\ mention.item \in Found(m, mention.verdict)
        /\ mention.verdict \in {"row"} \cup Panels
    BY <1>1, FoundMention
  <2>3. CASE mention.verdict = "row"
    <3>1. \E new \in rows' : Matches(new, mention.item)
      BY <1>1, <1>2, <2>2, <2>3, RowForItem
    <3>2. QED
      BY <2>3, <3>1 DEF Placed, Matches
  <2>4. CASE mention.verdict # "row"
    <3> DEFINE line == NewLine(mention.item, mention.verdict, m)
    <3>1. line \in lines'
      BY <1>3, <2>2, <2>4, NewLinesForm
    <3>2. /\ line.panel = mention.verdict /\ line.item = mention.item
          /\ ~line.re_included
      BY DEF NewLine
    <3>3. QED
      BY <2>4, <3>1, <3>2 DEF Placed
  <2>5. QED
    BY <2>3, <2>4
<1>11. DocumentOrder'
  <2>1. SUFFICES ASSUME NEW a \in rows', NEW b \in rows',
                        a.source = "model", b.source = "model", a # b
                 PROVE  \/ a.item < b.item /\ a.seq < b.seq
                        \/ b.item < a.item /\ b.seq < a.seq
    BY DEF DocumentOrder
  <2>2. a.item # b.item
    BY <1>1, <1>2, <2>1, GeneratedOnce
  <2>3. ASSUME NEW row \in rows', row.source = "model" PROVE Generated(row, m)
    BY <1>5, <2>3, IdEquality DEF Untouched
  <2>4. Generated(a, m) /\ Generated(b, m)
    BY <2>1, <2>3
  <2>5. a.item \in Nat /\ b.item \in Nat
    BY <2>4, FoundItems, ReviewBounds DEF Generated
  <2>6. CASE a.item < b.item
    BY <2>4, <2>6, FoundItems, RankGrows DEF Generated
  <2>7. CASE b.item < a.item
    BY <2>4, <2>7, FoundItems, RankGrows DEF Generated
  <2>8. QED
    BY <2>2, <2>5, <2>6, <2>7
<1>12. QED
  BY <1>6, <1>7, <1>8, <1>9, <1>10, <1>11 DEF IInv

-----------------------------------------------------------------------------
(* The other steps.                                                        *)

LEMMA InitIInv == Init => IInv
<1> SUFFICES ASSUME Init PROVE IInv
  OBVIOUS
<1>1. TypeOK
  BY ReviewBounds DEF Init, TypeOK
<1>2. Finite /\ Sources /\ Unread
  BY FS_EmptySet DEF Init, Finite, Sources, Unread
<1>3. NothingLost /\ DocumentOrder
  BY DEF Init, NothingLost, DocumentOrder
<1>4. QED
  BY <1>1, <1>2, <1>3 DEF IInv

\* A step that leaves rows and lines alone, and makes no matrix ready but an
\* empty one.
LEMMA QuietIInv ==
  ASSUME IInv, UNCHANGED <<rows, lines, nruns>>,
         existing' \in {None, existing, rows},
         existing' # None => nruns < MaxRuns,
         state' \in {"received", "ready", "failed", "expired"},
         mined' \in {{}, mined},
         state' = "ready" => (state = "ready" /\ mined' = mined) \/ mined' = {},
         file' \in BOOLEAN,
         req' \in [Requests -> {Idle} \cup Patching \cup Restoring],
         restarts' = restarts
  PROVE  IInv'
<1>1. TypeOK'
  BY DEF IInv, TypeOK
<1>2. Finite' /\ Sources'
  BY DEF IInv, Finite, Sources
<1>3. Unread'
  BY DEF IInv, Unread
<1>4. NothingLost'
  <2>1. \A mention : Placed(mention) => Placed(mention)'
    BY DEF Placed, Copies, Matches
  <2>2. QED
    BY <2>1 DEF IInv, NothingLost
<1>5. DocumentOrder'
  BY DEF IInv, DocumentOrder
<1>6. QED
  BY <1>1, <1>2, <1>3, <1>4, <1>5 DEF IInv

LEMMA RequeueIInv == ASSUME IInv, Requeue PROVE IInv'
<1>1. /\ rows' = Verified /\ rows' \in SUBSET rows /\ lines' = {}
      /\ existing' = None /\ state' = "received"
      /\ UNCHANGED <<file, mined, nruns, req>>
  BY DEF Requeue, Verified
<1>2. restarts' \in 0..MaxRestarts
  BY ReviewBounds DEF Requeue, IInv, TypeOK
<1>3. TypeOK'
  BY <1>1, <1>2 DEF IInv, TypeOK
<1>4. Finite'
  BY <1>1, FS_Subset DEF IInv, Finite
<1>5. Sources' /\ Unread' /\ NothingLost' /\ DocumentOrder'
  BY <1>1 DEF IInv, Sources, Unread, NothingLost, DocumentOrder
<1>6. QED
  BY <1>3, <1>4, <1>5 DEF IInv

\* The request ends: nothing else in req changes.
LEMMA AnswerTyping ==
  ASSUME TypeOK, NEW q \in Requests, Answer(q)
  PROVE  req' \in [Requests -> {Idle} \cup Patching \cup Restoring]
BY DEF TypeOK, Answer

LEMMA PatchWriteIInv ==
  ASSUME IInv, NEW q \in Requests, PatchWrite(q)
  PROVE  IInv'
<1>1. PICK row \in rows :
        rows' = (rows \ {row}) \cup {[row EXCEPT !.checked = req[q].op = "check"]}
  BY DEF PatchWrite
<1> DEFINE b == req[q].op = "check"
           new == [row EXCEPT !.checked = b]
<1>2. /\ UNCHANGED <<state, file, mined, nruns, lines, existing, restarts>>
      /\ Answer(q)
  BY DEF PatchWrite
<1>3. rows' = (rows \ {row}) \cup {new}
  BY <1>1
<1>4. b \in BOOLEAN /\ row \in Row
  BY DEF IInv, TypeOK
<1> HIDE DEF b
<1>5. /\ new \in Row
      /\ new = [run |-> row.run, item |-> row.item, source |-> row.source,
                copy |-> row.copy, line |-> row.line, seq |-> row.seq,
                checked |-> b]
  BY <1>4, CheckUpdate
<1> HIDE DEF new
<1>6. /\ new.run = row.run /\ new.item = row.item /\ new.source = row.source
      /\ new.copy = row.copy /\ new.line = row.line /\ new.seq = row.seq
  BY <1>5
<1>7. \A r \in rows' : \E old \in rows :
        /\ r.run = old.run /\ r.item = old.item /\ r.source = old.source
        /\ r.copy = old.copy /\ r.line = old.line /\ r.seq = old.seq
        /\ r = new <=> old = row
        /\ r # new => r = old
  BY <1>3, <1>6
<1>8. \A old \in rows : \E r \in rows' :
        /\ r.run = old.run /\ r.item = old.item /\ r.source = old.source
        /\ r.copy = old.copy /\ r.line = old.line
  BY <1>3, <1>6
<1>9. TypeOK'
  <2>1. rows' \subseteq Row
    BY <1>3, <1>5 DEF IInv, TypeOK
  <2>2. QED
    BY <1>2, <2>1, AnswerTyping DEF IInv, TypeOK
<1>10. Finite'
  <2>1. IsFiniteSet(rows \ {row})
    BY FS_RemoveElement DEF IInv, Finite
  <2>2. IsFiniteSet(rows')
    BY <1>3, <2>1, FS_AddElement
  <2>3. QED
    BY <1>2, <2>2 DEF IInv, Finite
<1>11. Sources'
  BY <1>2, <1>7 DEF IInv, Sources
<1>12. Unread'
  <2>1. SUFFICES ASSUME existing # None, NEW r \in rows', r.source = "model"
                 PROVE  \E o \in existing : Id(o) = Id(r)
    BY <1>2 DEF IInv, Unread
  <2>2. PICK old \in rows : old.source = "model" /\ Id(old) = Id(r)
    BY <1>7, <2>1, IdEquality
  <2>3. QED
    BY <2>1, <2>2 DEF IInv, Unread
<1>13. NothingLost'
  <2>1. SUFFICES ASSUME NEW mention \in mined, Placed(mention)
                 PROVE  Placed(mention)'
    BY <1>2 DEF IInv, NothingLost
  <2>2. CASE mention.verdict = "row"
    BY <1>8, <2>1, <2>2 DEF Placed, Matches
  <2>3. CASE mention.verdict # "row"
    <3>1. \A line \in lines : Copies(line) # {} => Copies(line)' # {}
      BY <1>2, <1>8 DEF Copies
    <3>2. QED
      BY <1>2, <2>1, <2>3, <3>1 DEF Placed
  <2>4. QED
    BY <2>2, <2>3
<1>14. DocumentOrder'
  <2>1. SUFFICES ASSUME NEW x \in rows', NEW y \in rows', x # y,
                        x.source = "model", y.source = "model"
                 PROVE  \/ x.item < y.item /\ x.seq < y.seq
                        \/ y.item < x.item /\ y.seq < x.seq
    BY DEF DocumentOrder
  <2>2. PICK u \in rows : /\ x.item = u.item /\ x.source = u.source
                          /\ x.seq = u.seq
                          /\ x = new <=> u = row
                          /\ x # new => x = u
    BY <1>7
  <2>3. PICK v \in rows : /\ y.item = v.item /\ y.source = v.source
                          /\ y.seq = v.seq
                          /\ y = new <=> v = row
                          /\ y # new => y = v
    BY <1>7
  <2>4. u # v
    BY <2>1, <2>2, <2>3
  <2>5. QED
    BY <2>1, <2>2, <2>3, <2>4 DEF IInv, DocumentOrder
<1>15. QED
  BY <1>9, <1>10, <1>11, <1>12, <1>13, <1>14 DEF IInv

\* A request that restores holds a line and a number.
LEMMA RestoringRequest ==
  ASSUME TypeOK, NEW q \in Requests, req[q].op \in {"restore", "insert"}
  PROVE  req[q].target \in LineIds /\ req[q].seq \in Nat
<1>1. req[q] \in {Idle} \cup Patching \cup Restoring
  BY DEF TypeOK
<1>2. req[q] # Idle
  BY DEF Idle
<1>3. req[q] \notin Patching
  BY DEF Patching
<1>4. req[q] \in Restoring
  BY <1>1, <1>2, <1>3
<1>5. QED
  BY <1>4 DEF Restoring

\* Marking a line that got its row, or that failed, keeps every mention placed.
LEMMA MarkedIInv ==
  ASSUME IInv, NEW line \in lines, NEW failed \in BOOLEAN,
         lines' = (lines \ {line}) \cup {Marked(line, failed)},
         rows \subseteq rows',
         \/ failed
         \/ \E row \in rows' : /\ row.run = line.run /\ row.item = line.item
                               /\ row.source = line.panel,
         UNCHANGED <<state, mined>>
  PROVE  /\ lines' \subseteq Line
         /\ \A l \in lines' : l.seq >= 1
         /\ NothingLost'
<1> DEFINE new == Marked(line, failed)
<1>1. line \in Line
  BY DEF IInv, TypeOK
<1>2. /\ new \in Line
      /\ new.run = line.run /\ new.item = line.item /\ new.panel = line.panel
      /\ new.seq = line.seq /\ new.re_included = TRUE /\ new.failed = failed
  BY <1>1, LineUpdates
<1>3. lines' = (lines \ {line}) \cup {new}
  OBVIOUS
<1> HIDE DEF new
<1>4. lines' \subseteq Line /\ \A l \in lines' : l.seq >= 1
  BY <1>2, <1>3 DEF IInv, TypeOK, Sources
<1>5. NothingLost'
  <2>1. SUFFICES ASSUME NEW mention \in mined, Placed(mention)
                 PROVE  Placed(mention)'
    BY DEF IInv, NothingLost
  <2>2. CASE mention.verdict = "row"
    BY <2>1, <2>2 DEF Placed, Matches
  <2>3. CASE mention.verdict # "row"
    <3>1. PICK l \in lines : /\ l.panel = mention.verdict
                             /\ l.item = mention.item
                             /\ ~l.re_included \/ l.failed \/ Copies(l) # {}
      BY <2>1, <2>3 DEF Placed
    <3>2. CASE l # line
      <4>1. l \in lines' /\ (Copies(l) # {} => Copies(l)' # {})
        BY <1>3, <3>2 DEF Copies
      <4>2. QED
        BY <2>3, <3>1, <4>1 DEF Placed
    <3>3. CASE l = line
      <4>1. new \in lines' /\ (new.failed \/ Copies(new)' # {})
        BY <1>2, <1>3 DEF Copies
      <4>2. new.panel = mention.verdict /\ new.item = mention.item
        BY <1>2, <3>1, <3>3
      <4>3. QED
        BY <1>2, <2>3, <4>1, <4>2 DEF Placed, Copies
    <3>4. QED
      BY <3>2, <3>3
  <2>4. QED
    BY <2>2, <2>3
<1>6. QED
  BY <1>4, <1>5

LEMMA RestoreWriteIInv ==
  ASSUME IInv, NEW q \in Requests, RestoreWrite(q)
  PROVE  IInv'
<1>1. PICK line \in lines, c \in 0..MaxCopies :
        /\ rows' = rows \cup {RestoredRow(line, c, req[q].seq)}
        /\ lines' = (lines \ {line}) \cup {Marked(line, line.failed)}
  BY DEF RestoreWrite
<1> DEFINE new == RestoredRow(line, c, req[q].seq)
<1>2. /\ UNCHANGED <<state, file, mined, nruns, existing, restarts>>
      /\ Answer(q) /\ req[q].op = "insert"
  BY DEF RestoreWrite
<1>3. /\ line \in Line /\ line.run \in 1..MaxRuns /\ line.item \in Items
      /\ line.panel \in Panels /\ line.seq \in Nat /\ line.failed \in BOOLEAN
      /\ line.seq >= 1
  BY DEF IInv, TypeOK, Line, Sources
<1>4. req[q].seq \in Nat
  BY <1>2, RestoringRequest DEF IInv
<1>5. /\ new \in Row /\ new.source # "model" /\ new.line # 0
      /\ new.run = line.run /\ new.item = line.item /\ new.source = line.panel
  <2>1. new \in Row
    BY <1>3, <1>4 DEF RestoredRow, Row
  <2>2. /\ new.source = line.panel /\ new.line = line.seq
        /\ new.run = line.run /\ new.item = line.item
    BY DEF RestoredRow
  <2>3. QED
    BY <1>3, <2>1, <2>2 DEF Panels
<1>6. rows' = rows \cup {new}
  BY <1>1
<1> HIDE DEF new
<1>7. /\ lines' \subseteq Line
      /\ \A l \in lines' : l.seq >= 1
      /\ NothingLost'
  <2>1. \E row \in rows' : /\ row.run = line.run /\ row.item = line.item
                           /\ row.source = line.panel
    BY <1>5, <1>6
  <2>2. rows \subseteq rows' /\ UNCHANGED <<state, mined>>
    BY <1>2, <1>6
  <2>3. QED
    BY <1>1, <1>3, <2>1, <2>2, MarkedIInv
<1>8. TypeOK'
  <2>1. rows' \subseteq Row
    BY <1>5, <1>6 DEF IInv, TypeOK
  <2>2. QED
    BY <1>2, <1>7, <2>1, AnswerTyping DEF IInv, TypeOK
<1>9. Finite'
  BY <1>2, <1>6, FS_AddElement DEF IInv, Finite
<1>10. Sources'
  BY <1>5, <1>6, <1>7 DEF IInv, Sources
<1>11. Unread'
  BY <1>2, <1>5, <1>6 DEF IInv, Unread
<1>12. DocumentOrder'
  BY <1>5, <1>6 DEF IInv, DocumentOrder
<1>13. QED
  BY <1>7, <1>8, <1>9, <1>10, <1>11, <1>12 DEF IInv

LEMMA RestoreFailsIInv ==
  ASSUME IInv, NEW q \in Requests, RestoreFails(q)
  PROVE  IInv'
<1>1. PICK line \in lines : lines' = (lines \ {line}) \cup {Marked(line, TRUE)}
  BY DEF RestoreFails
<1>2. /\ UNCHANGED <<state, file, mined, nruns, rows, existing, restarts>>
      /\ Answer(q)
  BY DEF RestoreFails
<1>3. /\ lines' \subseteq Line
      /\ \A l \in lines' : l.seq >= 1
      /\ NothingLost'
  BY <1>1, <1>2, MarkedIInv
<1>4. TypeOK'
  BY <1>2, <1>3, AnswerTyping DEF IInv, TypeOK
<1>5. Finite' /\ Sources'
  BY <1>2, <1>3 DEF IInv, Finite, Sources
<1>6. Unread' /\ DocumentOrder'
  BY <1>2 DEF IInv, Unread, DocumentOrder
<1>7. QED
  BY <1>3, <1>4, <1>5, <1>6 DEF IInv

\* The reads of a request, and its ends that write nothing.
LEMMA RequestIInv ==
  ASSUME IInv, NEW q \in Requests,
         UNCHANGED <<state, file, mined, nruns, rows, lines, existing, restarts>>,
         req' \in [Requests -> {Idle} \cup Patching \cup Restoring]
  PROVE  IInv'
<1>1. /\ state' \in {"received", "ready", "failed", "expired"} /\ file' \in BOOLEAN
      /\ existing' # None => nruns < MaxRuns
  BY DEF IInv, TypeOK, Unread
<1>2. QED
  BY <1>1, QuietIInv

LEMMA PersonIInv ==
  ASSUME IInv, NEW q \in Requests, Person(q)
  PROVE  IInv'
<1>0. req \in [Requests -> {Idle} \cup Patching \cup Restoring]
  BY DEF IInv, TypeOK
<1>1. CASE \E row \in rows : PatchRead(q, row)
  <2>1. PICK row \in rows : PatchRead(q, row)
    BY <1>1
  <2> DEFINE r == [op |-> IF row.checked THEN "uncheck" ELSE "check",
                  target |-> Id(row), seq |-> 0]
  <2>2. Id(row) \in RowIds /\ row.checked \in BOOLEAN
    BY DEF IInv, TypeOK, Row, Id, RowIds
  <2>3. r \in Patching
    BY <2>2 DEF Patching
  <2>4. req' = [req EXCEPT ![q] = r]
    BY <2>1 DEF PatchRead
  <2> HIDE DEF r
  <2>5. req' \in [Requests -> {Idle} \cup Patching \cup Restoring]
    BY <1>0, <2>3, <2>4
  <2>6. QED
    BY <2>1, <2>5, RequestIInv DEF PatchRead
<1>2. CASE PatchWrite(q)
  BY <1>2, PatchWriteIInv
<1>3. CASE PatchFails(q) \/ RestoreConflict(q)
  <2>1. Answer(q)
    BY <1>3 DEF PatchFails, RestoreConflict
  <2>2. req' \in [Requests -> {Idle} \cup Patching \cup Restoring]
    BY <2>1, AnswerTyping DEF IInv
  <2>3. QED
    BY <1>3, <2>2, RequestIInv DEF PatchFails, RestoreConflict
<1>4. CASE \E line \in lines : RestoreRead(q, line)
  <2>1. PICK line \in lines : RestoreRead(q, line)
    BY <1>4
  <2> DEFINE r == [op |-> "restore", target |-> LineId(line), seq |-> 0]
  <2>2. LineId(line) \in LineIds
    BY DEF IInv, TypeOK, Line, LineId, LineIds
  <2>3. r \in Restoring
    BY <2>2 DEF Restoring
  <2>4. req' = [req EXCEPT ![q] = r]
    BY <2>1 DEF RestoreRead
  <2> HIDE DEF r
  <2>5. req' \in [Requests -> {Idle} \cup Patching \cup Restoring]
    BY <1>0, <2>3, <2>4
  <2>6. QED
    BY <2>1, <2>5, RequestIInv DEF RestoreRead
<1>5. CASE Verify(q)
  <2>1. PICK s \in NextSeq :
          req' = [req EXCEPT ![q] = [op |-> "insert", target |-> req[q].target,
                                     seq |-> s]]
    BY <1>5 DEF Verify
  <2> DEFINE r == [op |-> "insert", target |-> req[q].target, seq |-> s]
  <2>2. s \in Nat
    BY DEF NextSeq, Seqs, IInv, TypeOK, Row
  <2>3. req[q].target \in LineIds
    BY <1>5, RestoringRequest DEF Verify, IInv
  <2>4. r \in Restoring
    BY <2>2, <2>3 DEF Restoring
  <2>5. req' = [req EXCEPT ![q] = r]
    BY <2>1
  <2> HIDE DEF r
  <2>6. req' \in [Requests -> {Idle} \cup Patching \cup Restoring]
    BY <1>0, <2>4, <2>5
  <2>7. QED
    BY <1>5, <2>6, RequestIInv DEF Verify
<1>6. CASE RestoreWrite(q) \/ RestoreFails(q)
  BY <1>6, RestoreWriteIInv, RestoreFailsIInv
<1>7. QED
  BY <1>1, <1>2, <1>3, <1>4, <1>5, <1>6 DEF Person

LEMMA WorkerIInv == ASSUME IInv, Worker PROVE IInv'
<1>1. CASE PersistRead
  BY <1>1, QuietIInv DEF PersistRead, IInv, TypeOK
<1>2. CASE \E m \in Extractions : PersistCommit(m)
  BY <1>2, PersistCommitIInv
<1>3. CASE FinishEmpty
  BY <1>3, QuietIInv DEF FinishEmpty, IInv, TypeOK
<1>4. CASE FailExtraction
  BY <1>4, QuietIInv DEF FailExtraction, IInv, TypeOK
<1>5. CASE Requeue
  BY <1>5, RequeueIInv
<1>6. QED
  BY <1>1, <1>2, <1>3, <1>4, <1>5 DEF Worker

LEMMA NextIInv == ASSUME IInv, [Next]_vars PROVE IInv'
<1>1. CASE Worker
  BY <1>1, WorkerIInv
<1>2. CASE Reprocess
  BY <1>2, QuietIInv DEF Reprocess, IInv, TypeOK, Unread
<1>3. CASE Expire
  BY <1>3, QuietIInv DEF Expire, IInv, TypeOK, Unread
<1>4. CASE \E q \in Requests : Person(q)
  BY <1>4, PersonIInv
<1>5. CASE UNCHANGED vars
  BY <1>5, QuietIInv DEF vars, IInv, TypeOK, Unread
<1>6. QED
  BY <1>1, <1>2, <1>3, <1>4, <1>5 DEF Next

\* A new extraction keeps the rows of a person and the marks on the rows it
\* finds again.
LEMMA CommitKeepsReview ==
  ASSUME IInv, NEW m \in Extractions, PersistCommit(m), NEW row \in rows,
         row.source # "model" \/ row.item \in Found(mined', "row")
  PROVE  \E new \in rows' : Id(new) = Id(row) /\ new.checked = row.checked
<1>1. m \in SUBSET Mentions /\ existing # None /\ mined' = m
  BY ReviewBounds DEF PersistCommit
<1>2. PICK order \in Orders(Kept(m)) : rows' = NewRows(m, order)
  BY DEF PersistCommit
<1>3. CASE row.source = "model"
  <2>1. \E old \in existing : Id(old) = Id(row)
    BY <1>1, <1>3 DEF IInv, Unread
  <2>2. row.line = 0 /\ row.item \in Found(m, "row")
    BY <1>1, <1>3 DEF IInv, Sources
  <2>3. row \in Retained(m)
    BY <2>1, <2>2 DEF Retained, Matches
  <2>4. InPlaceUpdate(row, row.item, m) \in rows'
    BY <1>2, <2>3 DEF NewRows
  <2>5. QED
    BY <1>1, <2>3, <2>4, RetainedRows
<1>4. CASE row.source # "model"
  <2>1. CASE row \in Unseen
    BY <1>2, <2>1 DEF NewRows
  <2>2. CASE row \notin Unseen
    <3>1. PICK old \in existing : Id(old) = Id(row)
      BY <2>2 DEF Unseen
    <3>2. old \in Preserved(m)
      BY <1>4, <3>1, IdEquality DEF Preserved
    <3>3. row \in Kept(m)
      BY <3>1, <3>2 DEF Kept
    <3>4. Renumbered(row, m, order) \in rows'
      BY <1>2, <3>3 DEF NewRows
    <3>5. QED
      BY <1>1, <3>3, <3>4, KeptRows DEF Untouched
  <2>3. QED
    BY <2>1, <2>2
<1>5. QED
  BY <1>3, <1>4

-----------------------------------------------------------------------------
(* Theorems.                                                               *)

\* The inductive invariant.
THEOREM ReviewInvariance == Spec => []IInv
BY InitIInv, NextIInv, PTL DEF Spec

\* Type correctness of the matrix and of what the requests hold.
THEOREM ReviewTypeCorrect == Spec => []TypeOK
<1>1. IInv => TypeOK
  BY DEF IInv
<1>2. QED
  BY ReviewInvariance, <1>1, PTL

\* Every mention of the published extraction is a row, a panel line, or was
\* restored or re-audited by a person, however requests overlap (transform.py,
\* restore_filtered, restore_audit_drop).
THEOREM NothingIsLost == Spec => []NothingLost
<1>1. IInv => NothingLost
  BY DEF IInv
<1>2. QED
  BY ReviewInvariance, <1>1, PTL

\* Generated rows stay numbered in document order, one per item
\* (persist_mine_result).
THEOREM RowsInDocumentOrder == Spec => []DocumentOrder
<1>1. IInv => DocumentOrder
  BY DEF IInv
<1>2. QED
  BY ReviewInvariance, <1>1, PTL

\* A new extraction never takes back what a person did, also while it was
\* being persisted (persist_mine_result).
THEOREM ReviewIsKept == Spec => ReviewSurvives
<1> DEFINE Keeps == nruns' # nruns =>
       \A row \in rows :
         (row.source # "model" \/ row.item \in Found(mined', "row")) =>
           \E new \in rows' : Id(new) = Id(row) /\ new.checked = row.checked
           Restarts == restarts' # restarts => \A row \in rows : row.checked => row \in rows'
<1>1. ASSUME IInv, [Next]_vars PROVE Keeps
  <2>1. CASE \E m \in Extractions : PersistCommit(m)
    BY <1>1, <2>1, CommitKeepsReview
  <2>2. CASE ~\E m \in Extractions : PersistCommit(m)
    <3>1. nruns' = nruns
      BY <1>1, <2>2 DEF vars, Next, Worker, Person, PersistRead, FinishEmpty,
         FailExtraction, Requeue, Reprocess, Expire, PatchRead, PatchWrite,
         PatchFails, RestoreRead, Verify, RestoreWrite, RestoreFails,
         RestoreConflict
    <3>2. QED
      BY <3>1
  <2>3. QED
    BY <2>1, <2>2
<1>2. ASSUME [Next]_vars PROVE Restarts
  <2>1. CASE Requeue
    BY <2>1 DEF Requeue, Verified
  <2>2. CASE ~Requeue
    <3>1. restarts' = restarts
      BY <1>2, <2>2 DEF vars, Next, Worker, Person, PersistRead, PersistCommit,
         FinishEmpty, FailExtraction, Reprocess, Expire, PatchRead, PatchWrite,
         PatchFails, RestoreRead, Verify, RestoreWrite, RestoreFails,
         RestoreConflict
    <3>2. QED
      BY <3>1
  <2>3. QED
    BY <2>1, <2>2
<1>3. ASSUME IInv, [Next]_vars PROVE [Keeps /\ Restarts]_vars
  BY <1>1, <1>2, <1>3
<1>4. QED
  BY ReviewInvariance, <1>3, PTL DEF Spec, ReviewSurvives
-----------------------------------------------------------------------------
(* Restored lines.                                                         *)

\* A line that is still offered has no row yet.  The rows of a line that is no
\* longer offered, and the requests that read it while it was, are together
\* no more than the requests there are: each of these may still add a row.
Runs == /\ \A line \in lines : line.run <= nruns
        /\ \A row \in rows : row.source # "model" => row.run <= nruns

LinesDiffer == \A a, b \in lines : LineId(a) = LineId(b) => a = b

OfferedIsUnused == \A line \in lines : ~line.re_included => Copies(line) = {}

Restorers(line) == {q \in Requests : /\ req[q].op \in {"restore", "insert"}
                                      /\ req[q].target = LineId(line)}

Budget == \A line \in lines : \A row \in Copies(line) :
            row.copy + 1 + Cardinality(Restorers(line)) <= Cardinality(Requests)

OnceInv == /\ IInv /\ Runs /\ LinesDiffer
           /\ OfferedIsUnused /\ Budget /\ CopiesBounded

LEMMA InitOnce == Init => OnceInv
BY InitIInv DEF Init, OnceInv, Runs, LinesDiffer, OfferedIsUnused, Budget,
   CopiesBounded

LEMMA RestorersCount ==
  ASSUME NEW line
  PROVE  /\ IsFiniteSet(Restorers(line))
         /\ Cardinality(Restorers(line)) \in Nat
         /\ Cardinality(Restorers(line)) <= Cardinality(Requests)
         /\ Cardinality(Requests) \in Nat
<1>1. Restorers(line) \in SUBSET Requests
  BY DEF Restorers
<1>2. QED
  BY <1>1, ReviewBounds, FS_Subset, FS_CardinalityType

LEMMA FewerRestorers ==
  ASSUME NEW line, Restorers(line)' \subseteq Restorers(line)
  PROVE  /\ Cardinality(Restorers(line)') \in Nat
         /\ Cardinality(Restorers(line)') <= Cardinality(Restorers(line))
BY RestorersCount, FS_Subset, FS_CardinalityType

\* A step after which no line has more rows or more requests than before.
LEMMA BudgetKept ==
  ASSUME OnceInv, IInv', lines' \subseteq lines,
         \A line : Restorers(line)' \subseteq Restorers(line),
         \A line \in lines : \A new \in Copies(line)' :
           \E row \in Copies(line) : new.copy = row.copy
  PROVE  Budget'
<1>1. SUFFICES ASSUME NEW line \in lines', NEW new \in Copies(line)'
               PROVE  new.copy + 1 + Cardinality(Restorers(line)')
                        <= Cardinality(Requests)
  BY DEF Budget
<1>2. PICK row \in Copies(line) : new.copy = row.copy
  BY <1>1
<1>3. row.copy + 1 + Cardinality(Restorers(line)) <= Cardinality(Requests)
  BY <1>1, <1>2 DEF OnceInv, Budget
<1>4. row.copy \in Nat
  BY ReviewBounds DEF Copies, OnceInv, IInv, TypeOK, Row
<1>5. /\ Cardinality(Restorers(line)') \in Nat
      /\ Cardinality(Restorers(line)') <= Cardinality(Restorers(line))
  BY FewerRestorers
<1> HIDE DEF Restorers
<1>6. QED
  BY <1>2, <1>3, <1>4, <1>5, RestorersCount

\* A step that adds no row and no line, and lets no request begin to restore.
LEMMA FewerRowsOnce ==
  ASSUME OnceInv, IInv',
         rows' \subseteq rows, lines' \subseteq lines, nruns' = nruns,
         \A q \in Requests : req'[q].op \in {"restore", "insert"} =>
           req[q].op \in {"restore", "insert"} /\ req'[q].target = req[q].target
  PROVE  OnceInv'
<1>1. Runs' /\ LinesDiffer' /\ CopiesBounded'
  BY DEF OnceInv, Runs, LinesDiffer, CopiesBounded
<1>2. OfferedIsUnused'
  <2>1. \A line : Copies(line)' \subseteq Copies(line)
    BY DEF Copies
  <2>2. QED
    BY <2>1 DEF OnceInv, OfferedIsUnused
<1>3. Budget'
  <2>1. ASSUME NEW line PROVE Restorers(line)' \subseteq Restorers(line)
    BY DEF Restorers, LineId
  <2>2. \A line : Copies(line)' \subseteq Copies(line)
    BY DEF Copies
  <2>3. QED
    BY <2>1, <2>2, BudgetKept
<1>4. QED
  BY <1>1, <1>2, <1>3 DEF OnceInv

\* The lines of a new extraction have a run of their own, and so no rows.
LEMMA PersistCommitOnce ==
  ASSUME OnceInv, NEW m \in Extractions, PersistCommit(m)
  PROVE  OnceInv'
<1>1. m \in SUBSET Mentions /\ existing # None /\ IInv /\ nruns \in Nat
  BY ReviewBounds DEF PersistCommit, OnceInv, IInv, TypeOK
<1>2. PICK order \in Orders(Kept(m)) : rows' = NewRows(m, order)
  BY DEF PersistCommit
<1>3. /\ lines' = NewLines(m) /\ nruns' = nruns + 1
      /\ req' = req
  BY DEF PersistCommit
<1>4. ASSUME NEW row \in rows', row.source # "model"
      PROVE  row.run <= nruns /\ \E old \in rows : Untouched(row, old)
  <2>1. PICK old \in rows : Untouched(row, old)
    BY <1>1, <1>2, <1>4, NewRowKinds DEF Generated
  <2>2. row.run = old.run /\ old.source # "model"
    BY <2>1, IdEquality DEF Untouched
  <2>3. QED
    BY <2>1, <2>2 DEF OnceInv, Runs
<1>5. ASSUME NEW line \in lines'
      PROVE  /\ line.run = nruns + 1 /\ ~line.re_included
             /\ line.panel \in Panels /\ line.item \in Found(m, line.panel)
             /\ line = NewLine(line.item, line.panel, m)
  <2>1. PICK p \in Panels : \E i \in Found(m, p) : line = NewLine(i, p, m)
    BY <1>3, NewLinesForm
  <2>2. PICK i \in Found(m, p) : line = NewLine(i, p, m)
    BY <2>1
  <2>3. /\ line.run = nruns + 1 /\ ~line.re_included
        /\ line.panel = p /\ line.item = i
    BY <2>2 DEF NewLine
  <2>4. QED
    BY <2>2, <2>3
<1>6. Runs'
  <2>1. \A row \in rows' : row.source # "model" => row.run \in Nat
    BY <1>1, <1>2, NewRowKinds DEF Row
  <2>2. QED
    BY <1>1, <1>3, <1>4, <1>5, <2>1 DEF Runs
<1>7. LinesDiffer'
  <2>1. ASSUME NEW a \in lines', NEW b \in lines', LineId(a) = LineId(b)
        PROVE  a = b
    <3>1. a.item = b.item /\ a.panel = b.panel
      BY <2>1 DEF LineId
    <3>2. QED
      BY <1>5, <3>1
  <2>2. QED
    BY <2>1 DEF LinesDiffer, LineId
<1>8. OfferedIsUnused'
  <2>1. SUFFICES ASSUME NEW line \in lines', NEW row \in rows',
                        row.run = line.run, row.source = line.panel
                 PROVE  FALSE
    BY DEF OfferedIsUnused, Copies
  <2>2. row.source # "model" /\ row.run = nruns + 1
    BY <1>5, <2>1 DEF Panels
  <2>3. QED
    BY <1>1, <1>4, <2>2
<1>9. Budget'
  BY <1>5, <1>8 DEF Budget, OfferedIsUnused
<1>10. CopiesBounded'
  <2>1. SUFFICES ASSUME NEW row \in rows', row.source # "model"
                 PROVE  row.copy < Cardinality(Requests)
    BY DEF CopiesBounded
  <2>2. PICK old \in rows : Untouched(row, old)
    BY <1>4, <2>1
  <2>3. row.copy = old.copy /\ old.source # "model"
    BY <2>2, IdEquality DEF Untouched
  <2>4. QED
    BY <2>3 DEF OnceInv, CopiesBounded
<1>11. QED
  BY <1>1, <1>6, <1>7, <1>8, <1>9, <1>10, PersistCommitIInv DEF OnceInv

LEMMA AnswerRestorers ==
  ASSUME IInv, NEW q \in Requests, Answer(q), NEW line
  PROVE  Restorers(line)' \subseteq Restorers(line) \ {q}
<1>1. req \in [Requests -> {Idle} \cup Patching \cup Restoring]
  BY DEF IInv, TypeOK
<1>2. QED
  BY <1>1 DEF Answer, Idle, Restorers, LineId

LEMMA PatchWriteOnce ==
  ASSUME OnceInv, NEW q \in Requests, PatchWrite(q)
  PROVE  OnceInv'
<1>1. PICK row \in rows :
        rows' = (rows \ {row}) \cup {[row EXCEPT !.checked = req[q].op = "check"]}
  BY DEF PatchWrite
<1> DEFINE b == req[q].op = "check"
           new == [row EXCEPT !.checked = b]
<1>2. row \in Row /\ b \in BOOLEAN
  BY DEF OnceInv, IInv, TypeOK
<1>3. rows' = (rows \ {row}) \cup {new}
  BY <1>1
<1> HIDE DEF b
<1>4. new = [run |-> row.run, item |-> row.item, source |-> row.source,
             copy |-> row.copy, line |-> row.line, seq |-> row.seq,
             checked |-> b]
  BY <1>2, CheckUpdate
<1> HIDE DEF new
<1>5. /\ new.run = row.run /\ new.item = row.item
      /\ new.source = row.source /\ new.copy = row.copy
  BY <1>4
<1>6. /\ lines' = lines /\ nruns' = nruns /\ Answer(q)
  BY DEF PatchWrite
<1>7. \A new1 \in rows' : \E old \in rows :
        /\ new1.run = old.run /\ new1.item = old.item
        /\ new1.source = old.source /\ new1.copy = old.copy
  BY <1>3, <1>5
<1>8. Runs' /\ LinesDiffer' /\ CopiesBounded'
  BY <1>6, <1>7 DEF OnceInv, Runs, LinesDiffer, CopiesBounded
<1>9. OfferedIsUnused'
  BY <1>6, <1>7 DEF OnceInv, OfferedIsUnused, Copies
<1>10. Budget'
  <2>1. IInv'
    BY PatchWriteIInv DEF OnceInv
  <2>2. ASSUME NEW line PROVE Restorers(line)' \subseteq Restorers(line)
    BY <1>6, AnswerRestorers DEF OnceInv
  <2>3. \A line \in lines : \A new1 \in Copies(line)' :
          \E old \in Copies(line) : new1.copy = old.copy
    BY <1>7 DEF Copies
  <2>4. QED
    BY <1>6, <2>1, <2>2, <2>3, BudgetKept
<1>11. QED
  BY <1>8, <1>9, <1>10, PatchWriteIInv DEF OnceInv

\* The request that marks a line, whether or not it adds a row, is one less to
\* restore it.
LEMMA MarkedOnce ==
  ASSUME OnceInv, IInv', NEW q \in Requests, Answer(q),
         NEW line \in lines, NEW failed \in BOOLEAN, q \in Restorers(line),
         lines' = (lines \ {line}) \cup {Marked(line, failed)},
         nruns' = nruns,
         NEW c \in Nat,
         c + Cardinality(Restorers(line)) <= Cardinality(Requests),
         \A row \in rows' :
           \/ row \in rows
           \/ /\ row.run = line.run /\ row.item = line.item
              /\ row.source = line.panel /\ row.copy = c
  PROVE  OnceInv'
<1> DEFINE new == Marked(line, failed)
<1>1. line \in Line /\ req \in [Requests -> {Idle} \cup Patching \cup Restoring]
  BY DEF OnceInv, IInv, TypeOK
<1>2. /\ new.run = line.run /\ new.item = line.item /\ new.panel = line.panel
      /\ new.re_included = TRUE
  BY <1>1, LineUpdates
<1>3. lines' = (lines \ {line}) \cup {new}
  OBVIOUS
<1> HIDE DEF new
<1>4. Runs'
  BY <1>2, <1>3 DEF OnceInv, Runs
<1>5. LinesDiffer'
  <2>1. LineId(new) = LineId(line)
    BY <1>2 DEF LineId
  <2>2. ASSUME NEW a \in lines', NEW b \in lines', LineId(a) = LineId(b)
        PROVE  a = b
    BY <1>3, <2>1, <2>2 DEF OnceInv, LinesDiffer
  <2>3. QED
    BY <2>2 DEF LinesDiffer, LineId
<1>6. OfferedIsUnused'
  <2>1. SUFFICES ASSUME NEW l \in lines', ~l.re_included, NEW row \in rows',
                        row.run = l.run, row.item = l.item, row.source = l.panel
                 PROVE  FALSE
    BY DEF OfferedIsUnused, Copies
  <2>2. l \in lines /\ l # line
    BY <1>2, <1>3, <2>1
  <2>3. CASE row \in rows
    BY <2>1, <2>2, <2>3 DEF OnceInv, OfferedIsUnused, Copies
  <2>4. CASE row.run = line.run /\ row.item = line.item /\ row.source = line.panel
    <3>1. LineId(l) = LineId(line)
      BY <2>1, <2>4 DEF LineId
    <3>2. QED
      BY <2>2, <3>1 DEF OnceInv, LinesDiffer
  <2>5. QED
    BY <2>3, <2>4
<1>7. /\ Cardinality(Restorers(line)') \in Nat
      /\ Cardinality(Restorers(line)') + 1 <= Cardinality(Restorers(line))
      /\ Cardinality(Restorers(line)) \in Nat /\ Cardinality(Requests) \in Nat
  <2> DEFINE S == Restorers(line)
             T == Restorers(line)'
  <2>1. IsFiniteSet(S) /\ Cardinality(S) \in Nat /\ Cardinality(Requests) \in Nat
    BY RestorersCount
  <2>2. T \subseteq S \ {q} /\ q \in S
    BY AnswerRestorers DEF OnceInv
  <2> HIDE DEF S, T
  <2>3. /\ IsFiniteSet(S \ {q})
        /\ Cardinality(S \ {q}) = Cardinality(S) - 1
    BY <2>1, <2>2, FS_RemoveElement
  <2>4. /\ IsFiniteSet(T) /\ Cardinality(T) <= Cardinality(S \ {q})
        /\ Cardinality(T) \in Nat
    BY <2>2, <2>3, FS_Subset, FS_CardinalityType
  <2>5. Cardinality(T) + 1 <= Cardinality(S)
    BY <2>1, <2>3, <2>4
  <2>6. QED
    BY <2>1, <2>4, <2>5 DEF S, T
<1>8. Budget'
  <2>1. SUFFICES ASSUME NEW l \in lines', NEW row \in rows',
                        row.run = l.run, row.item = l.item, row.source = l.panel
                 PROVE  row.copy + 1 + Cardinality(Restorers(l)')
                          <= Cardinality(Requests)
    BY DEF Budget, Copies
  <2>2. row.copy \in Nat
    BY ReviewBounds DEF IInv, TypeOK, Row
  <2>3. CASE l = new
    <3>1. Restorers(l)' = Restorers(line)'
      BY <1>2, <2>3 DEF Restorers, LineId
    <3>2. CASE row \in rows
      <4>1. row \in Copies(line)
        BY <1>2, <2>1, <2>3, <3>2 DEF Copies
      <4>2. row.copy + 1 + Cardinality(Restorers(line)) <= Cardinality(Requests)
        BY <4>1 DEF OnceInv, Budget
      <4> HIDE DEF Restorers
      <4>3. QED
        BY <1>7, <2>2, <3>1, <4>2
    <3>3. CASE row.copy = c
      BY <1>7, <3>1, <3>3
    <3>4. QED
      BY <3>2, <3>3
  <2>4. CASE l # new
    <3>1. l \in lines /\ l # line
      BY <1>3, <2>1, <2>4
    <3>2. LineId(l) # LineId(line)
      BY <3>1 DEF OnceInv, LinesDiffer
    <3>3. row \in Copies(l)
      BY <2>1, <3>2 DEF Copies, LineId
    <3>4. row.copy + 1 + Cardinality(Restorers(l)) <= Cardinality(Requests)
      BY <3>1, <3>3 DEF OnceInv, Budget
    <3>5. Restorers(l)' \subseteq Restorers(l)
      BY AnswerRestorers DEF OnceInv
    <3>6. /\ Cardinality(Restorers(l)') \in Nat
          /\ Cardinality(Restorers(l)') <= Cardinality(Restorers(l))
      BY <3>5, FewerRestorers
    <3>7. QED
      BY <2>2, <3>4, <3>6, RestorersCount
  <2>5. QED
    BY <2>3, <2>4
<1>9. CopiesBounded'
  <2>1. c < Cardinality(Requests)
    BY <1>7
  <2>2. QED
    BY <2>1 DEF OnceInv, CopiesBounded
<1>10. QED
  BY <1>4, <1>5, <1>6, <1>8, <1>9 DEF OnceInv

LEMMA RestoreWriteOnce ==
  ASSUME OnceInv, NEW q \in Requests, RestoreWrite(q)
  PROVE  OnceInv'
<1>1. PICK line \in lines, c \in 0..MaxCopies :
        /\ LineId(line) = req[q].target
        /\ IsNextCopy(line, c)
        /\ rows' = rows \cup {RestoredRow(line, c, req[q].seq)}
        /\ lines' = (lines \ {line}) \cup {Marked(line, line.failed)}
  BY DEF RestoreWrite
<1>2. Answer(q) /\ nruns' = nruns /\ req[q].op = "insert"
  BY DEF RestoreWrite
<1>3. q \in Restorers(line)
  BY <1>1, <1>2 DEF Restorers
<1>4. c + Cardinality(Restorers(line)) <= Cardinality(Requests)
  <2>1. CASE c = 0
    BY <2>1, RestorersCount
  <2>2. CASE \E row \in Copies(line) : row.copy + 1 = c
    BY <2>2 DEF OnceInv, Budget
  <2>3. QED
    BY <1>1, <2>1, <2>2 DEF IsNextCopy
<1>5. c \in Nat
  BY ReviewBounds
<1>6. line.failed \in BOOLEAN
  BY DEF OnceInv, IInv, TypeOK, Line
<1>7. \A row \in rows' :
        \/ row \in rows
        \/ /\ row.run = line.run /\ row.item = line.item
           /\ row.source = line.panel /\ row.copy = c
  BY <1>1 DEF RestoredRow
<1>8. IInv'
  BY RestoreWriteIInv DEF OnceInv
<1>9. QED
  BY <1>1, <1>2, <1>3, <1>4, <1>5, <1>6, <1>7, <1>8, MarkedOnce

LEMMA RestoreFailsOnce ==
  ASSUME OnceInv, NEW q \in Requests, RestoreFails(q)
  PROVE  OnceInv'
<1>1. PICK line \in lines : /\ LineId(line) = req[q].target
                            /\ lines' = (lines \ {line}) \cup {Marked(line, TRUE)}
  BY DEF RestoreFails
<1>2. Answer(q) /\ nruns' = nruns /\ rows' = rows /\ req[q].op = "restore"
  BY DEF RestoreFails
<1>3. q \in Restorers(line)
  BY <1>1, <1>2 DEF Restorers
<1>4. 0 + Cardinality(Restorers(line)) <= Cardinality(Requests)
  BY RestorersCount
<1>5. IInv'
  BY RestoreFailsIInv DEF OnceInv
<1>6. QED
  BY <1>1, <1>2, <1>3, <1>4, <1>5, MarkedOnce

\* The line a request begins to restore is offered, and so has no row: the
\* query says so.
LEMMA RestoreReadOnce ==
  ASSUME OnceInv, NEW q \in Requests, NEW line \in lines, RestoreRead(q, line)
  PROVE  OnceInv'
<1>1. /\ UNCHANGED <<rows, lines, nruns>> /\ ~line.re_included
      /\ req' = [req EXCEPT ![q] = [op |-> "restore", target |-> LineId(line),
                                    seq |-> 0]]
  BY DEF RestoreRead
<1>2. req \in [Requests -> {Idle} \cup Patching \cup Restoring]
  BY DEF OnceInv, IInv, TypeOK
<1>3. Runs' /\ LinesDiffer' /\ OfferedIsUnused' /\ CopiesBounded'
  BY <1>1 DEF OnceInv, Runs, LinesDiffer, OfferedIsUnused, Copies, CopiesBounded
<1>4. Budget'
  <2>1. SUFFICES ASSUME NEW l \in lines, NEW row \in Copies(l)
                 PROVE  row.copy + 1 + Cardinality(Restorers(l)')
                          <= Cardinality(Requests)
    BY <1>1 DEF Budget, Copies
  <2>2. LineId(l) # LineId(line)
    BY <1>1, <2>1 DEF OnceInv, OfferedIsUnused, LinesDiffer
  <2>3. Restorers(l)' \subseteq Restorers(l)
    BY <1>1, <1>2, <2>2 DEF Restorers, LineId
  <2>4. /\ Cardinality(Restorers(l)') \in Nat
        /\ Cardinality(Restorers(l)') <= Cardinality(Restorers(l))
    BY <2>3, FewerRestorers
  <2>5. row.copy \in Nat
    BY ReviewBounds DEF Copies, OnceInv, IInv, TypeOK, Row
  <2>6. row.copy + 1 + Cardinality(Restorers(l)) <= Cardinality(Requests)
    BY <2>1 DEF OnceInv, Budget
  <2>7. QED
    BY <2>4, <2>5, <2>6, RestorersCount
<1>5. IInv'
  BY NextIInv DEF OnceInv, Next, Person
<1>6. QED
  BY <1>3, <1>4, <1>5 DEF OnceInv

LEMMA NextOnce ==
  ASSUME OnceInv, [Next]_vars
  PROVE  OnceInv'
<1>1. IInv' /\ req \in [Requests -> {Idle} \cup Patching \cup Restoring]
  BY NextIInv DEF OnceInv, IInv, TypeOK
<1>2. CASE \E m \in Extractions : PersistCommit(m)
  BY <1>2, PersistCommitOnce
<1>3. CASE PersistRead \/ FinishEmpty \/ FailExtraction \/ Reprocess \/ Expire
           \/ UNCHANGED vars
  <2>1. UNCHANGED <<rows, lines, nruns, req>>
    BY <1>3 DEF PersistRead, FinishEmpty, FailExtraction, Reprocess, Expire, vars
  <2>2. QED
    BY <1>1, <2>1, FewerRowsOnce
<1>4. CASE Requeue
  BY <1>1, <1>4, FewerRowsOnce DEF Requeue, Verified
<1>5. ASSUME NEW q \in Requests, Person(q) PROVE OnceInv'
  <2>1. CASE \E row \in rows : PatchRead(q, row)
    <3>1. PICK row \in rows : PatchRead(q, row)
      BY <2>1
    <3>2. QED
      BY <1>1, <3>1, FewerRowsOnce DEF PatchRead
  <2>2. CASE PatchWrite(q)
    BY <2>2, PatchWriteOnce
  <2>3. CASE PatchFails(q) \/ RestoreConflict(q)
    BY <1>1, <2>3, FewerRowsOnce DEF PatchFails, RestoreConflict, Answer, Idle
  <2>4. CASE \E line \in lines : RestoreRead(q, line)
    BY <2>4, RestoreReadOnce
  <2>5. CASE Verify(q)
    BY <1>1, <2>5, FewerRowsOnce DEF Verify
  <2>6. CASE RestoreWrite(q)
    BY <2>6, RestoreWriteOnce
  <2>7. CASE RestoreFails(q)
    BY <2>7, RestoreFailsOnce
  <2>8. QED
    BY <1>5, <2>1, <2>2, <2>3, <2>4, <2>5, <2>6, <2>7 DEF Person
<1>6. QED
  BY <1>2, <1>3, <1>4, <1>5 DEF Next, Worker

\* However clicks overlap, a line becomes no more rows than requests are
\* served at once, whatever extractions and restarts do between their steps
\* (restore_filtered, restore_audit_drop, persist_mine_result).
THEOREM CopiesAreBounded == Spec => []CopiesBounded
<1>1. OnceInv /\ [Next]_vars => OnceInv'
  BY NextOnce
<1>2. OnceInv => CopiesBounded
  BY DEF OnceInv
<1>3. QED
  BY InitOnce, <1>1, <1>2, PTL DEF Spec
=============================================================================
