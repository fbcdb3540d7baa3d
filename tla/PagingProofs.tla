---------------------------- MODULE PagingProofs ----------------------------
(***************************************************************************)
(* Theorems about Paging, for every value of its constants.                *)
(***************************************************************************)
EXTENDS Paging, FiniteSetTheorems, TLAPS

\* The rows of s that come before a row.
Preceding(s, i) == {j \in s : Before(j, i)}
Following(s, i) == {j \in s : Before(i, j)}

\* The times that the orders compare are numbers.
LEMMA TimesTyped ==
  ASSUME TypeOK, NEW i \in Items
  PROVE  row[i].at \in Nat /\ DueAt(i) \in Nat /\ TypeOrder(i) \in Nat /\ i \in Nat
<1>1. row[i].at \in Times /\ Times \subseteq Nat /\ i \in Nat
  BY PagingAssumption DEF TypeOK, Rows, Times
<1>2. \A j \in DOMAIN reader.due : reader.due[j] \in Times
  BY DEF TypeOK
<1> QED
  BY <1>1, <1>2 DEF DueAt, TypeOrder

\* The order of a list is strict and total: two rows never share a place.
LEMMA OrderStrict ==
  ASSUME TypeOK, NEW i \in Items, NEW j \in Items
  PROVE  /\ ~(Before(i, j) /\ Before(j, i))
         /\ i # j <=> Before(i, j) \/ Before(j, i)
         /\ ~Before(i, i)
<1>1. /\ row[i].at \in Nat /\ DueAt(i) \in Nat /\ TypeOrder(i) \in Nat /\ i \in Nat
      /\ row[j].at \in Nat /\ DueAt(j) \in Nat /\ TypeOrder(j) \in Nat /\ j \in Nat
  BY TimesTyped
<1> QED
  BY <1>1 DEF Before, Earliest, Latest

LEMMA OrderTransitive ==
  ASSUME TypeOK, NEW i \in Items, NEW j \in Items, NEW k \in Items,
         Before(i, j), Before(j, k)
  PROVE  Before(i, k)
<1>1. /\ row[i].at \in Nat /\ DueAt(i) \in Nat /\ TypeOrder(i) \in Nat /\ i \in Nat
      /\ row[j].at \in Nat /\ DueAt(j) \in Nat /\ TypeOrder(j) \in Nat /\ j \in Nat
      /\ row[k].at \in Nat /\ DueAt(k) \in Nat /\ TypeOrder(k) \in Nat /\ k \in Nat
  BY TimesTyped
<1>2. CASE list.kind = "due"
  BY <1>1, <1>2 DEF Before, Earliest
<1>3. CASE list.kind # "due"
  BY <1>1, <1>3 DEF Before, Latest
<1> QED
  BY <1>2, <1>3

\* Sets of rows are finite, and a part of one has no more rows.
LEMMA RowsFinite ==
  ASSUME NEW s \in SUBSET Items
  PROVE  IsFiniteSet(s) /\ Cardinality(s) \in Nat
BY FS_Subset, FS_CardinalityType, PagingAssumption

LEMMA RowsFewer ==
  ASSUME NEW s \in SUBSET Items, NEW t \in SUBSET s
  PROVE  Cardinality(t) <= Cardinality(s) /\ (Cardinality(t) = Cardinality(s) => t = s)
BY RowsFinite, FS_Subset

\* Of sets of rows, one contains no other of them.
LEMMA SmallestSet ==
  ASSUME NEW T \in SUBSET SUBSET Items, T # {}
  PROVE  \E x \in T : \A y \in T : ~(y \subseteq x /\ y # x)
<1>1. IsWellFoundedOn(StrictSubsetOrdering(Items), SUBSET Items)
  <2>1. IsWellFoundedOn(StrictSubsetOrdering(Items), FiniteSubsetsOf(Items))
    BY FS_StrictSubsetOrderingWellFounded
  <2>2. FiniteSubsetsOf(Items) = SUBSET Items
    BY FS_FiniteSubsetsOfFinite, PagingAssumption
  <2> QED
    BY <2>1, <2>2
<1>2. PICK x \in T : \A y \in T : ~(<<y, x>> \in StrictSubsetOrdering(Items))
  BY <1>1, WFMin, Zenon
<1>3. \A y \in T : ~(y \subseteq x /\ y # x)
  BY <1>2 DEF StrictSubsetOrdering
<1> QED
  BY <1>3

\* Of some rows, one comes first ...
LEMMA FirstExists ==
  ASSUME TypeOK, NEW s \in SUBSET Items, s # {}
  PROVE  \E i \in s : Preceding(s, i) = {}
<1> DEFINE T == {Preceding(s, i) : i \in s}
<1>1. T \in SUBSET SUBSET Items /\ T # {}
  BY DEF Preceding
<1>2. PICK x \in T : \A y \in T : ~(y \subseteq x /\ y # x)
  BY <1>1, SmallestSet
<1>3. PICK i \in s : x = Preceding(s, i)
  BY <1>2
<1>4. ASSUME NEW j \in Preceding(s, i) PROVE FALSE
  <2>1. j \in s /\ Before(j, i)
    BY <1>4 DEF Preceding
  <2>2. Preceding(s, j) \subseteq x
    BY <2>1, <1>3, OrderTransitive DEF Preceding
  <2>3. j \in x /\ j \notin Preceding(s, j)
    BY <1>3, <1>4, OrderStrict DEF Preceding
  <2> QED
    BY <1>2, <2>1, <2>2, <2>3
<1> QED
  BY <1>4

\* ... and one last.
LEMMA LastOfLast ==
  ASSUME TypeOK, NEW s \in SUBSET Items, s # {}
  PROVE  LastOf(s) \in s /\ \A j \in s : j = LastOf(s) \/ Before(j, LastOf(s))
<1> DEFINE T == {Following(s, i) : i \in s}
<1>1. T \in SUBSET SUBSET Items /\ T # {}
  BY DEF Following
<1>2. PICK x \in T : \A y \in T : ~(y \subseteq x /\ y # x)
  BY <1>1, SmallestSet
<1>3. PICK i \in s : x = Following(s, i)
  BY <1>2
<1>4. ASSUME NEW j \in s, Before(i, j) PROVE FALSE
  <2>1. Following(s, j) \subseteq x
    BY <1>3, <1>4, OrderTransitive DEF Following
  <2>2. j \in x /\ j \notin Following(s, j)
    BY <1>3, <1>4, OrderStrict DEF Following
  <2> QED
    BY <1>2, <2>1, <2>2
<1>5. LastOf(s) \in s /\ \A j \in s : ~Before(LastOf(s), j)
  BY <1>4 DEF LastOf
<1> QED
  BY <1>5, OrderStrict

----------------------------------------------------------------------------
(* The first n rows of a set.                                               *)

\* They are rows of the set, with every row of the set before one of them.
LEMMA FirstClosed ==
  ASSUME TypeOK, NEW s \in SUBSET Items, NEW n \in Nat
  PROVE  /\ First(n, s) \subseteq s
         /\ \A i \in First(n, s), j \in s : Before(j, i) => j \in First(n, s)
<1>1. First(n, s) = {i \in s : Cardinality(Preceding(s, i)) < n}
  BY DEF First, Preceding
<1>2. ASSUME NEW i \in First(n, s), NEW j \in s, Before(j, i) PROVE j \in First(n, s)
  <2>1. i \in s /\ Cardinality(Preceding(s, i)) < n
    BY <1>1
  <2>2. Preceding(s, j) \subseteq Preceding(s, i) /\ Preceding(s, i) \in SUBSET Items
    BY <1>2, <2>1, OrderTransitive DEF Preceding
  <2>3. /\ Cardinality(Preceding(s, j)) <= Cardinality(Preceding(s, i))
        /\ Cardinality(Preceding(s, j)) \in Nat /\ Cardinality(Preceding(s, i)) \in Nat
    BY <2>2, RowsFewer, RowsFinite
  <2> QED
    BY <1>1, <2>1, <2>3
<1> QED
  BY <1>1, <1>2

\* They are at most n ...
LEMMA FirstBounded ==
  ASSUME TypeOK, NEW s \in SUBSET Items, NEW n \in Nat
  PROVE  Cardinality(First(n, s)) <= n
<1> DEFINE p == First(n, s)
<1>1. CASE p = {}
  BY <1>1, FS_EmptySet
<1>2. CASE p # {}
  <2>1. p \in SUBSET Items /\ p \subseteq s
    BY FirstClosed
  <2>2. PICK m \in p : \A j \in p : j = m \/ Before(j, m)
    BY <1>2, <2>1, LastOfLast
  <2>3. m \in s /\ Cardinality(Preceding(s, m)) < n
    BY DEF First, Preceding
  <2>4. p \subseteq Preceding(s, m) \cup {m} /\ Preceding(s, m) \in SUBSET Items
    BY <2>1, <2>2 DEF Preceding
  <2>5. /\ Cardinality(p) <= Cardinality(Preceding(s, m) \cup {m})
        /\ Cardinality(Preceding(s, m) \cup {m}) <= Cardinality(Preceding(s, m)) + 1
        /\ Cardinality(p) \in Nat /\ Cardinality(Preceding(s, m)) \in Nat
        /\ Cardinality(Preceding(s, m) \cup {m}) \in Nat
    <3>1. Preceding(s, m) \cup {m} \in SUBSET Items
      BY <2>3, <2>4
    <3> HIDE DEF p
    <3>2. Cardinality(p) <= Cardinality(Preceding(s, m) \cup {m})
      BY <2>4, <3>1, RowsFewer
    <3>3. IsFiniteSet(Preceding(s, m)) /\ Cardinality(Preceding(s, m)) \in Nat
      BY <2>4, RowsFinite
    <3> QED
      BY <2>1, <3>1, <3>2, <3>3, RowsFinite, FS_AddElement
  <2> QED
    BY <2>3, <2>5
<1> QED
  BY <1>1, <1>2

\* ... and no fewer, unless they are all.
LEMMA FirstFull ==
  ASSUME TypeOK, NEW s \in SUBSET Items, NEW n \in Nat, First(n, s) # s
  PROVE  n <= Cardinality(First(n, s))
<1> DEFINE rest == s \ First(n, s)
<1>1. rest \in SUBSET Items /\ rest # {}
  BY FirstClosed
<1>2. PICK x \in rest : Preceding(rest, x) = {}
  BY <1>1, FirstExists
<1>3. x \in s /\ ~(Cardinality(Preceding(s, x)) < n) /\ Preceding(s, x) \in SUBSET Items
  BY DEF First, Preceding
<1>4. Preceding(s, x) \subseteq First(n, s)
  BY <1>2 DEF Preceding
<1>5. First(n, s) \in SUBSET Items
  BY FirstClosed
<1>6. /\ Cardinality(Preceding(s, x)) <= Cardinality(First(n, s))
      /\ Cardinality(Preceding(s, x)) \in Nat /\ Cardinality(First(n, s)) \in Nat
  BY <1>3, <1>4, <1>5, RowsFewer, RowsFinite
<1> QED
  BY <1>3, <1>6

\* There is one, if there is any row and any is asked for.
LEMMA FirstSome ==
  ASSUME TypeOK, NEW s \in SUBSET Items, NEW n \in Nat \ {0}, s # {}
  PROVE  First(n, s) # {}
<1>1. PICK i \in s : Preceding(s, i) = {}
  BY FirstExists
<1> QED
  BY <1>1, FS_EmptySet DEF First, Preceding

\* A page that shows all of the rows it asked for, one more than it shows, has shown
\* all there are.
LEMMA PageIsAll ==
  ASSUME TypeOK, NEW s \in SUBSET Items, NEW n \in Nat, First(n, First(n + 1, s)) = First(n + 1, s)
  PROVE  First(n + 1, s) = s
<1>1. First(n + 1, s) \in SUBSET Items
  BY FirstClosed
<1>2. Cardinality(First(n + 1, s)) <= n /\ Cardinality(First(n + 1, s)) \in Nat
  BY <1>1, FirstBounded, RowsFinite
<1> QED
  BY <1>2, FirstFull

----------------------------------------------------------------------------
(* Lists whose cursor is a row.                                             *)

ItemList == list.kind \notin {"due", "viewed"}

\* What a read leaves as it is: the rows that stayed, and their order.
LEMMA ReadKeeps ==
  ASSUME UNCHANGED <<row, list, touched>>
  PROVE  /\ Untouched' = Untouched /\ Steady' = Steady /\ SearchTarget' = SearchTarget
         /\ list.kind # "due" =>
              \A i, j \in Items : Before(i, j)' <=> Before(i, j)
<1>1. Untouched' = Untouched
  BY DEF Untouched
<1>2. SearchTarget' = SearchTarget /\ Where("title")' = Where("title")
      /\ Where(SearchTarget)' = Where(SearchTarget)
  BY DEF SearchTarget, HasTitleMatches, Where
<1>3. DueAfter(None)' = DueAfter(None)
  BY DEF DueAfter
<1>4. Steady' = Steady
  BY <1>1, <1>2, <1>3 DEF Steady
<1>5. list.kind # "due" => \A i, j \in Items : Before(i, j)' <=> Before(i, j)
  BY DEF Before, Latest, TypeOrder
<1> QED
  BY <1>1, <1>2, <1>4, <1>5

\* The statements before the page: the reader goes on with the same cursor, or fails.
LEMMA MoveStep ==
  ASSUME IInv, ItemList, Running,
         NEW step \in {"validate", "isLiked", "match", "find", "failed"},
         NEW target \in {"title", "tag"},
         reader' = [reader EXCEPT !.step = step, !.target = target],
         step \in {"validate", "isLiked", "match"} => reader.cursor # None,
         UNCHANGED <<now, row, list, touched, shown, doubt>>
  PROVE  IInv'
<1>1. /\ Untouched' = Untouched /\ Steady' = Steady /\ Seen' = Seen
      /\ \A i, j \in Items : Before(i, j)' <=> Before(i, j)
  BY ReadKeeps DEF Seen, ItemList
<1>2. reader'.cursor = reader.cursor /\ reader'.step = step /\ step # "done"
  BY DEF IInv, TypeOK
<1>3. TypeOK'
  BY DEF IInv, TypeOK, Cursors
<1>4. (Complete /\ NoGap /\ NoRepeat)'
  BY <1>1, <1>2 DEF IInv, Complete, NoGap, NoRepeat, Untouched, Steady, Where
<1>5. ItemReader'
  <2>1. ItemReader /\ (reader.cursor # None => UpTo(reader.cursor)' = UpTo(reader.cursor))
    <3>1. reader.cursor # None => reader.cursor \in Items
      BY DEF IInv, TypeOK, Cursors, ItemList
    <3>2. reader.cursor # None => UpTo(reader.cursor)' = UpTo(reader.cursor)
      BY <1>1, <1>2, <3>1 DEF UpTo
    <3> QED
      BY <3>2 DEF IInv, ItemList
  <2> QED
    BY <1>1, <1>2, <2>1 DEF ItemReader, Running
<1> QED
  BY <1>3, <1>4, <1>5 DEF IInv, ItemList

\* A page whose rows come, without a gap, behind the cursor.
LEMMA PageStep ==
  ASSUME IInv, ItemList, Running, NEW found \in SUBSET Items, Steady \subseteq found,
         NEW s \in SUBSET After(found, reader.cursor),
         \A i \in s, j \in After(found, reader.cursor) : Before(j, i) => j \in s,
         First(list.limit, s) = s => s = After(found, reader.cursor),
         NextPage(s), doubt' = doubt
  PROVE  IInv'
<1> DEFINE c == reader.cursor
           X == After(found, c)
           page == First(list.limit, s)
<1>0. /\ TypeOK /\ Complete /\ NoGap /\ NoRepeat /\ ItemReader /\ list.kind # "due"
      /\ list.limit \in Nat \ {0} /\ c \in Items \cup {None}
  BY PagingAssumption DEF IInv, ItemList, TypeOK, Cursors
<1>1. X \in SUBSET Items /\ s \in SUBSET Items
  BY DEF After
<1>2. /\ page \subseteq s /\ page \in SUBSET Items
      /\ \A i \in page, j \in X : Before(j, i) => j \in page
  BY <1>0, <1>1, FirstClosed
<1>3. /\ UNCHANGED <<now, row, list, touched>>
      /\ shown' = [i \in Items |-> IF i \in page THEN shown[i] + 1 ELSE shown[i]]
      /\ reader' = IF page # s THEN [Start EXCEPT !.cursor = LastOf(page)]
                   ELSE [Start EXCEPT !.step = "done"]
  BY DEF NextPage, Show, Read
<1>4. /\ Untouched' = Untouched /\ Steady' = Steady
      /\ \A i, j \in Items : Before(i, j)' <=> Before(i, j)
  BY <1>0, <1>3, ReadKeeps
<1>5. shown \in [Items -> Nat] /\ Seen' = Seen \cup page
  BY <1>0, <1>2, <1>3 DEF TypeOK, Seen
<1>6. ASSUME "switched" \notin doubt, NEW i \in Steady, i \notin X PROVE i \in Seen
  <2>1. i \in Items /\ c # None /\ ~Before(c, i)
    BY <1>1, <1>6 DEF After
  <2>2. i \in UpTo(c)
    BY <1>0, <2>1, OrderStrict DEF UpTo
  <2> QED
    BY <1>0, <1>6, <2>1, <2>2 DEF ItemReader
<1>7. ASSUME "moved" \notin doubt, NEW i \in Untouched, i \in Seen
      PROVE  c # None /\ c \in Items /\ i \in UpTo(c) /\ i \notin X
  <2>1. c # None /\ c \in Items /\ i \in UpTo(c) /\ i \in Items
    BY <1>0, <1>7 DEF ItemReader, Untouched
  <2> QED
    BY <1>0, <2>1, OrderStrict DEF UpTo, After
<1>8. page # s => LastOf(page) \in page /\ \A j \in page : j = LastOf(page) \/ Before(j, LastOf(page))
  <2>1. page # s => page # {}
    BY <1>0, <1>1, <1>2, FirstSome
  <2> QED
    BY <1>0, <1>2, <2>1, LastOfLast
<1> HIDE DEF page, X
<1>9. NoGap'
  <2> SUFFICES ASSUME "switched" \notin doubt, NEW i \in Steady, NEW j \in Steady,
                      j \in Seen \cup page, Before(i, j)
               PROVE  i \in Seen \cup page
    <3>1. Steady \subseteq Items
      OBVIOUS
    <3> QED
      BY <1>4, <1>5, <3>1 DEF NoGap, Seen
  <2>1. i \in Items /\ j \in Items
    OBVIOUS
  <2>2. CASE j \in Seen
    BY <1>0, <2>1, <2>2 DEF NoGap, Seen
  <2>3. CASE j \in page
    BY <1>2, <1>6, <2>3
  <2> QED
    BY <2>2, <2>3
<1>10. NoRepeat'
  <2> SUFFICES ASSUME "moved" \notin doubt, NEW i \in Untouched PROVE shown'[i] <= 1
    BY <1>0, <1>3, <1>4 DEF NoRepeat
  <2>1. i \in Items /\ shown[i] \in Nat /\ shown[i] <= 1
    BY <1>0, <1>5 DEF NoRepeat, Untouched
  <2>2. CASE i \in page
    <3>1. i \notin Seen
      BY <1>2, <1>7, <2>2 DEF X
    <3> QED
      BY <1>3, <2>1, <3>1 DEF Seen
  <2> QED
    BY <1>3, <2>1, <2>2
<1>11. Complete'
  <2> SUFFICES ASSUME page = s, "switched" \notin doubt, NEW i \in Steady
               PROVE  i \in Seen \cup page
    <3>1. reader'.step = "done" => page = s
      BY <1>3 DEF Start
    <3> QED
      BY <1>4, <1>5, <3>1 DEF Complete, Seen
  <2>1. page = X
    BY DEF page, X
  <2> QED
    BY <1>6, <2>1
<1>12. TypeOK'
  <2>1. NothingDue \in UNION {[t -> Times] : t \in SUBSET Items}
    <3>1. NothingDue \in [{} -> Times]
      BY DEF NothingDue
    <3> QED
      BY <3>1
  <2>2. reader'.cursor \in Items \cup {None}
    BY <1>2, <1>3, <1>8 DEF Start
  <2>3. /\ reader' = [step |-> reader'.step, cursor |-> reader'.cursor, target |-> "title",
                      page |-> {}, due |-> NothingDue, count |-> 0]
        /\ reader'.step \in {"resolve", "done"}
    BY <1>3 DEF Start
  <2>4. reader' \in [step : {"resolve", "validate", "isLiked", "match", "find", "ids",
                            "orders", "done", "failed"},
                    cursor : Cursors, target : {"title", "tag"},
                    page : SUBSET Items, due : UNION {[t -> Times] : t \in SUBSET Items},
                    count : Nat]
    BY <1>0, <2>1, <2>2, <2>3 DEF Cursors
  <2>5. shown' \in [Items -> Nat]
    BY <1>3, <1>5
  <2>6. Cursors' = Cursors
    BY <1>3 DEF Cursors
  <2> QED
    BY <1>0, <1>3, <2>4, <2>5, <2>6 DEF TypeOK
<1>13. ItemReader'
  <2>1. CASE page = s
    <3>1. reader'.step = "done"
      BY <1>3, <2>1 DEF Start
    <3> QED
      BY <3>1 DEF ItemReader, Running
  <2>2. CASE page # s
    <3>0. PICK d \in page : d = LastOf(page)
      BY <1>8, <2>2
    <3>1. reader'.step = "resolve" /\ reader'.cursor = d /\ d \in Items
      BY <1>2, <1>3, <2>2, <3>0 DEF Start
    <3>2. /\ \A j \in page : j = d \/ Before(j, d)
          /\ d \in X
      BY <1>2, <1>8, <2>2, <3>0 DEF X
    <3>3. UpTo(d)' = UpTo(d)
      BY <1>4, <3>1 DEF UpTo
    <3>4. ASSUME "switched" \notin doubt, NEW i \in Steady \cap UpTo(d)
          PROVE  i \in Seen \cup page
      BY <1>2, <1>6, <3>1, <3>4 DEF UpTo
    <3>5. ASSUME "moved" \notin doubt, NEW i \in Untouched \cap (Seen \cup page)
          PROVE  i \in UpTo(d)
      <4>1. CASE i \in page
        BY <1>2, <3>2, <4>1 DEF UpTo
      <4>2. CASE i \in Seen
        <5>1. c \in Items /\ i \in UpTo(c) /\ c # None
          BY <1>7, <3>5, <4>2
        <5>2. Before(c, d) /\ i \in Items
          BY <3>2, <5>1 DEF X, After, UpTo
        <5>3. Before(i, d)
          BY <1>0, <3>1, <5>1, <5>2, OrderTransitive DEF UpTo
        <5> QED
          BY <5>2, <5>3 DEF UpTo
      <4> QED
        BY <3>5, <4>1, <4>2
    <3>6. d # None
      BY <3>1, PagingAssumption
    <3> QED
      BY <1>4, <1>5, <3>1, <3>3, <3>4, <3>5, <3>6 DEF ItemReader, Running
  <2> QED
    BY <2>1, <2>2
<1>14. \A i \in Items : row'[i].at <= now'
  BY <1>0, <1>3 DEF IInv
<1> QED
  BY <1>3, <1>9, <1>10, <1>11, <1>12, <1>13, <1>14 DEF IInv, ItemList

\* A page of clips, favourites or views.
LEMMA FindPageStep ==
  ASSUME IInv, ItemList, FindPage
  PROVE  IInv'
<1> DEFINE c == reader.cursor
           found == Where(SearchTarget)
           X == After(found, c)
<1>0. /\ TypeOK /\ Running /\ reader.step = "find"
      /\ list.limit \in Nat \ {0}
  BY PagingAssumption DEF IInv, TypeOK, FindPage, Running
<1>1. CASE c # None /\ c \notin found
  <2>1. reader' = [reader EXCEPT !.step = "failed"] /\ UNCHANGED <<now, row, list, touched>>
        /\ UNCHANGED <<shown, doubt>>
    BY <1>1 DEF FindPage, Fail, Go, Read, Unread
  <2>2. reader.target \in {"title", "tag"}
        /\ reader' = [reader EXCEPT !.step = "failed", !.target = reader.target]
    BY <1>0, <2>1 DEF TypeOK
  <2> QED
    BY <1>0, <2>1, <2>2, MoveStep
<1>2. CASE ~(c # None /\ c \notin found)
  <2>1. NextPage(First(Take, X)) /\ doubt' = doubt
    BY <1>2 DEF FindPage
  <2>2. found \in SUBSET Items /\ X \in SUBSET Items /\ Take = list.limit + 1 /\ Take \in Nat
    BY <1>0 DEF Where, After, Take
  <2>3. Steady \subseteq found
    BY DEF Steady, ItemList
  <2>4. /\ First(Take, X) \in SUBSET X
        /\ \A i \in First(Take, X), j \in X : Before(j, i) => j \in First(Take, X)
    BY <1>0, <2>2, FirstClosed
  <2>5. First(list.limit, First(Take, X)) = First(Take, X) => First(Take, X) = X
    BY <1>0, <2>2, PageIsAll
  <2> HIDE DEF found
  <2> QED
    BY <1>0, <2>1, <2>2, <2>3, <2>4, <2>5, PageStep
<1> QED
  BY <1>1, <1>2

\* The statements before a page of clips, favourites or views.
LEMMA LookStep ==
  ASSUME IInv, ItemList,
         ResolveTarget \/ ResolveRecentTarget \/ Validate \/ IsLiked \/ MatchCursor
  PROVE  IInv'
<1>0. TypeOK /\ Running
  BY DEF IInv, ResolveTarget, ResolveRecentTarget, Resolved, Validate, IsLiked,
         MatchCursor, Running
<1>1. PICK step \in {"validate", "isLiked", "match", "find", "failed"},
           target \in {"title", "tag"} :
        /\ reader' = [reader EXCEPT !.step = step, !.target = target]
        /\ step \in {"validate", "isLiked", "match"} => reader.cursor # None
        /\ UNCHANGED <<now, row, list, touched, shown, doubt>>
  <2>1. ItemReader /\ SearchTarget \in {"title", "tag"} /\ AfterValidation \in {"match", "find"}
    BY DEF IInv, ItemList, SearchTarget, AfterValidation
  <2>2. CASE ResolveTarget \/ ResolveRecentTarget
    <3>1. PICK step \in {"validate", "match"} : Resolved(step)
      BY <2>2 DEF ResolveTarget, ResolveRecentTarget
    <3>2. reader' = [reader EXCEPT !.target = SearchTarget,
                       !.step = IF reader.cursor = None THEN "find" ELSE step]
          /\ UNCHANGED <<now, row, list, touched, shown, doubt>>
      BY <3>1 DEF Resolved, Read, Unread
    <3> QED
      BY <1>0, <2>1, <3>2
  <2>3. CASE Validate \/ IsLiked \/ MatchCursor
    <3>1. PICK step \in {"isLiked", "match", "find", "failed"} :
            /\ reader' = [reader EXCEPT !.step = step]
            /\ UNCHANGED <<now, row, list, touched, shown, doubt>>
      BY <2>1, <2>3 DEF Validate, IsLiked, MatchCursor, Go, Read, Unread, Fail
    <3>2. reader.cursor # None
      BY <2>1, <2>3 DEF ItemReader, Validate, IsLiked, MatchCursor
    <3>3. reader.target \in {"title", "tag"}
          /\ reader' = [reader EXCEPT !.step = step, !.target = reader.target]
      BY <1>0, <3>1 DEF TypeOK
    <3> QED
      BY <3>1, <3>2, <3>3
  <2> QED
    BY <2>2, <2>3
<1> QED
  BY <1>0, <1>1, MoveStep

----------------------------------------------------------------------------
(* The trash: two queries, whose results are merged.                        *)

\* What comes before a row of the merged page in one of the two tables was not cut off
\* by the limit of its query.
LEMMA MergeSide ==
  ASSUME TypeOK, NEW n \in Nat, NEW A \in SUBSET Items, NEW G \in SUBSET Items,
         First(n, A) \subseteq G, NEW i \in First(n, G), NEW j \in A, Before(j, i)
  PROVE  j \in First(n, G)
<1>0. i \in G /\ i \in Items /\ j \in Items /\ Cardinality(Preceding(G, i)) < n
  BY DEF First, Preceding
<1>1. CASE j \in First(n, A)
  BY <1>1, FirstClosed
<1>2. CASE j \notin First(n, A)
  <2>1. n <= Cardinality(First(n, A)) /\ First(n, A) \in SUBSET A
    BY <1>2, FirstFull, FirstClosed
  <2>2. ASSUME NEW k \in First(n, A) PROVE k \in Preceding(G, i)
    <3>1. k \in A /\ k \in G /\ k # j /\ ~Before(j, k)
      BY <1>2, FirstClosed
    <3>2. Before(k, j)
      BY <3>1, OrderStrict
    <3> QED
      BY <1>0, <3>1, <3>2, OrderTransitive DEF Preceding
  <2>3. Preceding(G, i) \in SUBSET Items /\ First(n, A) \in SUBSET Items
    BY <2>1 DEF Preceding
  <2>4. /\ Cardinality(First(n, A)) <= Cardinality(Preceding(G, i))
        /\ Cardinality(First(n, A)) \in Nat /\ Cardinality(Preceding(G, i)) \in Nat
    BY <2>2, <2>3, RowsFewer, RowsFinite
  <2> QED
    BY <1>0, <2>1, <2>4
<1> QED
  BY <1>1, <1>2

\* The page of a list that is read from two tables.
Merged(n, A, B) == First(n + 1, First(n + 1, A) \cup First(n + 1, B))

\* Of two queries that are each cut off one row behind the page, the merged page is what
\* one query of both would be.
LEMMA MergedPage ==
  ASSUME TypeOK, NEW n \in Nat, NEW A \in SUBSET Items, NEW B \in SUBSET Items
  PROVE  /\ Merged(n, A, B) \in SUBSET (A \cup B)
         /\ \A i \in Merged(n, A, B), j \in A \cup B :
              Before(j, i) => j \in Merged(n, A, B)
         /\ First(n, Merged(n, A, B)) = Merged(n, A, B) => Merged(n, A, B) = A \cup B
<1> DEFINE F == Merged(n, A, B)
           G == First(n + 1, A) \cup First(n + 1, B)
<1>1. /\ First(n + 1, A) \in SUBSET A /\ First(n + 1, B) \in SUBSET B
      /\ G \in SUBSET Items /\ F = First(n + 1, G) /\ F \in SUBSET G
  BY FirstClosed DEF Merged
<1> HIDE DEF F
<1>2. \A i \in F, j \in A \cup B : Before(j, i) => j \in F
  BY <1>1, MergeSide
<1>3. ASSUME First(n, F) = F PROVE F = A \cup B
  <2>1. F = G
    BY <1>1, <1>3, PageIsAll
  <2>2. Cardinality(F) <= n /\ Cardinality(F) \in Nat
    BY <1>1, <1>3, FirstBounded, RowsFinite
  <2>3. ASSUME NEW C \in SUBSET Items, First(n + 1, C) \subseteq F PROVE First(n + 1, C) = C
    <3>1. Cardinality(First(n + 1, C)) <= Cardinality(F) /\ Cardinality(First(n + 1, C)) \in Nat
      BY <1>1, <2>3, RowsFewer, RowsFinite
    <3> QED
      BY <2>2, <3>1, FirstFull
  <2> QED
    BY <2>1, <2>3
<1> QED
  BY <1>1, <1>2, <1>3 DEF F

\* The conditions of the two queries add up to what comes behind the cursor.
LEMMA TrashAfter ==
  ASSUME TypeOK, list.kind = "trash", NEW c \in Items \cup {None}, NEW found \in SUBSET Items
  PROVE  (ClipsAfter(c) \cap found) \cup (FoldersAfter(c) \cap found) = After(found, c)
<1>1. CASE c = None
  BY <1>1 DEF ClipsAfter, FoldersAfter, After
<1>2. CASE c # None
  <2> SUFFICES ASSUME NEW i \in Items
               PROVE  i \in ClipsAfter(c) \cup FoldersAfter(c) <=> Before(c, i)
    BY <1>2, PagingAssumption DEF After, ClipsAfter, FoldersAfter, LaterThan, SameTime
  <2>1. row[i].at \in Nat /\ row[c].at \in Nat /\ i \in Nat /\ c \in Nat /\ c \in Items
    BY <1>2, TimesTyped
  <2>2. Before(c, i) <=> Latest(c, i)
    BY DEF Before
  <2>3. CASE i \in Deleted
    BY <1>2, <2>1, <2>2, <2>3 DEF Latest, TypeOrder, ClipsAfter, FoldersAfter, LaterThan,
                                  SameTime
  <2>4. CASE i \notin Deleted
    BY <1>2, <2>1, <2>2, <2>4 DEF Latest, TypeOrder, ClipsAfter, FoldersAfter, LaterThan,
                                  SameTime
  <2> QED
    BY <2>3, <2>4
<1> QED
  BY <1>1, <1>2

\* A page of the trash, or its end when the cursor is gone.
LEMMA FindDeletedItemsStep ==
  ASSUME IInv, list.kind = "trash", FindDeletedItems
  PROVE  IInv'
<1> DEFINE c == reader.cursor
           found == Where("title")
<1>0. /\ TypeOK /\ ItemList /\ Running /\ list.limit \in Nat \ {0} /\ ~list.search
      /\ c \in Items \cup {None}
  BY PagingAssumption DEF IInv, TypeOK, ItemList, FindDeletedItems, Running, Cursors
<1>1. CASE CursorGone(c)
  <2>1. NextPage({}) /\ doubt' = doubt \cup {"ended"}
    BY <1>1 DEF FindDeletedItems
  <2>2. First(list.limit, {}) = {}
    BY DEF First
  <2>3. /\ UNCHANGED <<now, row, list, touched>>
        /\ reader' = [Start EXCEPT !.step = "done"]
        /\ shown' = shown
    BY <1>0, <2>1, <2>2 DEF NextPage, Show, Read, TypeOK
  <2>4. /\ Untouched' = Untouched /\ Steady' = Steady
        /\ \A i, j \in Items : Before(i, j)' <=> Before(i, j)
    BY <1>0, <2>3, ReadKeeps
  <2>5. TypeOK'
    <3>1. NothingDue \in [{} -> Times]
      BY DEF NothingDue
    <3>2. NothingDue \in UNION {[t -> Times] : t \in SUBSET Items}
      BY <3>1
    <3> QED
      BY <1>0, <2>3, <3>2 DEF TypeOK, Start, Cursors
  <2>6. (Complete /\ NoRepeat)'
    BY <2>1, <2>3, <2>4 DEF Complete, NoRepeat, IInv
  <2>7. NoGap'
    BY <2>1, <2>3, <2>4 DEF NoGap, IInv, Steady, Untouched
  <2>8. ItemReader'
    BY <2>3 DEF ItemReader, Running, Start
  <2> QED
    BY <2>3, <2>5, <2>6, <2>7, <2>8 DEF IInv
<1>2. CASE ~CursorGone(c)
  <2> DEFINE A == ClipsAfter(c) \cap found
             B == FoldersAfter(c) \cap found
             F == Merged(list.limit, A, B)
  <2>1. NextPage(F) /\ doubt' = doubt
    BY <1>2 DEF FindDeletedItems, Merged, Take
  <2>2. found \in SUBSET Items
    BY DEF Where
  <2>3. Steady \subseteq found
    BY <1>0 DEF Steady, SearchTarget
  <2>4. A \cup B = After(found, c)
    BY <1>0, <2>2, TrashAfter
  <2>5. A \in SUBSET Items /\ B \in SUBSET Items
    BY <2>2
  <2> HIDE DEF A, B, found
  <2>6. /\ F \in SUBSET (A \cup B)
        /\ \A i \in F, j \in A \cup B : Before(j, i) => j \in F
        /\ First(list.limit, F) = F => F = A \cup B
    <3>1. list.limit \in Nat
      BY <1>0
    <3> QED
      BY <1>0, <2>5, <3>1, MergedPage
  <2> QED
    BY <1>0, <2>1, <2>2, <2>3, <2>4, <2>6, PageStep
<1> QED
  BY <1>1, <1>2

----------------------------------------------------------------------------
(* The recently viewed: ids first, then their clips.                        *)

\* The ids of a page are those of its first rows, or of all.
LEMMA FindViewedIdsStep ==
  ASSUME IInv, list.kind = "viewed", FindViewedIds
  PROVE  IInv'
<1> DEFINE page == First(list.limit, Where("title"))
<1>0. /\ TypeOK /\ Complete /\ NoGap /\ NoRepeat /\ Seen = {} /\ Running
      /\ list.limit \in Nat \ {0} /\ ~list.search
  BY PagingAssumption DEF IInv, TypeOK, ViewedReader, FindViewedIds, Running
<1>1. /\ UNCHANGED <<now, row, list, touched, shown, doubt>>
      /\ reader' = [reader EXCEPT !.step = "ids", !.page = page]
  BY DEF FindViewedIds, Read, Unread
<1>2. /\ Untouched' = Untouched /\ Steady' = Steady
      /\ \A i, j \in Items : Before(i, j)' <=> Before(i, j)
  BY <1>1, ReadKeeps
<1>3. /\ Where("title") \in SUBSET Items /\ Steady \subseteq Where("title")
      /\ Steady \subseteq Items
  BY <1>0 DEF Where, Steady, SearchTarget
<1>4. /\ page \in SUBSET Items
      /\ \A i \in page, j \in Where("title") : Before(j, i) => j \in page
  BY <1>0, <1>3, FirstClosed
<1>5. Cardinality(page) = list.limit \/ Steady \subseteq page
  <2>1. Cardinality(page) <= list.limit /\ Cardinality(page) \in Nat
    BY <1>0, <1>3, <1>4, FirstBounded, RowsFinite
  <2> QED
    BY <1>0, <1>3, <2>1, FirstFull
<1> HIDE DEF page
<1>6. reader'.step = "ids" /\ reader'.page = page
  BY <1>0, <1>1 DEF TypeOK
<1>7. TypeOK'
  BY <1>0, <1>1, <1>4 DEF TypeOK, Cursors
<1>8. (Complete /\ NoGap /\ NoRepeat)'
  BY <1>0, <1>1, <1>2, <1>3, <1>6 DEF Complete, NoGap, NoRepeat
<1>9. ViewedReader'
  BY <1>0, <1>1, <1>2, <1>3, <1>4, <1>5, <1>6 DEF ViewedReader, Seen
<1> QED
  BY <1>1, <1>7, <1>8, <1>9 DEF IInv

\* Those of them that are still views of the list are shown.
LEMMA FindClipsByIdsStep ==
  ASSUME IInv, list.kind = "viewed", FindClipsByIds
  PROVE  IInv'
<1> DEFINE shows == reader.page \cap Where("title")
<1>0. /\ TypeOK /\ ViewedReader /\ Seen = {} /\ reader.step = "ids" /\ ~list.search
  BY PagingAssumption DEF IInv, TypeOK, ViewedReader, FindClipsByIds, Running
<1>1. /\ UNCHANGED <<now, row, list, touched, doubt>>
      /\ shown' = [i \in Items |-> IF i \in shows THEN shown[i] + 1 ELSE shown[i]]
      /\ reader' = [reader EXCEPT !.step = "done"]
  BY DEF FindClipsByIds, Read, Go, Show
<1>2. /\ Untouched' = Untouched /\ Steady' = Steady
      /\ \A i, j \in Items : Before(i, j)' <=> Before(i, j)
  BY <1>1, ReadKeeps
<1>3. /\ Steady \subseteq Where("title") /\ Steady \subseteq Items
      /\ Untouched \subseteq Items
  BY <1>0 DEF Where, Steady, SearchTarget, Untouched
<1>4. reader'.step = "done" /\ reader'.page = reader.page
  BY <1>0, <1>1 DEF TypeOK
<1>5. \A i \in Items : shown[i] = 0
  BY <1>0 DEF TypeOK, Seen
<1>6. /\ \A i \in Items : shown'[i] <= 1
      /\ \A i \in Steady : shown'[i] > 0 <=> i \in reader.page
  BY <1>1, <1>3, <1>5
<1>7. TypeOK'
  <2>1. shown' \in [Items -> Nat]
    BY <1>1, <1>5
  <2> QED
    BY <1>0, <1>1, <2>1 DEF TypeOK, Cursors
<1>8. NoRepeat'
  BY <1>2, <1>3, <1>6 DEF NoRepeat
<1>9. NoGap' /\ Complete'
  BY <1>0, <1>1, <1>2, <1>3, <1>4, <1>6 DEF NoGap, Complete, ViewedReader
<1>10. ViewedReader'
  BY <1>4 DEF ViewedReader, Running
<1>11. \A i \in Items : row'[i].at <= now'
  BY <1>1 DEF IInv
<1> QED
  BY <1>1, <1>7, <1>8, <1>9, <1>10, <1>11 DEF IInv

----------------------------------------------------------------------------
(* The batch.                                                               *)

\* A place in the batch is a time and an identifier, and never "none".
LEMMA PlaceTyped ==
  ASSUME NEW c \in Places
  PROVE  c # None /\ c.at \in Nat /\ c.id \in Nat
<1>1. c.at \in Times /\ c.id \in Items
  BY DEF Places
<1>2. Times \subseteq Nat /\ Items \subseteq Nat
  BY PagingAssumption DEF Times
<1>3. c # None
  BY PagingAssumption DEF Places, Times
<1> QED
  BY <1>1, <1>2, <1>3

\* Whether a due row is behind the cursor is decided by its due date alone.
LEMMA DueSplit ==
  ASSUME TypeOK, NEW c \in Places, NEW i \in DueAfter(None)
  PROVE  i \in DueAfter(c) <=> i \notin DueUpTo(c)
<1>1. c # None /\ c.at \in Nat /\ c.id \in Nat
  BY PlaceTyped
<1>2. i \in Items /\ row[i].at \in Nat /\ i \in Nat
  BY TimesTyped DEF DueAfter
<1> QED
  BY <1>1, <1>2 DEF DueAfter, DueUpTo

\* While no page is in hand, the order of the batch is that of the due dates.
LEMMA DueOrder ==
  ASSUME list.kind = "due", reader.due = NothingDue, NEW i \in Items, NEW j \in Items
  PROVE  Before(i, j) <=> row[i].at < row[j].at \/ (row[i].at = row[j].at /\ i < j)
BY DEF Before, Earliest, DueAt, NothingDue

\* A page of the batch is read.
LEMMA FindDueStep ==
  ASSUME IInv, list.kind = "due", FindDue
  PROVE  IInv'
<1> DEFINE c == reader.cursor
           X == DueAfter(c)
           page == First(PageSize, X)
<1>0. /\ TypeOK /\ Complete /\ NoGap /\ NoRepeat /\ DueReader /\ reader.step = "resolve"
      /\ c \in Places \cup {None} /\ PageSize \in Nat \ {0} /\ Running
      /\ reader.due = NothingDue /\ DOMAIN reader.due = {}
  <2>1. list.limit \in Nat \ {0} /\ MaxPage \in Nat \ {0}
    BY PagingAssumption DEF IInv, TypeOK
  <2>2. PageSize \in Nat \ {0}
    BY <2>1 DEF PageSize
  <2>3. DueReader /\ reader.step = "resolve" /\ reader.due = NothingDue
    BY DEF IInv, FindDue, DueReader
  <2> QED
    BY <2>2, <2>3 DEF IInv, TypeOK, Cursors, Running, NothingDue
<1>1. X \in SUBSET Items /\ X \subseteq DueAfter(None) /\ Steady \subseteq DueAfter(None)
      /\ Steady \subseteq Untouched /\ Untouched \subseteq Items
  BY DEF DueAfter, Steady, Untouched
<1>2. /\ page \in SUBSET X
      /\ \A i \in page, j \in X : Before(j, i) => j \in page
  BY <1>0, <1>1, FirstClosed
<1>3. ASSUME NEW i \in Steady, i \notin X
      PROVE  c # None /\ c \in Places /\ i \in DueUpTo(c) /\ i \in Seen
  <2>1. c # None /\ c \in Places
    BY <1>0, <1>1, <1>3
  <2>2. i \in DueUpTo(c)
    BY <1>0, <1>1, <1>3, <2>1, DueSplit
  <2> QED
    BY <1>0, <2>1, <2>2 DEF DueReader
<1>4. UNCHANGED <<now, row, list, touched, shown, doubt>>
  BY DEF FindDue, Read, Unread
<1>5. Untouched' = Untouched /\ Steady' = Steady /\ Seen' = Seen
  BY <1>4, ReadKeeps DEF Seen
<1>6. CASE page = {}
  <2>1. X = {}
    BY <1>0, <1>1, <1>6, FirstSome
  <2>2. reader' = [reader EXCEPT !.step = "done"]
    BY <1>6 DEF FindDue, Read
  <2>3. reader'.step = "done" /\ reader'.due = reader.due /\ reader'.count = reader.count
    BY <1>0, <2>2 DEF TypeOK
  <2>4. TypeOK'
    BY <1>0, <1>4, <2>2 DEF TypeOK, Cursors
  <2>5. \A i \in Steady : shown[i] > 0
    BY <1>3, <2>1 DEF Seen
  <2>6. (Complete /\ NoGap /\ NoRepeat)'
    BY <1>0, <1>4, <1>5, <2>5 DEF Complete, NoGap, NoRepeat
  <2>7. DueReader'
    BY <1>0, <1>4, <2>3 DEF DueReader, Running
  <2> QED
    BY <1>4, <2>4, <2>6, <2>7 DEF IInv
<1>7. CASE page # {}
  <2>0. PICK d \in page : d = LastOf(page) /\ \A j \in page : j = d \/ Before(j, d)
    BY <1>0, <1>1, <1>2, <1>7, LastOfLast
  <2> DEFINE place == [at |-> row[d].at, id |-> d]
             due == [i \in page |-> row[i].at]
  <2>1. reader' = [reader EXCEPT !.step = "orders", !.due = due, !.cursor = place]
    BY <1>7, <2>0 DEF FindDue, Read
  <2>2. reader'.step = "orders" /\ reader'.due = due /\ reader'.cursor = place
        /\ reader'.count = reader.count /\ DOMAIN reader'.due = page
    BY <1>0, <2>1 DEF TypeOK
  <2>3. d \in Items /\ d \in X /\ place \in Places /\ \A i \in Items : row[i].at \in Times
    BY <1>0, <1>1, <1>2 DEF TypeOK, Rows, Places
  <2>4. TypeOK'
    <3>1. due \in [page -> Times] /\ page \in SUBSET Items
      BY <1>1, <1>2, <2>3
    <3>2. due \in UNION {[t -> Times] : t \in SUBSET Items}
      BY <3>1
    <3>3. Cursors' = Places \cup {None}
      BY <1>4 DEF Cursors
    <3> HIDE DEF place, due
    <3> QED
      BY <1>0, <1>4, <2>1, <2>3, <3>2, <3>3 DEF TypeOK
  <2>5. \A i, j \in Items : Before(i, j)' <=> Before(i, j)
    BY <1>0, <1>4, <2>2, DueOrder DEF Before, Earliest, DueAt
  <2>6. \A i \in Items : i \in DueUpTo(reader.cursor)' <=> i = d \/ Before(i, d)
    <3>1. \A i \in Items : row[i].at \in Nat /\ i \in Nat
      BY <1>0, TimesTyped
    <3> QED
      BY <1>0, <1>4, <2>2, <2>3, <3>1, DueOrder DEF DueUpTo
  <2>7. ASSUME NEW i \in Items, c # None, i \in DueUpTo(c) PROVE Before(i, d) /\ i \notin X
    <3>1. d \in DueAfter(c) /\ c \in Places /\ c.at \in Nat /\ c.id \in Nat
      BY <1>0, <2>3, <2>7, PlaceTyped
    <3>2. row[i].at \in Nat /\ row[d].at \in Nat /\ i \in Nat /\ d \in Nat
      BY <1>0, <2>3, TimesTyped
    <3>3. i \notin X
      BY <1>1, <2>7, <3>1, <1>0, DueSplit
    <3> QED
      BY <1>0, <2>3, <2>7, <3>1, <3>2, <3>3, DueOrder DEF DueAfter, DueUpTo
  <2> HIDE DEF page, X, due, place
  <2>8. (Complete /\ NoGap /\ NoRepeat)'
    BY <1>0, <1>1, <1>4, <1>5, <2>2, <2>5 DEF Complete, NoGap, NoRepeat
  <2>9. \A i \in Steady : i = d \/ Before(i, d) => i \in Seen \cup page
    BY <1>2, <1>3, <2>3, <2>0
  <2>10. \A i \in Untouched \cap Seen : Before(i, d) /\ i \notin page
    BY <1>0, <1>1, <1>2, <2>7 DEF DueReader
  <2>11. \A i \in page : i \in Items /\ (i = d \/ Before(i, d)) /\ reader'.due[i] = row[i].at
    BY <1>1, <1>2, <2>0, <2>2 DEF due
  <2>12. Cardinality(page) < PageSize => \A i \in Steady : i = d \/ Before(i, d)
    <3>1. Cardinality(page) < PageSize => page = X
      BY <1>0, <1>1, <1>2, RowsFinite, FirstFull DEF page
    <3> QED
      BY <1>1, <1>3, <2>0, <2>7, <3>1
  <2>13. DueReader'
    <3>1. reader'.cursor # None /\ PageSize' = PageSize
      BY <1>4, <2>2, <2>3, PlaceTyped DEF PageSize
    <3>2. (Steady \cap DueUpTo(reader.cursor) \subseteq Seen \cup DOMAIN reader.due)'
      BY <1>1, <1>5, <2>2, <2>6, <2>9
    <3>3. \A i \in (Untouched \cap Seen)' : i \in DueUpTo(reader.cursor)' /\ i \notin DOMAIN reader'.due
      BY <1>1, <1>5, <2>2, <2>6, <2>10
    <3>4. \A i \in (Untouched \cap DOMAIN reader.due)' :
            i \in DueUpTo(reader.cursor)' /\ reader'.due[i] = row'[i].at
      BY <1>4, <2>2, <2>6, <2>11
    <3>5. Cardinality(DOMAIN reader'.due) < PageSize' => Steady' \subseteq DueUpTo(reader.cursor)'
      BY <1>1, <1>5, <2>2, <2>6, <2>12, <3>1
    <3>6. reader'.count <= list'.limit
      BY <1>0, <1>4, <2>2 DEF DueReader
    <3> QED
      BY <2>2, <3>1, <3>2, <3>3, <3>4, <3>5, <3>6 DEF DueReader
  <2> QED
    BY <1>4, <2>4, <2>8, <2>13 DEF IInv
<1> QED
  BY <1>6, <1>7

\* The rows of the page that have no order yet are taken, as far as the limit allows.
LEMMA TakeDueStep ==
  ASSUME IInv, list.kind = "due", TakeDue
  PROVE  IInv'
<1> DEFINE c == reader.cursor
           page == DOMAIN reader.due
           free == page \ Skipped(page)
           room == list.limit - reader.count
           taken == First(room, free)
           count == reader.count + Cardinality(taken)
<1>0. /\ TypeOK /\ Complete /\ NoGap /\ NoRepeat /\ DueReader /\ Running /\ c # None
      /\ reader.step = "orders"
  BY DEF IInv, DueReader, TakeDue, Running
<1>1. room \in Nat /\ reader.count \in Nat /\ list.limit \in Nat
      /\ reader.count + room = list.limit
  BY <1>0, PagingAssumption DEF DueReader, TypeOK
<1>2. page \in SUBSET Items /\ free \in SUBSET Items /\ free \subseteq page
  BY <1>0 DEF TypeOK
<1>3. /\ taken \in SUBSET free
      /\ \A i \in taken, j \in free : Before(j, i) => j \in taken
  BY <1>0, <1>1, <1>2, FirstClosed
<1>4. /\ Cardinality(taken) \in Nat /\ Cardinality(taken) <= room
      /\ count \in Nat /\ count <= list.limit
      /\ count # list.limit => taken = free
  <2>1. Cardinality(taken) \in Nat /\ Cardinality(taken) <= room
    BY <1>0, <1>1, <1>2, <1>3, RowsFinite, FirstBounded
  <2>2. taken # free => room <= Cardinality(taken)
    BY <1>0, <1>1, <1>2, FirstFull
  <2> HIDE DEF taken, room
  <2> QED
    BY <1>1, <2>1, <2>2
<1>5. /\ UNCHANGED <<now, row, list, touched, doubt>>
      /\ shown' = [i \in Items |-> IF i \in taken THEN shown[i] + 1 ELSE shown[i]]
      /\ reader' = [reader EXCEPT !.due = NothingDue, !.count = count,
                         !.step = IF Cardinality(page) < PageSize \/ count = list.limit
                                  THEN "done" ELSE "resolve"]
  BY DEF TakeDue, Read, Show
<1>6. Untouched' = Untouched /\ Steady' = Steady
  BY <1>5, ReadKeeps
<1>7. /\ Steady \subseteq Untouched /\ Untouched \subseteq Items
      /\ \A i \in Steady : row[i].at \notin row[i].orders
  BY DEF Steady, Untouched
<1>8. \A i \in Untouched : i \in page =>
        reader.due[i] = row[i].at /\ i \in DueUpTo(c) /\ i \notin Seen
  BY <1>0 DEF DueReader
<1>9. Steady \cap page \subseteq free
  BY <1>7, <1>8 DEF Skipped
<1>10. \A i, j \in Untouched : Before(i, j)' <=> Before(i, j)
  <2>1. reader'.due = NothingDue
    BY <1>0, <1>5 DEF TypeOK
  <2>2. ASSUME NEW i \in Untouched PROVE DueAt(i) = row[i].at /\ DueAt(i)' = row[i].at
    BY <1>5, <1>8, <2>1 DEF DueAt, NothingDue
  <2>3. ASSUME NEW i \in Untouched, NEW j \in Untouched
        PROVE  Before(i, j)' <=> Before(i, j)
    BY <1>5, <2>2 DEF Before, Earliest
  <2> QED
    BY <2>3
<1> HIDE DEF taken, free, room, count
<1>11. /\ reader'.due = NothingDue /\ reader'.count = count /\ reader'.cursor = c
       /\ reader'.step \in {"done", "resolve"}
       /\ reader'.step = "done" <=> Cardinality(page) < PageSize \/ count = list.limit
  BY <1>0, <1>5 DEF TypeOK
<1>12. shown \in [Items -> Nat] /\ taken \subseteq Items /\ Seen' = Seen \cup taken
  BY <1>0, <1>2, <1>3, <1>5 DEF TypeOK, Seen
<1>13. TypeOK'
  <2>1. shown' \in [Items -> Nat]
    BY <1>5, <1>12
  <2>2. NothingDue \in [{} -> Times]
    BY DEF NothingDue
  <2>3. NothingDue \in UNION {[t -> Times] : t \in SUBSET Items}
    BY <2>2
  <2> QED
    BY <1>0, <1>4, <1>5, <2>1, <2>3 DEF TypeOK, Cursors
<1>14. NoGap'
  <2> SUFFICES ASSUME "switched" \notin doubt, NEW i \in Steady, NEW j \in Steady,
                      j \in Seen \cup taken, Before(i, j)
               PROVE  i \in Seen \cup taken
    BY <1>5, <1>6, <1>7, <1>10, <1>12 DEF NoGap, Seen
  <2>1. CASE j \in Seen
    BY <1>0, <1>7, <2>1 DEF NoGap, Seen
  <2>2. CASE j \in taken
    <3>1. j \in page /\ j \in DueUpTo(c) /\ DueAt(j) = row[j].at /\ DueAt(i) = row[i].at
      BY <1>2, <1>3, <1>7, <1>8, <2>2 DEF DueAt
    <3>2. row[i].at \in Nat /\ row[j].at \in Nat /\ i \in Nat /\ j \in Nat
          /\ c.at \in Nat /\ c.id \in Nat
      BY <1>0, <1>7, TimesTyped, PlaceTyped DEF TypeOK, Cursors
    <3>3. i \in DueUpTo(c)
      BY <1>7, <3>1, <3>2 DEF Before, Earliest, DueUpTo
    <3>4. i \in Seen \cup page
      BY <1>0, <3>3 DEF DueReader
    <3> QED
      BY <1>3, <1>9, <2>2, <3>4
  <2> QED
    BY <2>1, <2>2
<1>15. NoRepeat'
  BY <1>0, <1>2, <1>3, <1>5, <1>6, <1>7, <1>8, <1>12 DEF NoRepeat, Seen
<1>16. count # list.limit => Steady \cap DueUpTo(c) \subseteq Seen \cup taken
  BY <1>0, <1>4, <1>9 DEF DueReader
<1>17. Complete'
  <2> SUFFICES ASSUME reader'.step = "done", count # list.limit, NEW i \in Steady
               PROVE  i \in Seen \cup taken
    BY <1>5, <1>6, <1>7, <1>11, <1>12 DEF Complete, Seen
  <2>1. i \in DueUpTo(c)
    BY <1>0, <1>11 DEF DueReader
  <2> QED
    BY <1>16, <2>1
<1>18. DueReader'
  <2>1. DueUpTo(reader.cursor)' = DueUpTo(c)
    BY <1>5, <1>11 DEF DueUpTo
  <2>2. DOMAIN NothingDue = {}
    BY DEF NothingDue
  <2>3. \A i \in Untouched \cap (Seen \cup taken) : i \in DueUpTo(c)
    BY <1>0, <1>2, <1>3, <1>8 DEF DueReader
  <2>4. Running' => count # list.limit
    BY <1>11 DEF Running
  <2> QED
    BY <1>0, <1>4, <1>5, <1>6, <1>11, <1>12, <1>16, <2>1, <2>2, <2>3, <2>4 DEF DueReader
<1> QED
  BY <1>5, <1>13, <1>14, <1>15, <1>17, <1>18 DEF IInv

----------------------------------------------------------------------------
(* Writes.                                                                  *)

\* A write changes no row that stays, and none of them enters the list by it; whatever
\* it writes moves up a list, to the present time, and never down.
LEMMA WriteStep ==
  ASSUME IInv, NEW new \in [Items -> Rows], Write(new),
         list.kind # "due" => \A i \in Items : row[i].at <= new[i].at /\ new[i].at <= now
  PROVE  IInv'
<1>0. /\ TypeOK /\ Complete /\ NoGap /\ NoRepeat /\ Running
      /\ \A i \in Items : row[i] \in Rows
  BY DEF IInv, TypeOK, Write
<1>1. /\ UNCHANGED <<now, list, reader, shown>> /\ row' = new
      /\ touched \subseteq touched' /\ touched' \subseteq Items
      /\ \A i \in Untouched' : i \in Untouched /\ row'[i] = row[i]
      /\ list.kind # "due" /\ reader.cursor \in Items /\ "moved" \notin doubt'
           => row'[reader.cursor] = row[reader.cursor]
      /\ "switched" \notin doubt' => "switched" \notin doubt /\ SearchTarget' = SearchTarget
      /\ "moved" \notin doubt' => "moved" \notin doubt
      /\ "ended" \notin doubt' => "ended" \notin doubt
  BY <1>0 DEF Write, Untouched, TypeOK
<1>2. \A i \in Items : row[i].at \in Nat /\ row'[i].at \in Nat /\ i \in Nat
  BY <1>0, <1>1, PagingAssumption DEF Rows, Times
<1>3. TypeOK'
  BY <1>0, <1>1 DEF TypeOK, Cursors
<1>4. (list.kind = "due" \/ "switched" \notin doubt') => Steady' \subseteq Steady
  <2>1. CASE list.kind = "due"
    BY <1>1, <2>1 DEF Steady, DueAfter, Untouched
  <2>2. CASE list.kind # "due" /\ "switched" \notin doubt'
    <3>1. ASSUME NEW i \in Untouched', i \in Where(SearchTarget)'
          PROVE  i \in Untouched /\ i \in Where(SearchTarget)
      BY <1>1, <2>2, <3>1 DEF Where
    <3> QED
      BY <1>1, <2>2, <3>1 DEF Steady
  <2> QED
    BY <2>1, <2>2
<1>5. Steady' \subseteq Untouched' /\ Untouched' \subseteq Untouched /\ Untouched \subseteq Items
      /\ Seen' = Seen
  BY <1>1 DEF Steady, Untouched, Seen
<1>6. \A i, j \in Untouched' : Before(i, j)' <=> Before(i, j)
  BY <1>1, <1>5 DEF Before, Earliest, DueAt, Latest, TypeOrder
<1>7. Complete' /\ NoRepeat'
  BY <1>0, <1>1, <1>5 DEF Complete, NoRepeat, Running
<1>8. NoGap'
  <2>1. CASE "switched" \in doubt'
    BY <2>1 DEF NoGap
  <2>2. CASE "switched" \notin doubt'
    BY <1>0, <1>1, <1>4, <1>5, <1>6, <2>2 DEF NoGap
  <2> QED
    BY <2>1, <2>2
<1>9. list.kind # "due" => \A i \in Items : row'[i].at <= now'
  BY <1>1
<1>10. CASE ItemList
  <2> DEFINE c == reader.cursor
  <2>1. ItemReader /\ c \in Items \cup {None} /\ list.kind # "due"
    BY <1>10 DEF IInv, ItemList, TypeOK, Cursors
  <2>2. ASSUME NEW i \in Untouched', NEW d \in Items, Before(i, d)'
        PROVE  Before(i, d) \/ i = d
    BY <1>0, <1>1, <1>2, <1>5, <2>1, <2>2 DEF Before, Latest, TypeOrder
  <2>3. ASSUME NEW i \in Untouched', c \in Items, "moved" \notin doubt'
        PROVE  Before(i, c)' <=> Before(i, c)
    BY <1>1, <1>5, <2>1, <2>3 DEF Before, Latest, TypeOrder
  <2>4. ASSUME "switched" \notin doubt', c # None
        PROVE  Steady' \cap UpTo(c)' \subseteq Seen
    BY <1>1, <1>4, <1>5, <1>0, <2>1, <2>2, <2>4 DEF ItemReader, UpTo
  <2>5. ASSUME "moved" \notin doubt', NEW i \in Untouched' \cap Seen
        PROVE  c # None /\ i \in UpTo(c)'
    BY <1>0, <1>1, <1>5, <2>1, <2>3, <2>5 DEF ItemReader, UpTo
  <2>6. ItemReader'
    BY <1>1, <1>5, <2>1, <2>4, <2>5 DEF ItemReader, Running
  <2> QED
    BY <1>1, <1>3, <1>7, <1>8, <1>9, <1>10, <2>6 DEF IInv, ItemList
<1>11. CASE list.kind = "viewed"
  <2>1. ViewedReader /\ ~list.search /\ SearchTarget' = SearchTarget
    BY <1>1, <1>11, PagingAssumption DEF IInv, TypeOK, SearchTarget
  <2>2. Steady' \subseteq Steady
    BY <1>1, <1>11, <2>1 DEF Steady, Where, Untouched
  <2>3. ViewedReader'
    BY <1>1, <1>5, <1>6, <2>1, <2>2 DEF ViewedReader, Running
  <2> QED
    BY <1>1, <1>3, <1>7, <1>8, <1>9, <1>11, <2>3 DEF IInv
<1>12. CASE list.kind = "due"
  <2> DEFINE c == reader.cursor
  <2>1. DueReader /\ PageSize' = PageSize
    BY <1>1, <1>12 DEF IInv, PageSize
  <2>2. \A i \in Untouched' : i \in DueUpTo(c)' <=> i \in DueUpTo(c)
    BY <1>1, <1>5 DEF DueUpTo
  <2>3. DueReader'
    BY <1>0, <1>1, <1>4, <1>5, <1>12, <2>1, <2>2 DEF DueReader, Running
  <2> QED
    BY <1>1, <1>3, <1>7, <1>8, <1>9, <1>12, <2>3 DEF IInv
<1> QED
  BY <1>10, <1>11, <1>12 DEF ItemList

\* What a write may leave: rows, and in a list other than the batch no row sorted by a
\* time before its last one or after the present.
Rising(new) ==
  /\ new \in [Items -> Rows]
  /\ list.kind # "due" => \A i \in Items : row[i].at <= new[i].at /\ new[i].at <= now

\* Putting rows into a list or taking them out.
LEMMA PutRises ==
  ASSUME IInv, NEW is \in SUBSET Items, NEW in \in BOOLEAN, NEW t \in {None, now}
  PROVE  Rising(Put(is, in, t))
<1>1. /\ \A i \in Items : row[i] \in Rows /\ row[i].at \in Nat
      /\ now \in Times /\ now \in Nat
      /\ list.kind # "due" => \A i \in Items : row[i].at <= now
  <2>1. \A i \in Items : row[i] \in Rows /\ row[i].at \in Nat
    BY TimesTyped DEF IInv, TypeOK
  <2> QED
    BY <2>1, PagingAssumption DEF IInv, TypeOK, Times
<1>2. ASSUME NEW i \in Items
      PROVE  /\ Put(is, in, t)[i] \in Rows
             /\ Put(is, in, t)[i].at \in {row[i].at, now}
  <2>1. Put(is, in, t)[i] = IF i \notin is THEN row[i]
                            ELSE [row[i] EXCEPT !.in = in, !.at = IF t = None THEN @ ELSE t]
    BY DEF Put
  <2> QED
    BY <1>1, <2>1 DEF Rows
<1>3. Put(is, in, t) \in [Items -> Rows]
  BY <1>2 DEF Put
<1> QED
  BY <1>1, <1>2, <1>3 DEF Rising

\* Writing one field of some rows.
LEMMA FieldRises ==
  ASSUME IInv, NEW is \in SUBSET Items, NEW tag \in BOOLEAN
  PROVE  Rising(Tagged(is, tag))
<1>1. /\ \A i \in Items : row[i] \in Rows /\ row[i].at \in Nat
      /\ list.kind # "due" => \A i \in Items : row[i].at <= now
  BY TimesTyped DEF IInv, TypeOK
<1>2. ASSUME NEW i \in Items
      PROVE  Tagged(is, tag)[i] \in Rows /\ Tagged(is, tag)[i].at = row[i].at
  <2>1. Tagged(is, tag)[i] = IF i \in is THEN [row[i] EXCEPT !.tag = tag] ELSE row[i]
    BY DEF Tagged
  <2> QED
    BY <1>1, <2>1 DEF Rows
<1>3. Tagged(is, tag) \in [Items -> Rows]
  BY <1>2 DEF Tagged
<1> QED
  BY <1>1, <1>2, <1>3 DEF Rising

\* Writing a single row.
LEMMA RowRises ==
  ASSUME IInv, NEW i \in Items, NEW r \in Rows,
         list.kind # "due" => r.at \in {row[i].at, now},
         NEW base, Rising(base), row[i].at \in Nat
  PROVE  Rising([base EXCEPT ![i] = r])
<1>1. now \in Nat /\ (list.kind # "due" => \A j \in Items : row[j].at <= now)
  BY DEF IInv, TypeOK
<1>2. [base EXCEPT ![i] = r] \in [Items -> Rows]
  BY DEF Rising
<1>3. \A j \in Items : [base EXCEPT ![i] = r][j] = IF j = i THEN r ELSE base[j]
  BY DEF Rising
<1> QED
  BY <1>1, <1>2, <1>3 DEF Rising

\* Every request that writes rows leaves them as a write may.
LEMMA WritersRise ==
  ASSUME IInv, NEW i \in Items, NEW f \in Items, NEW is \in SUBSET Items, NEW b \in BOOLEAN,
         \/ Like(i) \/ Unlike(i) \/ RecordView(i) \/ Order(i) \/ Renew(i)
         \/ UpdateClip(i, b) \/ ReplaceTags(i, b) \/ UpdateTag(is, b)
         \/ SoftDelete(is) \/ Restore(is) \/ Hide(is) \/ Reveal(is) \/ DeleteTag(is)
         \/ DeleteFolder(f, is) \/ RestoreFolder(f, is)
  PROVE  \E new : Rising(new) /\ Write(new)
<1>0. /\ \A j \in Items : row[j] \in Rows /\ row[j].at \in Nat /\ row[j].at \in Times
      /\ now \in Times /\ now \in Nat /\ row \in [Items -> Rows]
      /\ {i} \in SUBSET Items
  BY TimesTyped, PagingAssumption DEF IInv, TypeOK, Times, Rows
<1>1. Rising(row)
  BY <1>0 DEF Rising, IInv
<1>2. CASE Like(i) \/ Unlike(i) \/ Hide(is) \/ Reveal(is)
  BY <1>0, <1>2, PutRises DEF Like, Unlike, Hide, Reveal
<1>3. CASE RecordView(i)
  BY <1>0, <1>3, PutRises DEF RecordView
<1>4. CASE SoftDelete(is) \/ Restore(is)
  <2>1. PICK in \in BOOLEAN, t \in {None, now} : Write(Put(is, in, t))
    BY <1>4 DEF SoftDelete, Restore
  <2> QED
    BY <2>1, PutRises
<1>5. CASE ReplaceTags(i, b) \/ UpdateTag(is, b) \/ DeleteTag(is)
  BY <1>0, <1>5, FieldRises DEF ReplaceTags, UpdateTag, DeleteTag
<1>6. CASE Order(i)
  <2> DEFINE r == [row[i] EXCEPT !.orders = @ \cup {row[i].at}]
  <2>1. r \in Rows /\ r.at = row[i].at
    BY <1>0 DEF Rows
  <2>2. Write([row EXCEPT ![i] = r])
    BY <1>6, <1>0 DEF Order
  <2> HIDE DEF r
  <2> QED
    BY <1>0, <1>1, <2>1, <2>2, RowRises
<1>7. CASE Renew(i)
  <2> DEFINE r == [row[i] EXCEPT !.at = @ + 1, !.in = TRUE]
  <2>1. row[i].at < 2 /\ MaxNow \in Nat /\ now \in 1 .. MaxNow /\ list.kind = "due"
    BY <1>7, PagingAssumption DEF Renew, IInv, TypeOK
  <2>2. row[i].at + 1 \in Times
    BY <1>0, <2>1 DEF Times
  <2>3. r \in Rows
    BY <1>0, <2>2 DEF Rows
  <2>4. Write([row EXCEPT ![i] = r])
    BY <1>7, <1>0 DEF Renew
  <2> HIDE DEF r
  <2> QED
    BY <1>0, <1>1, <2>1, <2>3, <2>4, RowRises
<1>8. CASE UpdateClip(i, b)
  <2> DEFINE r == [row[i] EXCEPT !.title = b, !.at = IF Views THEN @ ELSE now]
  <2>1. r \in Rows /\ r.at \in {row[i].at, now}
    BY <1>0 DEF Rows
  <2>2. Write([row EXCEPT ![i] = r])
    BY <1>8, <1>0 DEF UpdateClip
  <2> HIDE DEF r
  <2> QED
    BY <1>0, <1>1, <2>1, <2>2, RowRises
<1>9. CASE DeleteFolder(f, is)
  <2> DEFINE base == Put(is, FALSE, None)
             r == [base[f] EXCEPT !.in = TRUE, !.at = now]
  <2>1. Rising(base)
    BY PutRises
  <2>2. base \in [Items -> Rows] /\ base[f] \in Rows
    BY <2>1 DEF Rising
  <2>3. Write([[base EXCEPT ![f].in = TRUE] EXCEPT ![f].at = now])
    BY <1>9 DEF DeleteFolder
  <2> HIDE DEF base
  <2>4. [[base EXCEPT ![f].in = TRUE] EXCEPT ![f].at = now] = [base EXCEPT ![f] = r]
    BY <2>2
  <2>5. r \in Rows /\ r.at = now
    BY <1>0, <2>2 DEF Rows
  <2> HIDE DEF r
  <2> QED
    BY <1>0, <2>1, <2>3, <2>4, <2>5, RowRises
<1>10. CASE RestoreFolder(f, is)
  <2> DEFINE base == Put(is, TRUE, None)
             r == [base[f] EXCEPT !.in = FALSE]
  <2>1. Rising(base) /\ base[f].at = row[f].at
    <3>1. base[f] = IF f \notin is THEN row[f] ELSE [row[f] EXCEPT !.in = TRUE, !.at = @]
      BY DEF Put
    <3>2. base[f].at = row[f].at
      BY <1>0, <3>1 DEF Rows
    <3> QED
      BY <3>2, PutRises
  <2>2. base \in [Items -> Rows] /\ base[f] \in Rows
    BY <2>1 DEF Rising
  <2>3. Write([base EXCEPT ![f].in = FALSE])
    BY <1>10 DEF RestoreFolder
  <2>4. [base EXCEPT ![f].in = FALSE] = [base EXCEPT ![f] = r]
    BY <2>2
  <2> HIDE DEF base
  <2>5. r \in Rows /\ r.at = row[f].at
    BY <2>1, <2>2 DEF Rows
  <2> HIDE DEF r
  <2> QED
    BY <1>0, <2>1, <2>3, <2>4, <2>5, RowRises
<1> QED
  BY <1>2, <1>3, <1>4, <1>5, <1>6, <1>7, <1>8, <1>9, <1>10

----------------------------------------------------------------------------
(* The theorems.                                                            *)

LEMMA TickStep ==
  ASSUME IInv, Tick
  PROVE  IInv'
<1>1. /\ UNCHANGED <<row, list, reader, shown, touched, doubt>>
      /\ now' \in 1 .. MaxNow /\ now \in Nat /\ now' = now + 1
      /\ \A i \in Items : row[i].at \in Nat
  BY TimesTyped, PagingAssumption DEF Tick, IInv, TypeOK
<1>2. /\ Untouched' = Untouched /\ Steady' = Steady /\ Seen' = Seen /\ PageSize' = PageSize
      /\ \A i, j \in Items : Before(i, j)' <=> Before(i, j)
  BY <1>1, ReadKeeps DEF Seen, PageSize, Before, Earliest, DueAt, Latest, TypeOrder
<1>3. (TypeOK /\ Complete /\ NoGap /\ NoRepeat)'
  BY <1>1, <1>2 DEF IInv, TypeOK, Cursors, Complete, NoGap, NoRepeat, Steady, Untouched, Where
<1>4. list.kind # "due" => \A i \in Items : row'[i].at <= now'
  BY <1>1 DEF IInv
<1>5. DueReader => DueReader'
  BY <1>1, <1>2 DEF DueReader, Running, DueUpTo
<1>6. ViewedReader => ViewedReader'
  <2>1. Steady \subseteq Items
    BY DEF Steady, Untouched
  <2> QED
    BY <1>1, <1>2, <2>1 DEF ViewedReader, Running
<1>7. ItemList /\ ItemReader => ItemReader'
  <2>1. ItemList => reader.cursor \in Items \cup {None}
    BY DEF IInv, TypeOK, Cursors, ItemList
  <2> QED
    BY <1>1, <1>2, <2>1 DEF ItemReader, Running, UpTo
<1> QED
  BY <1>1, <1>3, <1>4, <1>5, <1>6, <1>7 DEF IInv, ItemList

\* A list that nobody has begun to read.
LEMMA InitInv == Init => IInv
<1> SUFFICES ASSUME Init PROVE IInv
  OBVIOUS
<1>1. /\ now = 1 /\ list \in Lists /\ reader = Start /\ touched = {} /\ doubt = {}
      /\ shown = [i \in Items |-> 0] /\ Seen = {}
      /\ row \in [Items -> Rows] /\ \A i \in Items : row[i].at <= 1
  BY DEF Init, Seen
<1>2. /\ reader.step = "resolve" /\ reader.cursor = None /\ reader.count = 0
      /\ reader.due = NothingDue /\ DOMAIN reader.due = {}
  BY <1>1 DEF Start, NothingDue
<1>3. MaxNow \in Nat \ {0} /\ (list.limit \in Nat \ {0})
  BY <1>1, PagingAssumption
<1>4. TypeOK
  <2>1. NothingDue \in [{} -> Times]
    BY DEF NothingDue
  <2>2. NothingDue \in UNION {[t -> Times] : t \in SUBSET Items}
    BY <2>1
  <2>3. Start \in [step : {"resolve", "validate", "isLiked", "match", "find", "ids",
                         "orders", "done", "failed"},
                 cursor : Cursors, target : {"title", "tag"},
                 page : SUBSET Items, due : UNION {[t -> Times] : t \in SUBSET Items},
                 count : Nat]
    BY <2>2 DEF Start, Cursors
  <2> QED
    BY <1>1, <1>3, <2>3 DEF TypeOK
<1> QED
  BY <1>1, <1>2, <1>3, <1>4 DEF IInv, Complete, NoGap, NoRepeat, DueReader, ViewedReader,
     ItemReader, Steady, Untouched

\* Every step keeps what a reader knows.
LEMMA StepInv == IInv /\ [Next]_vars => IInv'
<1> SUFFICES ASSUME IInv, [Next]_vars PROVE IInv'
  OBVIOUS
<1>0. Deleted \subseteq Items /\ list \in Lists
  BY PagingAssumption DEF IInv, TypeOK
<1>1. CASE UNCHANGED vars
  <2>1. /\ Untouched' = Untouched /\ Steady' = Steady /\ Seen' = Seen /\ PageSize' = PageSize
        /\ \A i, j \in Items : Before(i, j)' <=> Before(i, j)
    BY <1>1, ReadKeeps DEF vars, Seen, PageSize, Before, Earliest, DueAt, Latest, TypeOrder
  <2>2. Steady \subseteq Items
    BY DEF Steady, Untouched
  <2>3. (TypeOK /\ Complete /\ NoGap /\ NoRepeat)'
    BY <1>1, <2>1, <2>2 DEF vars, IInv, TypeOK, Cursors, Complete, NoGap, NoRepeat
  <2>4. list.kind # "due" => \A i \in Items : row'[i].at <= now'
    BY <1>1 DEF IInv, vars
  <2>5. DueReader => DueReader'
    BY <1>1, <2>1 DEF DueReader, Running, DueUpTo, vars
  <2>6. ViewedReader => ViewedReader'
    BY <1>1, <2>1, <2>2 DEF ViewedReader, Running, vars
  <2>7. ItemList /\ ItemReader => ItemReader'
    <3>1. ItemList => reader.cursor \in Items \cup {None}
      BY DEF IInv, TypeOK, Cursors, ItemList
    <3> QED
      BY <1>1, <2>1, <3>1 DEF ItemReader, Running, UpTo, vars
  <2> QED
    BY <1>1, <2>3, <2>4, <2>5, <2>6, <2>7 DEF IInv, ItemList, vars
<1>2. CASE ListFolderClips \/ ListFavoriteClips \/ ListRecentClips
  BY <1>2, LookStep, FindPageStep DEF ListFolderClips, ListFavoriteClips, ListRecentClips,
     ItemList, FindClips, FindRecentClips, MatchRecentCursor
<1>3. CASE ListRecentViewedClips
  BY <1>3, FindViewedIdsStep, FindClipsByIdsStep DEF ListRecentViewedClips
<1>4. CASE ListTrashItems
  BY <1>4, FindDeletedItemsStep DEF ListTrashItems
<1>5. CASE FindDueRenewals
  BY <1>5, FindDueStep, TakeDueStep DEF FindDueRenewals
<1>6. ASSUME NEW i \in Items, NEW f \in Items, NEW is \in SUBSET Items, NEW b \in BOOLEAN,
             \/ Like(i) \/ Unlike(i) \/ RecordView(i) \/ Order(i) \/ Renew(i)
             \/ UpdateClip(i, b) \/ ReplaceTags(i, b) \/ UpdateTag(is, b)
             \/ SoftDelete(is) \/ Restore(is) \/ Hide(is) \/ Reveal(is) \/ DeleteTag(is)
             \/ DeleteFolder(f, is) \/ RestoreFolder(f, is)
      PROVE  IInv'
  <2>1. PICK new : Rising(new) /\ Write(new)
    BY <1>6, WritersRise
  <2> QED
    BY <2>1, WriteStep DEF Rising
<1>7. CASE \E i \in Items :
             \/ Like(i) \/ Unlike(i) \/ RecordView(i) \/ Order(i) \/ Renew(i)
             \/ \E b \in BOOLEAN : UpdateClip(i, b) \/ ReplaceTags(i, b)
  <2>1. PICK i \in Items, b \in BOOLEAN :
             \/ Like(i) \/ Unlike(i) \/ RecordView(i) \/ Order(i) \/ Renew(i)
             \/ UpdateClip(i, b) \/ ReplaceTags(i, b)
    BY <1>7
  <2>2. {} \in SUBSET Items
    OBVIOUS
  <2> QED
    BY <1>6, <2>1, <2>2
<1>8. CASE \E is \in SUBSET Items :
             \/ SoftDelete(is) \/ Restore(is) \/ Hide(is) \/ Reveal(is) \/ DeleteTag(is)
             \/ \E f \in Deleted : DeleteFolder(f, is \ Deleted) \/ RestoreFolder(f, is \ Deleted)
             \/ \E b \in BOOLEAN : UpdateTag(is, b)
  <2>1. PICK is \in SUBSET Items :
             \/ SoftDelete(is) \/ Restore(is) \/ Hide(is) \/ Reveal(is) \/ DeleteTag(is)
             \/ \E f \in Deleted : DeleteFolder(f, is \ Deleted) \/ RestoreFolder(f, is \ Deleted)
             \/ \E b \in BOOLEAN : UpdateTag(is, b)
    BY <1>8
  <2>2. CASE Items = {}
    <3>1. \A new : ~Write(new)
      BY <2>2 DEF Write
    <3> QED
      BY <1>0, <2>1, <2>2, <3>1 DEF SoftDelete, Restore, Hide, Reveal, DeleteTag, UpdateTag
  <2>3. CASE Items # {}
    <3>1. PICK i \in Items : TRUE
      BY <2>3
    <3>2. CASE SoftDelete(is) \/ Restore(is) \/ Hide(is) \/ Reveal(is) \/ DeleteTag(is)
      BY <1>6, <3>1, <3>2
    <3>3. CASE \E f \in Deleted : DeleteFolder(f, is \ Deleted) \/ RestoreFolder(f, is \ Deleted)
      <4>1. is \ Deleted \in SUBSET Items
        OBVIOUS
      <4> QED
        BY <1>0, <1>6, <3>1, <3>3, <4>1
    <3>4. CASE \E b \in BOOLEAN : UpdateTag(is, b)
      BY <1>6, <3>1, <3>4
    <3> QED
      BY <2>1, <3>2, <3>3, <3>4
  <2> QED
    BY <2>2, <2>3
<1> QED
  BY <1>1, <1>2, <1>3, <1>4, <1>5, <1>7, <1>8, TickStep DEF Next, Reading

\* The inductive invariant holds in every reachable state: up to the cursor everything
\* that stayed was shown, and nothing behind it.
THEOREM Invariance == Spec => []IInv
BY InitInv, StepInv, PTL DEF Spec

\* Every variable keeps its type: the cursor of a reader fits its list, the rows are rows
\* whatever requests write.
THEOREM TypeCorrect == Spec => []TypeOK
<1>1. IInv => TypeOK
  BY DEF IInv
<1> QED
  BY <1>1, Invariance, PTL

\* A reading that comes to its end has shown every row that stayed, whatever requests did
\* to the others between its statements: ListFolderClips, ListFavoriteClips,
\* ListRecentClips, ListRecentViewedClips, the trash and the batch's scan.
THEOREM CompleteAlways == Spec => []Complete
<1>1. IInv => Complete
  BY DEF IInv
<1> QED
  BY <1>1, Invariance, PTL

\* What stayed is shown in the order of the list, without a gap at the end of a page, nor
\* where the two tables of the trash are merged.
THEOREM NoGapAlways == Spec => []NoGap
<1>1. IInv => NoGap
  BY DEF IInv
<1> QED
  BY <1>1, Invariance, PTL

\* What stayed is shown once while no page ends with a row that is then written; in the
\* batch, whose cursor is a place, in any case.
THEOREM NoRepeatAlways == Spec => []NoRepeat
<1>1. IInv => NoRepeat
  BY DEF IInv
<1> QED
  BY <1>1, Invariance, PTL

=============================================================================
