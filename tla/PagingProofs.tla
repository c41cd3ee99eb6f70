---------------------------- MODULE PagingProofs ----------------------------
(***************************************************************************)
(* Proofs about Paging, for every set of rows, filters, windows, page      *)
(* sizes and bucket widths.                                                *)
(***************************************************************************)
EXTENDS Paging, FiniteSetTheorems, TLAPS

Value == Int \cup {NULL}
Cursor == [sort : Sort, desc : BOOLEAN, id : Int, value : Value]

(* The key (v, i) of a row comes before the key (w, j).                    *)
Before(desc, v, i, w, j) ==
    IF desc THEN Below(w, v) \/ (v = w /\ j < i)
            ELSE Below(v, w) \/ (v = w /\ i < j)

Types ==
    /\ now \in Int
    /\ DOMAIN table \subseteq Id
    /\ table \in [DOMAIN table -> Row]
    /\ stable \subseteq DOMAIN table

(* The cursor cuts the rows that are there at all pages in two: what was   *)
(* returned, and what is behind the cursor.                                *)
ListOK ==
    reader.kind = "list" =>
        /\ reader.sort \in Sort /\ reader.desc \in BOOLEAN
        /\ stable \cap twice = {}
        /\ \/ reader.next = NoCursor /\ stable \subseteq got
           \/ /\ reader.next \in Cursor
              /\ reader.next.sort = reader.sort /\ reader.next.desc = reader.desc
              /\ \A i \in stable : i \in got <=> ~Keyset(reader.next, i)

(* A walk begins with nothing returned.                                    *)
IdleOK == reader.kind # "list" => got = {} /\ twice = {}

(* What the histogram is asked for.                                        *)
HistogramReader ==
    /\ reader.window \in [from : Int, to : Int]
    /\ reader.width \in Nat \ {0}
    /\ DOMAIN reader = {"kind", "filter", "window", "width", "todo", "count"}
    /\ reader.count \in [Sequence(reader.window, reader.width) ->
                           [allow : Nat, deny : Nat]]
    /\ Rows \subseteq ever /\ IsFiniteSet(ever)
    /\ \A i \in stable : /\ InWindow(reader.window, table[i])
                         /\ Condition(reader.filter, table[i])

HistogramOK == reader.kind = "histogram" => HistogramReader

IInv == Types /\ IdleOK /\ ListOK /\ HistogramOK /\ HistogramIsExact
-----------------------------------------------------------------------------
(* A finite set with a total order has a last element.                     *)
LEMMA LastExists ==
    ASSUME NEW S, IsFiniteSet(S), S # {}, NEW R,
           \A x, y, z \in S : <<x, y>> \in R /\ <<y, z>> \in R => <<x, z>> \in R,
           \A x, y \in S : x # y => <<x, y>> \in R \/ <<y, x>> \in R
    PROVE  \E x \in S : \A y \in S \ {x} : <<y, x>> \in R
  <1> DEFINE HasLast(T) == \E x \in T : \A y \in T \ {x} : <<y, x>> \in R
             F == {T \in SUBSET S : T # {} /\ ~HasLast(T)}
             O == StrictSubsetOrdering(S)
  <1> SUFFICES ASSUME ~HasLast(S) PROVE FALSE
    OBVIOUS
  <1>1. F \subseteq FiniteSubsetsOf(S) /\ S \in F
    BY FS_Subset DEF FiniteSubsetsOf
  <1>2. PICK X \in F : \A Y \in F : <<Y, X>> \notin O
    <2>1. F # {} /\ F \subseteq FiniteSubsetsOf(S)
      BY <1>1
    <2> HIDE DEF F
    <2> QED
      BY <2>1, FS_StrictSubsetOrderingWellFounded, WFMin
  <1>3. X \in SUBSET S /\ X # {} /\ ~HasLast(X)
    OBVIOUS
  <1>4. PICK x \in X : TRUE
    BY <1>3
  <1> DEFINE Y == X \ {x}
  <1>5. Y \in SUBSET S /\ <<Y, X>> \in O
    BY <1>3, <1>4 DEF StrictSubsetOrdering
  <1>6. Y # {}
    BY <1>3, <1>4
  <1>7. HasLast(Y)
    BY <1>2, <1>5, <1>6
  <1>8. PICK y \in Y : \A z \in Y \ {y} : <<z, y>> \in R
    BY <1>7
  <1>9. CASE <<x, y>> \in R
    BY <1>3, <1>8, <1>9
  <1>10. CASE <<y, x>> \in R
    <2>1. \A z \in X \ {x} : <<z, x>> \in R
      BY <1>3, <1>4, <1>8, <1>10
    <2> QED
      BY <1>3, <1>4, <2>1
  <1> QED
    BY <1>3, <1>4, <1>8, <1>9, <1>10

-----------------------------------------------------------------------------
(* The order of the list: NULL below every value, ties broken by id.       *)
LEMMA BeforeOrder ==
    ASSUME NEW desc \in BOOLEAN, NEW u \in Value, NEW v \in Value, NEW w \in Value,
           NEW i \in Int, NEW j \in Int, NEW k \in Int
    PROVE  /\ ~Before(desc, u, i, u, i)
           /\ Before(desc, u, i, v, j) /\ Before(desc, v, j, w, k)
                => Before(desc, u, i, w, k)
           /\ Before(desc, u, i, v, j) => ~Before(desc, v, j, u, i)
           /\ \/ Before(desc, u, i, v, j) \/ Before(desc, v, j, u, i)
              \/ u = v /\ i = j
  BY PagingAssumption DEF Before, Below, Value

LEMMA SortValues ==
    ASSUME Types, NEW i \in DOMAIN table, NEW sort \in Sort
    PROVE  i \in Int /\ accessLogSortValue(table[i], sort) \in Value
  <1>1. table[i] \in Row /\ i \in Id
    BY DEF Types
  <1>2. table[i].at \in Time /\ table[i].reason \in Reason \cup {NULL}
    BY <1>1 DEF Row
  <1>3. Reason \subseteq Int /\ MaxTime \in Nat /\ MaxId \in Nat
    BY PagingAssumption
  <1>0. i \in Int
    BY <1>1, <1>3 DEF Id
  <1>4. CASE sort = "created_at"
    BY <1>0, <1>2, <1>3, <1>4 DEF accessLogSortValue, Value, Time
  <1>5. CASE sort # "created_at"
    BY <1>0, <1>2, <1>3, <1>5 DEF accessLogSortValue, Value
  <1> QED
    BY <1>4, <1>5

(* The keyset predicate selects exactly the rows behind the cursor, for    *)
(* every combination of NULLs (filterx/cursor.go).                         *)
LEMMA KeysetIsBehind ==
    ASSUME Types, NEW c \in Cursor, NEW i \in DOMAIN table
    PROVE  Keyset(c, i) <=>
             Before(c.desc, c.value, c.id, accessLogSortValue(table[i], c.sort), i)
  <1> DEFINE v == accessLogSortValue(table[i], c.sort)
  <1>1. c.sort \in Sort /\ c.desc \in BOOLEAN /\ c.id \in Int /\ c.value \in Value
    BY DEF Cursor
  <1>2. i \in Int /\ v \in Value
    BY <1>1, SortValues
  <1> HIDE DEF v
  <1>3. Keyset(c, i) <=>
          \/ c.value = NULL /\ c.desc /\ v = NULL /\ i < c.id
          \/ c.value = NULL /\ ~c.desc /\ (v # NULL \/ i > c.id)
          \/ c.value # NULL /\ c.desc
             /\ (v = NULL \/ v < c.value \/ (v = c.value /\ i < c.id))
          \/ c.value # NULL /\ ~c.desc
             /\ v # NULL /\ (v > c.value \/ (v = c.value /\ i > c.id))
    BY DEF Keyset, v
  <1> DEFINE x == c.value
             k == c.id
             behind == Before(c.desc, x, k, v, i)
  <1>n. NULL \notin Int
    BY PagingAssumption
  <1>4. CASE c.desc
    <2>1. Keyset(c, i) <=> IF x = NULL THEN v = NULL /\ i < k
                           ELSE v = NULL \/ v < x \/ (v = x /\ i < k)
      BY <1>3, <1>4
    <2>2. behind <=> Below(v, x) \/ (x = v /\ i < k)
      BY <1>4 DEF Before
    <2>3. x \in Value /\ k \in Int
      BY <1>1
    <2> HIDE DEF x, k, behind
    <2>4. Keyset(c, i) <=> behind
      BY <1>2, <1>n, <2>1, <2>2, <2>3 DEF Below, Value
    <2> QED
      BY <2>4 DEF behind, x, k, v
  <1>5. CASE ~c.desc
    <2>1. Keyset(c, i) <=> IF x = NULL THEN v # NULL \/ i > k
                           ELSE v # NULL /\ (v > x \/ (v = x /\ i > k))
      BY <1>3, <1>5
    <2>2. behind <=> Below(x, v) \/ (x = v /\ k < i)
      BY <1>5 DEF Before
    <2>3. x \in Value /\ k \in Int
      BY <1>1
    <2> HIDE DEF x, k, behind
    <2>4. Keyset(c, i) <=> behind
      BY <1>2, <1>n, <2>1, <2>2, <2>3 DEF Below, Value
    <2> QED
      BY <2>4 DEF behind, x, k, v
  <1> QED
    BY <1>4, <1>5 DEF v

(* The cursor of a full page: the rows of the page are not behind it, the  *)
(* rows that did not fit are.                                              *)
LEMMA PageCursor ==
    ASSUME Types, NEW selected \in SUBSET DOMAIN table, NEW page,
           NEW sort \in Sort, NEW desc \in BOOLEAN, NEW limit \in Nat \ {0},
           IsPage(page, selected, sort, desc, limit), Cardinality(page) = limit
    PROVE  LET c == NextCursor(page, sort, desc, limit) IN
           /\ c \in Cursor /\ c.sort = sort /\ c.desc = desc /\ c # NoCursor
           /\ c.id \in page /\ c.value = accessLogSortValue(table[c.id], sort)
           /\ \A i \in page : ~Keyset(c, i)
           /\ \A i \in selected \ page : Keyset(c, i)
  <1> DEFINE c == NextCursor(page, sort, desc, limit)
             v(i) == accessLogSortValue(table[i], sort)
             last == CHOOSE i \in page : \A j \in page \ {i} : OrderBy(sort, desc, j, i)
  <1>1. page \subseteq selected /\ page \subseteq DOMAIN table
    BY DEF IsPage
  <1>2. \A i \in DOMAIN table : i \in Int /\ v(i) \in Value
    BY SortValues
  <1>3. \A i, j : OrderBy(sort, desc, i, j) <=> Before(desc, v(i), i, v(j), j)
    BY DEF OrderBy, Before
  <1> HIDE DEF v
  <1>4. IsFiniteSet(page) /\ page # {}
    <2>1. IsFiniteSet(Id)
      BY PagingAssumption, FS_Interval DEF Id
    <2>2. page \in SUBSET Id
      BY <1>1 DEF Types
    <2> QED
      BY <2>1, <2>2, FS_Subset, FS_EmptySet
  <1>5. last \in page /\ \A j \in page \ {last} : OrderBy(sort, desc, j, last)
    <2> DEFINE R == {x \in page \X page : OrderBy(sort, desc, x[1], x[2])}
    <2>1. \A x, y \in page : <<x, y>> \in R <=> Before(desc, v(x), x, v(y), y)
      BY <1>3
    <2> HIDE DEF R
    <2>2. \A x, y, z \in page : <<x, y>> \in R /\ <<y, z>> \in R => <<x, z>> \in R
      BY <1>1, <1>2, <2>1, BeforeOrder
    <2>3. \A x, y \in page : x # y => <<x, y>> \in R \/ <<y, x>> \in R
      BY <1>1, <1>2, <2>1, BeforeOrder
    <2>4. \E x \in page : \A y \in page \ {x} : <<y, x>> \in R
      BY <1>4, <2>2, <2>3, LastExists
    <2>5. \E x \in page : \A y \in page \ {x} : OrderBy(sort, desc, y, x)
      BY <1>3, <2>1, <2>4
    <2> QED
      BY <2>5
  <1>6. c = [sort |-> sort, desc |-> desc, id |-> last, value |-> v(last)]
    BY DEF NextCursor, EncodeCursor, v
  <1> HIDE DEF last
  <1>7. /\ c \in Cursor /\ c.sort = sort /\ c.desc = desc
        /\ c.id = last /\ c.value = v(last)
    BY <1>1, <1>2, <1>5, <1>6 DEF Cursor
  <1>8. c # NoCursor
    <2>1. DOMAIN NoCursor = {"end"}
      BY DEF NoCursor
    <2>2. "sort" \in DOMAIN c
      BY <1>6
    <2> QED
      BY <2>1, <2>2
  <1> HIDE DEF c
  <1>9. \A i \in DOMAIN table :
          Keyset(c, i) <=> Before(desc, v(last), last, v(i), i)
    BY <1>7, KeysetIsBehind DEF v
  <1>10. ASSUME NEW i \in page PROVE ~Keyset(c, i)
    <2>1. i = last \/ Before(desc, v(i), i, v(last), last)
      BY <1>3, <1>5
    <2>2. i \in DOMAIN table /\ last \in DOMAIN table
      BY <1>1, <1>5
    <2> QED
      BY <1>2, <1>9, <2>1, <2>2, BeforeOrder
  <1>11. ASSUME NEW i \in selected \ page PROVE Keyset(c, i)
    <2>1. OrderBy(sort, desc, last, i)
      BY <1>5 DEF IsPage
    <2> QED
      BY <1>3, <1>9, <2>1
  <1> QED
    BY <1>5, <1>7, <1>8, <1>10, <1>11 DEF c, v

(* A request keeps the cut: behind is what was behind the cursor of the    *)
(* request before, all there is for the first one.                         *)
LEMMA PageKeeps ==
    ASSUME Types, NEW selected \in SUBSET DOMAIN table, NEW sort \in Sort,
           NEW desc \in BOOLEAN, NEW f, NEW w, NEW limit \in Nat \ {0},
           GetAccessLog(selected, sort, desc, f, w, limit),
           stable' \subseteq DOMAIN table, stable' \cap twice = {},
           \A i \in stable' : i \in got <=> i \notin selected,
           (* what was returned is before what is selected *)
           \A i \in stable' \cap got, j \in selected :
             Before(desc, accessLogSortValue(table[i], sort), i,
                          accessLogSortValue(table[j], sort), j)
    PROVE  ListOK'
  <1> DEFINE v(i) == accessLogSortValue(table[i], sort)
  <1>1. PICK page \in SUBSET selected :
          /\ IsPage(page, selected, sort, desc, limit)
          /\ reader' = [kind |-> "list", filter |-> f, window |-> w,
                        sort |-> sort, desc |-> desc,
                        next |-> NextCursor(page, sort, desc, limit)]
          /\ got' = got \cup page
          /\ twice' = twice \cup (got \cap page)
          /\ UNCHANGED <<now, table>>
    BY DEF GetAccessLog
  <1>2. /\ reader'.sort = sort /\ reader'.desc = desc
        /\ reader'.next = NextCursor(page, sort, desc, limit)
        /\ table' = table
    BY <1>1
  <1>3. stable' \cap twice' = {}
    BY <1>1
  <1>4. CASE Cardinality(page) = limit
    <2>p. IsPage(page, selected, sort, desc, limit)
      BY <1>1
    <2>n. LET c == NextCursor(page, sort, desc, limit) IN
          /\ c \in Cursor /\ c.sort = sort /\ c.desc = desc /\ c # NoCursor
          /\ c.id \in page /\ c.value = accessLogSortValue(table[c.id], sort)
          /\ \A i \in page : ~Keyset(c, i)
          /\ \A i \in selected \ page : Keyset(c, i)
      BY <1>4, <2>p, PageCursor
    <2>0. PICK c : c = NextCursor(page, sort, desc, limit)
      OBVIOUS
    <2>1. /\ c \in Cursor /\ c.sort = sort /\ c.desc = desc /\ c # NoCursor
          /\ c.id \in page /\ c.value = v(c.id)
          /\ \A i \in page : ~Keyset(c, i)
          /\ \A i \in selected \ page : Keyset(c, i)
      BY <2>0, <2>n
    <2>2. ASSUME NEW i \in stable', i \in got PROVE ~Keyset(c, i)
      <3>1. Before(desc, v(i), i, v(c.id), c.id)
        BY <2>1, <2>2
      <3>2. i \in DOMAIN table /\ c.id \in DOMAIN table
        BY <2>1
      <3>3. i \in Int /\ v(i) \in Value /\ c.id \in Int /\ v(c.id) \in Value
        BY <3>2, SortValues
      <3>4. Keyset(c, i) <=> Before(desc, v(c.id), c.id, v(i), i)
        BY <2>1, <3>2, KeysetIsBehind
      <3> HIDE DEF v
      <3> QED
        BY <3>1, <3>3, <3>4, BeforeOrder
    <2>3. \A i \in stable' : i \in got' <=> ~Keyset(c, i)
      BY <1>1, <2>1, <2>2
    <2>4. \A i : Keyset(c, i)' <=> Keyset(c, i)
      BY <1>2 DEF Keyset
    <2>5. reader'.next = c
      BY <1>2, <2>0
    <2>6. \A i \in stable' : i \in got' <=> ~Keyset(reader.next, i)'
      BY <2>3, <2>4, <2>5 DEF Keyset
    <2> QED
      BY <1>2, <1>3, <2>1, <2>5, <2>6 DEF ListOK
  <1>5. CASE Cardinality(page) # limit
    <2>1. NextCursor(page, sort, desc, limit) = NoCursor
      BY <1>5 DEF NextCursor
    <2>2. page = selected
      <3>0. IsFiniteSet(Id)
        BY PagingAssumption, FS_Interval DEF Id
      <3>1. IsFiniteSet(Id) /\ page \in SUBSET Id
        BY <3>0 DEF Types
      <3>2. Cardinality(page) \in Nat
        BY <3>1, FS_Subset, FS_CardinalityType
      <3> QED
        BY <1>1, <1>5, <3>2 DEF IsPage
    <2>3. stable' \subseteq got'
      BY <1>1, <2>2
    <2> QED
      BY <1>2, <1>3, <2>1, <2>3 DEF ListOK
  <1> QED
    BY <1>4, <1>5

LEMMA FirstPageKeeps ==
    ASSUME IInv, NEW sort \in Sort, NEW desc \in BOOLEAN, NEW f \in Filter,
           NEW w \in Window, NEW limit \in 1 .. MaxLimit,
           FirstPage(sort, desc, f, w, limit)
    PROVE  ListOK'
  <1> DEFINE selected == accessLogConditions(newAccessLogQuery(w), f)
  <1>1. /\ selected \in SUBSET DOMAIN table /\ stable' = selected
        /\ GetAccessLog(selected, sort, desc, f, w, limit)
    BY DEF FirstPage, accessLogConditions
  <1>2. Types /\ limit \in Nat \ {0} /\ got = {} /\ twice = {}
    BY PagingAssumption DEF IInv, IdleOK, FirstPage, Idle
  <1> HIDE DEF selected
  <1> QED
    BY <1>1, <1>2, PageKeeps

LEMMA NextPageKeeps ==
    ASSUME IInv, NEW limit \in 1 .. MaxLimit, NextPage(limit)
    PROVE  ListOK'
  <1> DEFINE c == reader.next
             matching == accessLogConditions(newAccessLogQuery(reader.window),
                                             reader.filter)
             selected == {i \in matching : Keyset(c, i)}
  <1>1. /\ reader.kind = "list" /\ c # NoCursor
        /\ GetAccessLog(selected, c.sort, c.desc, reader.filter, reader.window, limit)
        /\ stable' = stable \cap matching
    BY DEF NextPage
  <1>2. Types /\ limit \in Nat \ {0}
    BY PagingAssumption DEF IInv
  <1>3. /\ stable \cap twice = {} /\ c \in Cursor
        /\ \A i \in stable : i \in got <=> ~Keyset(c, i)
    BY <1>1 DEF IInv, ListOK
  <1>4. c.sort \in Sort /\ c.desc \in BOOLEAN /\ c.value \in Value /\ c.id \in Int
    BY <1>3 DEF Cursor
  <1>5. matching \subseteq DOMAIN table /\ stable \subseteq DOMAIN table
    BY DEF accessLogConditions, IInv, Types
  <1>6. /\ selected \in SUBSET DOMAIN table /\ stable' \subseteq DOMAIN table
        /\ stable' \cap twice = {}
        /\ \A i \in stable' : i \in got <=> i \notin selected
        /\ \A j \in selected : Keyset(c, j)
        /\ \A i \in stable' \cap got : ~Keyset(c, i)
    BY <1>1, <1>3, <1>5
  <1> HIDE DEF selected, matching, c
  <1> DEFINE v(i) == accessLogSortValue(table[i], c.sort)
  <1>7. ASSUME NEW i \in stable' \cap got, NEW j \in selected
        PROVE  Before(c.desc, v(i), i, v(j), j)
    <2>1. i \in DOMAIN table /\ j \in DOMAIN table
      BY <1>6
    <2>2. i \in Int /\ v(i) \in Value /\ j \in Int /\ v(j) \in Value
      BY <1>2, <1>4, <2>1, SortValues
    <2>3. /\ ~Before(c.desc, c.value, c.id, v(i), i)
          /\ Before(c.desc, c.value, c.id, v(j), j)
      BY <1>2, <1>3, <1>6, <2>1, KeysetIsBehind
    <2> HIDE DEF v
    <2> QED
      BY <1>4, <2>2, <2>3, BeforeOrder
  <1> QED
    BY <1>1, <1>2, <1>4, <1>6, <1>7, PageKeeps

(* The cut gives the order of what was returned and what is to come.       *)
LEMMA CutIsOrdered == ASSUME IInv PROVE WalkIsComplete
  <1> SUFFICES ASSUME reader.kind = "list"
               PROVE  /\ stable \cap twice = {}
                      /\ \A i \in stable \cap got, j \in stable \ got :
                           OrderBy(reader.sort, reader.desc, i, j)
                      /\ reader.next = NoCursor => stable \subseteq got
    BY DEF WalkIsComplete
  <1> DEFINE c == reader.next
  <1>1. stable \cap twice = {} /\ Types /\ stable \subseteq DOMAIN table
    BY DEF IInv, ListOK, Types
  <1>2. CASE c = NoCursor /\ stable \subseteq got
    BY <1>1, <1>2
  <1>3. CASE /\ c \in Cursor /\ c.sort = reader.sort /\ c.desc = reader.desc
             /\ \A i \in stable : i \in got <=> ~Keyset(c, i)
    <2>1. c.sort \in Sort /\ c.desc \in BOOLEAN /\ c.value \in Value /\ c.id \in Int
      BY <1>3 DEF Cursor
    <2>2. c # NoCursor
      <3>1. "sort" \in DOMAIN c
        BY <1>3 DEF Cursor
      <3>2. DOMAIN NoCursor = {"end"}
        BY DEF NoCursor
      <3> QED
        BY <3>1, <3>2
    <2> DEFINE v(i) == accessLogSortValue(table[i], c.sort)
    <2>3. ASSUME NEW i \in stable \cap got, NEW j \in stable \ got
          PROVE  OrderBy(c.sort, c.desc, i, j)
      <3>1. i \in DOMAIN table /\ j \in DOMAIN table
        BY <1>1
      <3>2. i \in Int /\ v(i) \in Value /\ j \in Int /\ v(j) \in Value
        BY <1>1, <2>1, <3>1, SortValues
      <3>3. /\ ~Before(c.desc, c.value, c.id, v(i), i)
            /\ Before(c.desc, c.value, c.id, v(j), j)
        BY <1>1, <1>3, <3>1, KeysetIsBehind
      <3>4. Before(c.desc, v(i), i, v(j), j)
        <4> HIDE DEF v, c
        <4> QED
          BY <2>1, <3>2, <3>3, BeforeOrder
      <3> QED
        BY <3>4 DEF OrderBy, Before
    <2> QED
      BY <1>1, <1>3, <2>2, <2>3
  <1> QED
    BY <1>2, <1>3 DEF IInv, ListOK
-----------------------------------------------------------------------------
(* Buckets.                                                                *)
LEMMA LeastExists ==
    ASSUME NEW T \in SUBSET Nat, T # {}
    PROVE  \E m \in T : \A k \in T : m <= k
  <1> DEFINE F == {0 .. n : n \in T}
             R == StrictSubsetOrdering(Nat)
  <1>1. F \subseteq FiniteSubsetsOf(Nat)
    <2>1. \A n \in T : IsFiniteSet(0 .. n)
      BY FS_Interval
    <2> QED
      BY <2>1 DEF FiniteSubsetsOf
  <1>2. F # {}
    OBVIOUS
  <1> HIDE DEF F
  <1>3. PICK X \in F : \A Y \in F : <<Y, X>> \notin R
    BY <1>1, <1>2, FS_StrictSubsetOrderingWellFounded, WFMin
  <1>4. PICK m \in T : X = 0 .. m
    BY DEF F
  <1>5. ASSUME NEW k \in T, k < m PROVE FALSE
    <2>1. 0 .. k \in F
      BY DEF F
    <2>2. 0 .. k \subseteq 0 .. m /\ 0 .. k # 0 .. m
      BY <1>5, m \in 0 .. m, m \notin 0 .. k
    <2>3. <<0 .. k, X>> \in R
      BY <1>4, <2>2 DEF StrictSubsetOrdering
    <2> QED
      BY <1>3, <2>1, <2>3
  <1> QED
    BY <1>5

LEMMA GranularityType ==
    ASSUME NEW d \in Int
    PROVE  GranularityForWindow(d) \in Nat \ {0}
  <1> DEFINE fitting == {r \in Rung : d <= r.upTo}
  <1>0. Rung \subseteq [upTo : Nat, width : Nat \ {0}] /\ DayWidth \in Nat \ {0}
    BY PagingAssumption
  <1>1. \A r \in fitting : r.upTo \in Nat /\ r.width \in Nat \ {0}
    BY <1>0
  <1>2. GranularityForWindow(d) =
          IF fitting = {} THEN DayWidth
          ELSE (CHOOSE r \in fitting : \A s \in fitting : r.upTo <= s.upTo).width
    BY DEF GranularityForWindow
  <1> HIDE DEF fitting
  <1>3. ASSUME fitting # {}
        PROVE  \E r \in fitting : \A s \in fitting : r.upTo <= s.upTo
    <2> DEFINE T == {r.upTo : r \in fitting}
    <2>1. T \in SUBSET Nat /\ T # {}
      BY <1>1, <1>3
    <2>2. PICK m \in T : \A k \in T : m <= k
      BY <2>1, LeastExists
    <2> QED
      BY <2>2
  <1>4. CASE fitting = {}
    BY <1>0, <1>2, <1>4
  <1>5. CASE fitting # {}
    <2> DEFINE r == CHOOSE r \in fitting : \A s \in fitting : r.upTo <= s.upTo
    <2>1. r \in fitting
      BY <1>3, <1>5
    <2> QED
      BY <1>1, <1>2, <1>5, <2>1
  <1> QED
    BY <1>4, <1>5

LEMMA BucketOffset ==
    ASSUME NEW b \in Int, NEW n \in Nat \ {0}, b % n = 0, NEW r \in 0 .. n - 1
    PROVE  (b + r) % n = r
  OBVIOUS

(* Rounding down to a bucket, for times before the epoch of the clock too. *)
LEMMA Truncating ==
    ASSUME NEW n \in Nat \ {0}
    PROVE  /\ \A t \in Int : /\ TruncateToBucket(t, n) \in Int
                             /\ TruncateToBucket(t, n) % n = 0
                             /\ TruncateToBucket(t, n) <= t
                             /\ t < TruncateToBucket(t, n) + n
           /\ \A t, u \in Int : u <= t =>
                TruncateToBucket(u, n) <= TruncateToBucket(t, n)
           /\ \A t, b \in Int : b % n = 0 /\ b <= t /\ t < b + n =>
                TruncateToBucket(t, n) = b
  <1>1. \A t \in Int : t % n \in 0 .. n - 1
    OBVIOUS
  <1>2. \A t \in Int : (t - (t % n)) % n = 0
    OBVIOUS
  <1>3. ASSUME NEW t \in Int, NEW u \in Int, u <= t
        PROVE  u - (u % n) <= t - (t % n)
    BY <1>3
  <1>4. \A b \in Int, r \in 0 .. n - 1 : b % n = 0 => (b + r) % n = r
    BY BucketOffset
  <1>5. ASSUME NEW t \in Int, NEW b \in Int, b % n = 0, b <= t, t < b + n
        PROVE  t - (t % n) = b
    <2>1. t - b \in 0 .. n - 1 /\ b + (t - b) = t
      BY <1>5
    <2>2. (b + (t - b)) % n = t - b
      BY <1>4, <1>5, <2>1
    <2>3. t % n = t - b
      BY <2>1, <2>2
    <2> QED
      BY <2>3
  <1> QED
    BY <1>1, <1>2, <1>3, <1>5 DEF TruncateToBucket

(* The bucket of a time in the window is a bar of the histogram.           *)
LEMMA BucketOfWindow ==
    ASSUME NEW w \in [from : Int, to : Int], NEW n \in Nat \ {0}, NEW t \in Int,
           w.from <= t, t <= w.to
    PROVE  TruncateToBucket(t, n) \in Sequence(w, n)
  <1> DEFINE b == TruncateToBucket(t, n)
             a == TruncateToBucket(w.from, n)
  <1>1. /\ b \in Int /\ a \in Int /\ b % n = 0 /\ b <= t /\ a <= b
        /\ w.from \in Int /\ w.to \in Int
    BY Truncating
  <1> HIDE DEF a, b
  <1>2. b \in a .. w.to /\ b % n = 0
    BY <1>1
  <1> QED
    BY <1>2 DEF Sequence, a, b

(* The statement of a bar selects exactly the rows of its bucket.          *)
LEMMA BucketRowsExact ==
    ASSUME Types, NEW w \in [from : Int, to : Int], NEW n \in Nat \ {0}, NEW f,
           NEW b \in Sequence(w, n), NEW i \in DOMAIN table
    PROVE  i \in BucketRows(b, w, n, f) <=>
             /\ TruncateToBucket(table[i].at, n) = b
             /\ InWindow(w, table[i]) /\ Condition(f, table[i])
  <1> DEFINE t == table[i].at
             lower == IF w.from > b THEN w.from ELSE b
             inRange == lower <= t /\ IF w.to < b + n THEN t <= w.to ELSE t < b + n
  <1>1. w.from \in Int /\ w.to \in Int
    OBVIOUS
  <1>2. b \in Int /\ b % n = 0
    BY <1>1, Truncating DEF Sequence
  <1>3. t \in Int
    <2>1. table[i] \in Row /\ MaxTime \in Nat
      BY PagingAssumption DEF Types
    <2> QED
      BY <2>1 DEF Row, Time
  <1>4. i \in BucketRows(b, w, n, f) <=> inRange /\ Condition(f, table[i])
    BY DEF BucketRows
  <1>5. InWindow(w, table[i]) <=> w.from <= t /\ t <= w.to
    BY DEF InWindow
  <1> HIDE DEF t
  <1>6. inRange <=> b <= t /\ t < b + n /\ w.from <= t /\ t <= w.to
    BY <1>1, <1>2, <1>3
  <1> HIDE DEF inRange
  <1>7. TruncateToBucket(t, n) = b <=> b <= t /\ t < b + n
    <2> DEFINE u == TruncateToBucket(t, n)
    <2>1. u \in Int /\ u <= t /\ t < u + n
      BY <1>3, Truncating
    <2>2. b <= t /\ t < b + n => u = b
      BY <1>2, <1>3, Truncating
    <2> QED
      BY <2>1, <2>2
  <1> QED
    BY <1>4, <1>5, <1>6, <1>7 DEF t
-----------------------------------------------------------------------------
(* The histogram, bar by bar: the rows that are surely in bucket b, and    *)
(* those that may have been.                                               *)
Sure(b) == {i \in stable : TruncateToBucket(table[i].at, reader.width) = b}
SureDenied(b) == Sure(b) \ Allowed(Sure(b))

Possible(b) ==
    {x \in ever : /\ TruncateToBucket(x.row.at, reader.width) = b
                  /\ InWindow(reader.window, x.row)
                  /\ Condition(reader.filter, x.row)}
MayAllow(b) == {x \in Possible(b) : x.row.reason = NULL}
MayDeny(b) == {x \in Possible(b) : x.row.reason # NULL}

BarOK(b) ==
    /\ Cardinality(Allowed(Sure(b))) <= reader.count[b].allow
    /\ reader.count[b].allow <= Cardinality(MayAllow(b))
    /\ Cardinality(SureDenied(b)) <= reader.count[b].deny
    /\ reader.count[b].deny <= Cardinality(MayDeny(b))

LEMMA HistogramBars ==
    HistogramIsExact <=>
      (reader.kind = "histogram" =>
         /\ \A i \in stable :
              TruncateToBucket(table[i].at, reader.width) \in DOMAIN reader.count
         /\ \A b \in DOMAIN reader.count \ reader.todo : BarOK(b))
  BY DEF HistogramIsExact, BarOK, Sure, SureDenied, Possible, MayAllow, MayDeny

LEMMA FiniteIds ==
    ASSUME Types, NEW S \in SUBSET DOMAIN table
    PROVE  IsFiniteSet(S) /\ Cardinality(S) \in Nat
  <1>1. IsFiniteSet(Id)
    BY PagingAssumption, FS_Interval DEF Id
  <1>2. S \in SUBSET Id
    BY DEF Types
  <1> QED
    BY <1>1, <1>2, FS_Subset, FS_CardinalityType

(* The statement of bar b counts what it must and no more than it may.     *)
LEMMA BarCounted ==
    ASSUME Types, HistogramReader, NEW b \in DOMAIN reader.count, NEW ids,
           ids = BucketRows(b, reader.window, reader.width, reader.filter)
    PROVE  /\ Cardinality(Allowed(Sure(b))) <= Cardinality(Allowed(ids))
           /\ Cardinality(Allowed(ids)) <= Cardinality(MayAllow(b))
           /\ Cardinality(SureDenied(b)) <= Cardinality(ids \ Allowed(ids))
           /\ Cardinality(ids \ Allowed(ids)) <= Cardinality(MayDeny(b))
           /\ Cardinality(Allowed(ids)) \in Nat
           /\ Cardinality(ids \ Allowed(ids)) \in Nat
  <1> DEFINE at(r) == TruncateToBucket(r.at, reader.width)
             w == reader.window
             f == reader.filter
             e(i) == [id |-> i, row |-> table[i]]
  <1>1. /\ w \in [from : Int, to : Int] /\ reader.width \in Nat \ {0}
        /\ b \in Sequence(w, reader.width) /\ stable \subseteq DOMAIN table
    BY DEF HistogramReader, Types
  <1>2. \A i \in DOMAIN table :
          i \in ids <=> at(table[i]) = b /\ InWindow(w, table[i])
                          /\ Condition(f, table[i])
    BY <1>1, BucketRowsExact
  <1>3. ids \subseteq DOMAIN table /\ Sure(b) \subseteq ids
    BY <1>1, <1>2 DEF BucketRows, Sure, HistogramReader
  <1>4. /\ Allowed(Sure(b)) \subseteq Allowed(ids)
        /\ SureDenied(b) \subseteq ids \ Allowed(ids)
        /\ Allowed(ids) \subseteq ids
    BY <1>3 DEF Allowed, SureDenied
  <1>5. /\ IsFiniteSet(Allowed(ids)) /\ Cardinality(Allowed(ids)) \in Nat
        /\ IsFiniteSet(ids \ Allowed(ids)) /\ Cardinality(ids \ Allowed(ids)) \in Nat
    <2>1. Allowed(ids) \in SUBSET DOMAIN table
            /\ ids \ Allowed(ids) \in SUBSET DOMAIN table
      BY <1>3, <1>4
    <2> QED
      BY <2>1, FiniteIds
  <1>6. /\ Cardinality(Allowed(Sure(b))) <= Cardinality(Allowed(ids))
        /\ Cardinality(SureDenied(b)) <= Cardinality(ids \ Allowed(ids))
    BY <1>4, <1>5, FS_Subset
  <1>7. ASSUME NEW i \in ids
        PROVE  /\ e(i) \in Possible(b) /\ e(i).row = table[i]
    <2>1. e(i) \in Rows /\ e(i).row = table[i]
      BY <1>3 DEF Rows
    <2>2. e(i) \in ever
      BY <2>1 DEF HistogramReader
    <2> QED
      BY <1>2, <1>3, <2>1, <2>2 DEF Possible
  <1>8. \A i, j : e(i) = e(j) => i = j
    OBVIOUS
  <1>9. IsFiniteSet(MayAllow(b)) /\ IsFiniteSet(MayDeny(b))
    <2>1. MayAllow(b) \in SUBSET ever /\ MayDeny(b) \in SUBSET ever
      BY DEF MayAllow, MayDeny, Possible
    <2> QED
      BY <2>1, FS_Subset DEF HistogramReader
  <1> HIDE DEF e
  <1>10. Cardinality(Allowed(ids)) <= Cardinality(MayAllow(b))
    <2> DEFINE g == [i \in Allowed(ids) |-> e(i)]
    <2>1. \A i \in Allowed(ids) : e(i) \in MayAllow(b)
      BY <1>4, <1>7 DEF Allowed, MayAllow
    <2>2. g \in Injection(Allowed(ids), MayAllow(b))
      BY <1>8, <2>1 DEF Injection, IsInjective
    <2> QED
      BY <1>9, <2>2, FS_Injection
  <1>11. Cardinality(ids \ Allowed(ids)) <= Cardinality(MayDeny(b))
    <2> DEFINE D == ids \ Allowed(ids)
               g == [i \in D |-> e(i)]
    <2>1. \A i \in D : e(i) \in MayDeny(b)
      BY <1>7 DEF Allowed, MayDeny
    <2>2. g \in Injection(D, MayDeny(b))
      BY <1>8, <2>1 DEF Injection, IsInjective
    <2> QED
      BY <1>9, <2>2, FS_Injection
  <1> QED
    BY <1>5, <1>6, <1>10, <1>11

(* A bar stays right while rows come and go.                               *)
LEMMA BarKept ==
    ASSUME Types, Types', HistogramReader, NEW b \in DOMAIN reader.count, BarOK(b),
           reader'.width = reader.width, reader'.window = reader.window,
           reader'.filter = reader.filter, reader'.count[b] = reader.count[b],
           stable' \subseteq stable, ever \subseteq ever', IsFiniteSet(ever'),
           \A i \in stable' : table'[i] = table[i]
    PROVE  BarOK(b)'
  <1>1. /\ Allowed(Sure(b))' \subseteq Allowed(Sure(b))
        /\ SureDenied(b)' \subseteq SureDenied(b)
    BY DEF Allowed, Sure, SureDenied
  <1>2. /\ IsFiniteSet(Allowed(Sure(b))) /\ Cardinality(Allowed(Sure(b))) \in Nat
        /\ IsFiniteSet(SureDenied(b)) /\ Cardinality(SureDenied(b)) \in Nat
    <2>1. Allowed(Sure(b)) \in SUBSET DOMAIN table /\ SureDenied(b) \in SUBSET DOMAIN table
      BY DEF Allowed, Sure, SureDenied, Types
    <2> QED
      BY <2>1, FiniteIds
  <1>3. /\ Cardinality(Allowed(Sure(b))') <= Cardinality(Allowed(Sure(b)))
        /\ Cardinality(SureDenied(b)') <= Cardinality(SureDenied(b))
        /\ Cardinality(Allowed(Sure(b))') \in Nat /\ Cardinality(SureDenied(b)') \in Nat
    BY <1>1, <1>2, FS_Subset, FS_CardinalityType
  <1>4. /\ MayAllow(b) \subseteq MayAllow(b)' /\ MayDeny(b) \subseteq MayDeny(b)'
        /\ MayAllow(b)' \subseteq ever' /\ MayDeny(b)' \subseteq ever'
    BY DEF MayAllow, MayDeny, Possible, InWindow, Condition
  <1>5. /\ IsFiniteSet(MayAllow(b)') /\ IsFiniteSet(MayDeny(b)')
        /\ Cardinality(MayAllow(b)') \in Nat /\ Cardinality(MayDeny(b)') \in Nat
    BY <1>4, FS_Subset, FS_CardinalityType
  <1>6. /\ Cardinality(MayAllow(b)) <= Cardinality(MayAllow(b)')
        /\ Cardinality(MayDeny(b)) <= Cardinality(MayDeny(b)')
        /\ Cardinality(MayAllow(b)) \in Nat /\ Cardinality(MayDeny(b)) \in Nat
    BY <1>4, <1>5, FS_Subset, FS_CardinalityType
  <1>7. reader.count[b].allow \in Nat /\ reader.count[b].deny \in Nat
    BY DEF HistogramReader
  <1> QED
    BY <1>2, <1>3, <1>5, <1>6, <1>7 DEF BarOK

-----------------------------------------------------------------------------
(* The steps.  What the reader asks for and has got is left alone by the   *)
(* clock, the sink and retention: they add rows and remove rows, and never *)
(* change one.                                                             *)
LEMMA BackgroundKeeps ==
    ASSUME IInv, Types', reader' = reader, got' = got, twice' = twice,
           stable' \subseteq stable, \A i \in stable' : table'[i] = table[i],
           reader.kind = "histogram" =>
             Rows' \subseteq ever' /\ ever \subseteq ever' /\ IsFiniteSet(ever')
    PROVE  IInv'
  <1>1. IdleOK'
    BY DEF IInv, IdleOK
  <1>2. ListOK'
    <2> SUFFICES ASSUME reader.kind = "list" PROVE ListOK'
      BY DEF ListOK
    <2>1. \A i \in stable' : Keyset(reader.next, i)' <=> Keyset(reader.next, i)
      BY DEF Keyset
    <2> QED
      BY <2>1 DEF IInv, ListOK
  <1>3. HistogramOK' /\ HistogramIsExact'
    <2>1. CASE reader.kind # "histogram"
      BY <2>1 DEF HistogramOK, HistogramIsExact
    <2>2. CASE reader.kind = "histogram"
      <3>1. HistogramReader /\ Types
        BY <2>2 DEF IInv, HistogramOK
      <3>2. HistogramReader'
        <4>1. \A i \in stable' : /\ InWindow(reader.window, table[i])'
                                 /\ Condition(reader.filter, table[i])'
          BY <3>1 DEF HistogramReader, InWindow, Condition
        <4>2. Sequence(reader.window, reader.width)' =
                Sequence(reader.window, reader.width)
          BY DEF Sequence, TruncateToBucket
        <4> QED
          BY <2>2, <3>1, <4>1, <4>2 DEF HistogramReader
      <3>3. /\ \A i \in stable :
                 TruncateToBucket(table[i].at, reader.width) \in DOMAIN reader.count
            /\ \A b \in DOMAIN reader.count \ reader.todo : BarOK(b)
        BY <2>2, HistogramBars DEF IInv
      <3>4. ASSUME NEW b \in DOMAIN reader.count \ reader.todo PROVE BarOK(b)'
        BY <2>2, <3>1, <3>3, BarKept
      <3>5. \A i \in stable' :
              TruncateToBucket(table'[i].at, reader'.width) \in DOMAIN reader'.count
        BY <3>3
      <3>6. HistogramIsExact'
        <4>1. \A b \in DOMAIN reader'.count \ reader'.todo : BarOK(b)'
          BY <3>4
        <4> QED
          BY <3>5, <4>1 DEF HistogramIsExact, BarOK, Sure, SureDenied, Possible, MayAllow, MayDeny
      <3> QED
        BY <3>2, <3>6 DEF HistogramOK
    <2> QED
      BY <2>1, <2>2
  <1> QED
    BY <1>1, <1>2, <1>3 DEF IInv

(* A new row takes an id that no row of the table has.                     *)
LEMMA NewIdIsNew ==
    ASSUME Types
    PROVE  NewId \notin DOMAIN table
  <1> DEFINE S == DOMAIN table
             m == CHOOSE i \in S : \A j \in S : j <= i
  <1>1. S \subseteq Int /\ IsFiniteSet(S)
    BY FiniteIds, PagingAssumption DEF Types, Id
  <1>2. NewId = 1 + (IF S = {} THEN 0 ELSE m)
    BY DEF NewId
  <1> HIDE DEF S
  <1>3. CASE S # {}
    <2> DEFINE R == {x \in S \X S : x[1] < x[2]}
    <2>1. \A x, y \in S : <<x, y>> \in R <=> x < y
      OBVIOUS
    <2> HIDE DEF R
    <2>a. \A x, y, z \in S : <<x, y>> \in R /\ <<y, z>> \in R => <<x, z>> \in R
      <3>1. \A x, y, z \in S : x < y /\ y < z => x < z
        BY <1>1
      <3> QED
        BY <2>1, <3>1
    <2>b. \A x, y \in S : x # y => <<x, y>> \in R \/ <<y, x>> \in R
      <3>1. \A x, y \in S : x # y => x < y \/ y < x
        BY <1>1
      <3> QED
        BY <2>1, <3>1
    <2>2. PICK x \in S : \A y \in S \ {x} : <<y, x>> \in R
      BY <1>1, <1>3, <2>a, <2>b, LastExists
    <2>c. \A y \in S \ {x} : y < x
      BY <2>1, <2>2
    <2>3. \E i \in S : \A j \in S : j <= i
      <3>1. \A y \in S : y <= x
        BY <1>1, <2>c
      <3> QED
        BY <3>1
    <2>4. m \in S /\ \A j \in S : j <= m
      BY <2>3
    <2> HIDE DEF m
    <2> QED
      BY <1>1, <1>2, <1>3, <2>4 DEF S
  <1> QED
    BY <1>3 DEF S

LEMMA InsertKeeps ==
    ASSUME IInv, NEW at \in Time, NEW s \in Shape, BatchInsert(at, s)
    PROVE  IInv'
  <1> DEFINE row == [at |-> at, reason |-> s.reason, devs |-> s.devs]
  <1>1. PICK i : i = NewId
    OBVIOUS
  <1>2. /\ i \in Id
        /\ table' = [x \in DOMAIN table \cup {i} |->
                        IF x = i THEN row ELSE table[x]]
        /\ ever' = IF reader.kind = "histogram"
                   THEN ever \cup {[id |-> i, row |-> row]} ELSE ever
        /\ UNCHANGED <<now, reader, stable, got, twice>>
    BY <1>1 DEF BatchInsert
  <1>3. i \notin DOMAIN table /\ Types
    BY <1>1, NewIdIsNew DEF IInv
  <1>4. row \in Row
    BY PagingAssumption DEF Row
  <1> HIDE DEF row
  <1>5. /\ DOMAIN table' = DOMAIN table \cup {i} /\ table'[i] = row
        /\ \A x \in DOMAIN table : table'[x] = table[x]
    BY <1>2, <1>3
  <1>6. Types'
    BY <1>2, <1>3, <1>4, <1>5 DEF Types
  <1>7. \A x \in stable' : table'[x] = table[x]
    BY <1>2, <1>3, <1>5 DEF Types
  <1>8. ASSUME reader.kind = "histogram"
        PROVE  Rows' \subseteq ever' /\ ever \subseteq ever' /\ IsFiniteSet(ever')
    <2>1. Rows \subseteq ever /\ IsFiniteSet(ever)
      BY <1>8 DEF IInv, HistogramOK, HistogramReader
    <2>2. ever' = ever \cup {[id |-> i, row |-> row]}
      BY <1>2, <1>8
    <2>3. Rows' \subseteq Rows \cup {[id |-> i, row |-> row]}
      BY <1>5 DEF Rows
    <2> QED
      BY <2>1, <2>2, <2>3, FS_AddElement
  <1> QED
    BY <1>2, <1>6, <1>7, <1>8, BackgroundKeeps

LEMMA PruneKeeps ==
    ASSUME IInv, DeleteOlderThan
    PROVE  IInv'
  <1>1. PICK kept \in SUBSET DOMAIN table :
          /\ table' = [i \in kept |-> table[i]]
          /\ stable' = stable \cap kept
          /\ UNCHANGED <<now, reader, ever, got, twice>>
    BY DEF DeleteOlderThan
  <1>2. DOMAIN table' = kept /\ \A i \in kept : table'[i] = table[i]
    BY <1>1
  <1>3. Types'
    BY <1>1, <1>2 DEF IInv, Types
  <1>4. Rows' \subseteq Rows
    BY <1>2 DEF Rows
  <1>5. reader.kind = "histogram" =>
          Rows' \subseteq ever' /\ ever \subseteq ever' /\ IsFiniteSet(ever')
    BY <1>1, <1>4 DEF IInv, HistogramOK, HistogramReader
  <1> QED
    BY <1>1, <1>2, <1>3, <1>5, BackgroundKeeps

LEMMA ClockKeeps ==
    ASSUME IInv, now' \in Int, UNCHANGED <<table, reader, history>>
    PROVE  IInv'
  <1>1. Types'
    BY DEF IInv, Types, history
  <1>2. Rows' = Rows
    BY DEF Rows
  <1>3. reader.kind = "histogram" =>
          Rows' \subseteq ever' /\ ever \subseteq ever' /\ IsFiniteSet(ever')
    BY <1>2 DEF IInv, HistogramOK, HistogramReader, history
  <1> QED
    BY <1>1, <1>3, BackgroundKeeps DEF history

(* A page: the rows that are still followed are in the table.              *)
LEMMA PageTypes ==
    ASSUME Types, now' = now, table' = table, stable' \subseteq DOMAIN table,
           reader'.kind = "list", ListOK'
    PROVE  IInv'
  <1>1. Types'
    BY DEF Types
  <1> QED
    BY <1>1 DEF IInv, IdleOK, HistogramOK, HistogramIsExact

(* A histogram starts with all bars to count.                              *)
LEMMA HistogramStarts ==
    ASSUME IInv, NEW f \in Filter, NEW w \in Window, GetAccessLogHistogram(f, w)
    PROVE  IInv'
  <1>0. PICK q : q = newAccessLogQuery(w)
    OBVIOUS
  <1>1. q \in [from : Int, to : Int]
    <2>1. now \in Int /\ DefaultWindow \in Int
            /\ Window \subseteq [from : Int \cup {NULL}, to : Int \cup {NULL}]
      BY PagingAssumption DEF IInv, Types
    <2> QED
      BY <1>0, <2>1 DEF newAccessLogQuery
  <1>2. PICK width : width = GranularityForWindow(q.to - q.from)
    OBVIOUS
  <1>3. width \in Nat \ {0}
    <2>1. q.to - q.from \in Int
      BY <1>1
    <2> QED
      BY <1>2, <2>1, GranularityType
  <1>4. /\ reader = Idle
        /\ reader' = [kind |-> "histogram", filter |-> f, window |-> q,
                      width |-> width, todo |-> Sequence(q, width),
                      count |-> [b \in Sequence(q, width) |->
                                   [allow |-> 0, deny |-> 0]]]
        /\ stable' = accessLogConditions(q, f)
        /\ ever' = Rows
        /\ UNCHANGED <<now, table, got, twice>>
    BY <1>0, <1>2 DEF GetAccessLogHistogram
  <1>5. /\ reader'.kind = "histogram" /\ reader'.filter = f /\ reader'.window = q
        /\ reader'.width = width /\ reader'.todo = Sequence(q, width)
        /\ DOMAIN reader' = {"kind", "filter", "window", "width", "todo", "count"}
        /\ reader'.count = [b \in Sequence(q, width) |-> [allow |-> 0, deny |-> 0]]
    BY <1>4
  <1>6. Types /\ Types'
    BY <1>4 DEF IInv, Types, accessLogConditions
  <1>7. IdleOK'
    BY <1>4 DEF IInv, IdleOK, Idle
  <1>8. ListOK'
    BY <1>5 DEF ListOK
  <1>9. \A i \in stable' : /\ i \in DOMAIN table /\ InWindow(q, table[i])
                           /\ Condition(f, table[i])
    BY <1>4 DEF accessLogConditions
  <1>10. Rows' = Rows /\ IsFiniteSet(Rows)
    <2>1. Rows' = Rows
      BY <1>4 DEF Rows
    <2>2. IsFiniteSet(DOMAIN table)
      BY <1>6, FiniteIds
    <2> DEFINE g == [i \in DOMAIN table |-> [id |-> i, row |-> table[i]]]
    <2>3. g \in Surjection(DOMAIN table, Rows)
      BY DEF Rows, Surjection
    <2> QED
      BY <2>1, <2>2, <2>3, FS_Surjection
  <1>11. HistogramReader'
    <2>1. \A i \in stable' : /\ InWindow(reader.window, table[i])'
                             /\ Condition(reader.filter, table[i])'
      BY <1>4, <1>5, <1>9 DEF InWindow, Condition
    <2>2. Sequence(reader.window, reader.width)' = Sequence(q, width)
      BY <1>5 DEF Sequence, TruncateToBucket
    <2>3. reader'.count \in [Sequence(q, width) -> [allow : Nat, deny : Nat]]
      BY <1>5
    <2> QED
      BY <1>1, <1>3, <1>4, <1>5, <1>10, <2>1, <2>2, <2>3 DEF HistogramReader
  <1>12. \A i \in stable' :
           TruncateToBucket(table[i].at, width) \in Sequence(q, width)
    <2> SUFFICES ASSUME NEW i \in stable'
                 PROVE  TruncateToBucket(table[i].at, width) \in Sequence(q, width)
      OBVIOUS
    <2>1. q.from <= table[i].at /\ table[i].at <= q.to
      BY <1>9 DEF InWindow
    <2>2. table[i] \in Row /\ MaxTime \in Nat
      BY <1>6, <1>9, PagingAssumption DEF Types
    <2>3. table[i].at \in Int
      BY <2>2 DEF Row, Time
    <2> QED
      BY <1>1, <1>3, <2>1, <2>3, BucketOfWindow
  <1>13. HistogramIsExact'
    <2>1. DOMAIN reader'.count \ reader'.todo = {}
      BY <1>5
    <2>2. \A i \in stable' :
            TruncateToBucket(table'[i].at, reader'.width) \in DOMAIN reader'.count
      BY <1>4, <1>5, <1>12
    <2> QED
      BY <2>1, <2>2 DEF HistogramIsExact
  <1> QED
    BY <1>6, <1>7, <1>8, <1>11, <1>13 DEF IInv, HistogramOK

(* One bar is counted, the others stay as they are.                        *)
LEMMA BarStep ==
    ASSUME IInv, trafficBuckets
    PROVE  IInv'
  <1>1. Types /\ HistogramReader /\ reader.kind = "histogram"
    BY DEF IInv, HistogramOK, trafficBuckets
  <1>2. PICK b, ids :
          /\ ids = BucketRows(b, reader.window, reader.width, reader.filter)
          /\ reader' = [reader EXCEPT
               !.todo = @ \ {b},
               !.count[b] = [allow |-> Cardinality(Allowed(ids)),
                             deny |-> Cardinality(ids \ Allowed(ids))]]
          /\ UNCHANGED <<now, table, history>>
    BY DEF trafficBuckets
  <1> DEFINE bar == [allow |-> Cardinality(Allowed(ids)),
                     deny |-> Cardinality(ids \ Allowed(ids))]
  <1>3. DOMAIN reader = {"kind", "filter", "window", "width", "todo", "count"}
    BY <1>1 DEF HistogramReader
  <1>4. /\ reader'.kind = "histogram" /\ reader'.filter = reader.filter
        /\ reader'.window = reader.window /\ reader'.width = reader.width
        /\ reader'.todo = reader.todo \ {b}
        /\ DOMAIN reader' = {"kind", "filter", "window", "width", "todo", "count"}
        /\ reader'.count = [reader.count EXCEPT ![b] = bar]
    BY <1>1, <1>2, <1>3
  <1> HIDE DEF bar
  <1>5. /\ now' = now /\ table' = table /\ stable' = stable /\ ever' = ever
        /\ got' = got /\ twice' = twice
    BY <1>2 DEF history
  <1>6. DOMAIN reader'.count = DOMAIN reader.count
          /\ \A x \in DOMAIN reader.count \ {b} : reader'.count[x] = reader.count[x]
    BY <1>1, <1>4 DEF HistogramReader
  <1>7. Types' /\ IdleOK' /\ ListOK'
    BY <1>1, <1>4, <1>5 DEF IInv, Types, IdleOK, ListOK
  <1>8. b \in DOMAIN reader.count =>
          /\ Cardinality(Allowed(Sure(b))) <= Cardinality(Allowed(ids))
          /\ Cardinality(Allowed(ids)) <= Cardinality(MayAllow(b))
          /\ Cardinality(SureDenied(b)) <= Cardinality(ids \ Allowed(ids))
          /\ Cardinality(ids \ Allowed(ids)) <= Cardinality(MayDeny(b))
          /\ Cardinality(Allowed(ids)) \in Nat
          /\ Cardinality(ids \ Allowed(ids)) \in Nat
    BY <1>1, <1>2, BarCounted
  <1>9. HistogramReader'
    <2>1. reader'.count \in [DOMAIN reader.count -> [allow : Nat, deny : Nat]]
      <3>1. reader.count \in [DOMAIN reader.count -> [allow : Nat, deny : Nat]]
        BY <1>1 DEF HistogramReader
      <3>2. b \in DOMAIN reader.count => bar \in [allow : Nat, deny : Nat]
        BY <1>8 DEF bar
      <3> QED
        BY <1>4, <3>1, <3>2
    <2>2. Sequence(reader.window, reader.width)' = DOMAIN reader.count
      <3>1. DOMAIN reader.count = Sequence(reader.window, reader.width)
        BY <1>1 DEF HistogramReader
      <3> QED
        BY <1>4, <3>1 DEF Sequence, TruncateToBucket
    <2>3. Rows' = Rows
      BY <1>5 DEF Rows
    <2>4. \A i \in stable' : /\ InWindow(reader.window, table[i])'
                             /\ Condition(reader.filter, table[i])'
      BY <1>1, <1>4, <1>5 DEF HistogramReader, InWindow, Condition
    <2> QED
      BY <1>1, <1>4, <1>5, <2>1, <2>2, <2>3, <2>4 DEF HistogramReader
  <1>10. /\ \A i \in stable :
              TruncateToBucket(table[i].at, reader.width) \in DOMAIN reader.count
         /\ \A x \in DOMAIN reader.count \ reader.todo : BarOK(x)
    BY <1>1, HistogramBars DEF IInv
  <1>11. ASSUME NEW x \in DOMAIN reader.count \ reader.todo, x # b PROVE BarOK(x)'
    <2>1. reader'.count[x] = reader.count[x] /\ BarOK(x)
      BY <1>6, <1>10, <1>11
    <2>2. IsFiniteSet(ever') /\ \A i \in stable' : table'[i] = table[i]
      BY <1>1, <1>5 DEF HistogramReader
    <2> QED
      BY <1>1, <1>4, <1>5, <1>7, <2>1, <2>2, BarKept
  <1>12. ASSUME b \in DOMAIN reader.count PROVE BarOK(b)'
    <2>1. reader'.count[b] = bar
      BY <1>1, <1>4, <1>12 DEF HistogramReader
    <2>2. /\ Allowed(Sure(b))' = Allowed(Sure(b)) /\ SureDenied(b)' = SureDenied(b)
          /\ MayAllow(b)' = MayAllow(b) /\ MayDeny(b)' = MayDeny(b)
      BY <1>4, <1>5 DEF Allowed, Sure, SureDenied, MayAllow, MayDeny, Possible,
                       InWindow, Condition
    <2> QED
      BY <1>8, <1>12, <2>1, <2>2 DEF BarOK, bar
  <1>13. HistogramIsExact'
    <2>1. \A x \in DOMAIN reader'.count \ reader'.todo : BarOK(x)'
      BY <1>4, <1>6, <1>11, <1>12
    <2>2. \A i \in stable' :
            TruncateToBucket(table'[i].at, reader'.width) \in DOMAIN reader'.count
      BY <1>4, <1>5, <1>6, <1>10
    <2> QED
      BY <2>1, <2>2 DEF HistogramIsExact, BarOK, Sure, SureDenied, Possible,
                        MayAllow, MayDeny
  <1> QED
    BY <1>7, <1>9, <1>13 DEF IInv, HistogramOK
-----------------------------------------------------------------------------
LEMMA InitIInv == Init => IInv
  <1> SUFFICES ASSUME Init PROVE IInv
    OBVIOUS
  <1>1. DOMAIN table = {} /\ reader.kind = "idle"
    BY DEF Init, Idle
  <1> QED
    BY <1>1 DEF Init, IInv, Types, IdleOK, ListOK, HistogramOK, HistogramIsExact

LEMMA NextIInv == IInv /\ [Next]_vars => IInv'
  <1> SUFFICES ASSUME IInv, [Next]_vars PROVE IInv'
    OBVIOUS
  <1>0. Types
    BY DEF IInv
  <1>1. ASSUME NEW sort \in Sort, NEW desc \in BOOLEAN, NEW f \in Filter,
               NEW w \in Window, NEW limit \in 1 .. MaxLimit,
               FirstPage(sort, desc, f, w, limit)
        PROVE  IInv'
    <2>1. /\ now' = now /\ table' = table /\ reader'.kind = "list"
          /\ stable' \subseteq DOMAIN table
      BY <1>1 DEF FirstPage, GetAccessLog, accessLogConditions
    <2>2. ListOK'
      BY <1>1, FirstPageKeeps
    <2> QED
      BY <1>0, <2>1, <2>2, PageTypes
  <1>2. ASSUME NEW limit \in 1 .. MaxLimit, NextPage(limit)
        PROVE  IInv'
    <2>1. /\ now' = now /\ table' = table /\ reader'.kind = "list"
          /\ stable' \subseteq DOMAIN table
      BY <1>0, <1>2 DEF NextPage, GetAccessLog, Types
    <2>2. ListOK'
      BY <1>2, NextPageKeeps
    <2> QED
      BY <1>0, <2>1, <2>2, PageTypes
  <1>3. ASSUME NEW f \in Filter, NEW w \in Window, GetAccessLogHistogram(f, w)
        PROVE  IInv'
    BY <1>3, HistogramStarts
  <1>4. CASE trafficBuckets
    BY <1>4, BarStep
  <1>5. CASE Leave
    <2>1. Types' /\ reader'.kind = "idle"
      BY <1>0, <1>5 DEF Leave, Types, Idle
    <2> QED
      BY <1>5, <2>1 DEF Leave, IInv, IdleOK, ListOK, HistogramOK, HistogramIsExact
  <1>6. ASSUME NEW at \in Time, NEW s \in Shape, BatchInsert(at, s)
        PROVE  IInv'
    BY <1>6, InsertKeeps
  <1>7. CASE DeleteOlderThan
    BY <1>7, PruneKeeps
  <1>8. CASE Tick
    <2>1. now' \in Int
      BY <1>0, <1>8 DEF Tick, Types
    <2> QED
      BY <1>8, <2>1, ClockKeeps DEF Tick
  <1>9. CASE UNCHANGED vars
    <2>1. now' \in Int
      BY <1>0, <1>9 DEF vars, Types
    <2> QED
      BY <1>9, <2>1, ClockKeeps DEF vars, history
  <1> QED
    BY <1>1, <1>2, <1>3, <1>4, <1>5, <1>6, <1>7, <1>8, <1>9 DEF Next

LEMMA Invariance == Spec => []IInv
  BY InitIInv, NextIInv, PTL DEF Spec

(* A walk over the list of the access log (GET /access-log, one statement  *)
(* per page) returns every row that matches at all its pages exactly once  *)
(* and in the order of the list, for every sort, direction, filter, page   *)
(* size and position of NULL, whatever the sink and retention do between   *)
(* the pages.                                                              *)
THEOREM WalksAreComplete == Spec => []WalkIsComplete
  BY Invariance, CutIsOrdered, PTL

(* Every finished bar of the histogram counts each row that stayed in its  *)
(* bucket once, and no row that was never there, for every window and      *)
(* every ladder of bucket widths (access_log_histogram_view.go).           *)
THEOREM HistogramsAreExact == Spec => []HistogramIsExact
  <1>1. IInv => HistogramIsExact
    BY DEF IInv
  <1> QED
    BY <1>1, Invariance, PTL
=============================================================================
