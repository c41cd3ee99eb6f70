------------------------------- MODULE Paging -------------------------------
(***************************************************************************)
(* Reading the access log while it changes (internal/accesslog,            *)
(* internal/filterx, internal/timebucket).  A client walks the list page   *)
(* by page: each page is one statement with the filters, the keyset        *)
(* predicate of the cursor, ORDER BY and LIMIT, and the cursor is the last *)
(* row of the page before.  The histogram is one statement per time bucket.*)
(* Between two statements the sink inserts rows, some of them older than   *)
(* what was read already, and retention prunes.                            *)
(*                                                                         *)
(* A row keeps the columns the queries tell apart: its time, its deny      *)
(* reason (NULL when the request was allowed) and the devices that         *)
(* contributed.  Texts are numbers in their collation order.  The total of *)
(* a page and the names shown with its contributors are left out.          *)
(***************************************************************************)
EXTENDS Integers, FiniteSets

CONSTANTS
    NULL,           \* SQL's NULL
    Reason,         \* deny reasons, numbered in the order they sort in
    Device,
    Shape,          \* the reasons and devices new rows come with
    Filter,         \* the filters a client sends, NoFilter among them
    Window,         \* the windows a client asks for; NULL is an end not named
    MaxTime,        \* bound: the last instant of the clock
    MaxId,          \* bound: rows of access_log at a time
    MaxLimit,       \* the largest page size
    DefaultWindow,  \* width of the window when the client names no start (24 h)
    Retention,      \* how long rows are kept
    FlushDelay,     \* how late the sink inserts a row (2 s)
    Rung,           \* window widths with their bucket width
    DayWidth        \* bucket width of a window wider than every rung

Time == 0 .. MaxTime
Id == 1 .. MaxId
Row == [at : Time, reason : Reason \cup {NULL}, devs : SUBSET Device]
NoFilter == [column |-> "none"]
Sort == {"created_at", "deny_reason"}

ASSUME PagingAssumption ==
    /\ Reason \subseteq Int /\ NULL \notin Int
    /\ MaxTime \in Nat /\ MaxId \in Nat /\ MaxLimit \in Nat \ {0}
    /\ DefaultWindow \in Nat /\ Retention \in Nat /\ FlushDelay \in Nat
    /\ DayWidth \in Nat \ {0}
    /\ Rung \subseteq [upTo : Nat, width : Nat \ {0}]
    /\ Shape \subseteq [reason : Reason \cup {NULL}, devs : SUBSET Device]
    /\ NoFilter \in Filter
    /\ Window \subseteq [from : Int \cup {NULL}, to : Int \cup {NULL}]

VARIABLES
    now,     \* the clock
    table,   \* access_log by id
    reader,  \* the request or walk under way
    stable,  \* history: rows that matched at every statement so far
    ever,    \* history: rows that were in the table since the first one
    got,     \* history: rows the walk has returned
    twice    \* history: rows it has returned more than once

vars == <<now, table, reader, stable, ever, got, twice>>
history == <<stable, ever, got, twice>>

Idle == [kind |-> "idle"]
NoCursor == [end |-> TRUE]
Rows == {[id |-> i, row |-> table[i]] : i \in DOMAIN table}

Init ==
    /\ now = 0
    /\ table = <<>>
    /\ reader = Idle
    /\ stable = {} /\ ever = {} /\ got = {} /\ twice = {}

-----------------------------------------------------------------------------
(* Filters.  contains and not_contains select a set of texts and treat     *)
(* NULL as in and not_in do, and are not told apart from them.             *)
scalarCondition(v, op, values) ==
    \/ op = "in" /\ v # NULL /\ v \in values
    \/ op = "not_in" /\ (v = NULL \/ v \notin values)
    \/ op = "is_null" /\ v = NULL
    \/ op = "not_null" /\ v # NULL

relationalCondition(children, op, values) ==
    \/ op = "in" /\ children \cap values # {}
    \/ op = "not_in" /\ children \cap values = {}
    \/ op = "is_null" /\ children = {}
    \/ op = "not_null" /\ children # {}

Condition(f, r) ==
    \/ f.column = "none"
    \/ f.column = "deny_reason" /\ scalarCondition(r.reason, f.op, f.values)
    \/ f.column = "device" /\ relationalCondition(r.devs, f.op, f.values)

(* The window a request asks for; an end it does not name is computed from *)
(* the clock of that request, so that it moves from page to page.          *)
newAccessLogQuery(w) ==
    [from |-> IF w.from = NULL THEN now - DefaultWindow ELSE w.from,
     to   |-> IF w.to = NULL THEN now ELSE w.to]

InWindow(w, r) == w.from <= r.at /\ r.at <= w.to

accessLogConditions(w, f) ==
    {i \in DOMAIN table : InWindow(w, table[i]) /\ Condition(f, table[i])}

-----------------------------------------------------------------------------
(* The order of the list.  SQLite sorts NULL below every value.            *)
accessLogSortValue(r, sort) == IF sort = "created_at" THEN r.at ELSE r.reason

Below(v, w) == w # NULL /\ (v # NULL => v < w)

OrderBy(sort, desc, i, j) ==
    LET v == accessLogSortValue(table[i], sort)
        w == accessLogSortValue(table[j], sort)
    IN  IF desc THEN Below(w, v) \/ (v = w /\ j < i)
                ELSE Below(v, w) \/ (v = w /\ i < j)

(* Variant: a keyset predicate that forgets the NULLs at the end.          *)
KeysetDroppingNulls(c, i) ==
    LET v == accessLogSortValue(table[i], c.sort)
    IN  /\ v # NULL
        /\ \/ c.value = NULL /\ ~c.desc
           \/ c.value # NULL /\ c.desc
              /\ (v < c.value \/ (v = c.value /\ i < c.id))
           \/ c.value # NULL /\ ~c.desc
              /\ (v > c.value \/ (v = c.value /\ i > c.id))

(* The rows behind a cursor.                                               *)
Keyset(c, i) ==
    LET v == accessLogSortValue(table[i], c.sort)
    IN  \/ c.value = NULL /\ c.desc /\ v = NULL /\ i < c.id
        \/ c.value = NULL /\ ~c.desc /\ (v # NULL \/ i > c.id)
        \/ c.value # NULL /\ c.desc
           /\ (v = NULL \/ v < c.value \/ (v = c.value /\ i < c.id))
        \/ c.value # NULL /\ ~c.desc
           /\ v # NULL /\ (v > c.value \/ (v = c.value /\ i > c.id))

EncodeCursor(sort, desc, i) ==
    [sort |-> sort, desc |-> desc, id |-> i,
     value |-> accessLogSortValue(table[i], sort)]

(* page is what ORDER BY and LIMIT make of the selected rows: its first    *)
(* limit rows, or all when there are fewer.                                *)
IsPage(page, selected, sort, desc, limit) ==
    /\ page \subseteq selected
    /\ \A i \in page, j \in selected \ page : OrderBy(sort, desc, i, j)
    /\ Cardinality(page) <= limit
    /\ Cardinality(page) < limit => page = selected

(* The next cursor: the last row of a full page; a short page is the last. *)
NextCursor(page, sort, desc, limit) ==
    IF Cardinality(page) = limit
    THEN EncodeCursor(sort, desc,
           CHOOSE i \in page : \A j \in page \ {i} : OrderBy(sort, desc, j, i))
    ELSE NoCursor

(* One request for a page: the first one, with a sort of the client's      *)
(* choice, and the following ones, which take the sort from the cursor.    *)
GetAccessLog(selected, sort, desc, f, w, limit) ==
    \E page \in SUBSET selected :
        /\ IsPage(page, selected, sort, desc, limit)
        /\ reader' = [kind |-> "list", filter |-> f, window |-> w,
                      sort |-> sort, desc |-> desc,
                      next |-> NextCursor(page, sort, desc, limit)]
        /\ got' = got \cup page
        /\ twice' = twice \cup (got \cap page)
        /\ UNCHANGED <<now, table>>

FirstPage(sort, desc, f, w, limit) ==
    LET selected == accessLogConditions(newAccessLogQuery(w), f)
    IN  /\ reader = Idle
        /\ GetAccessLog(selected, sort, desc, f, w, limit)
        /\ stable' = selected
        /\ ever' = {}

NextPage(limit) ==
    /\ reader.kind = "list"
    /\ reader.next # NoCursor
    /\ LET c == reader.next
           matching == accessLogConditions(newAccessLogQuery(reader.window),
                                           reader.filter)
       IN  /\ GetAccessLog({i \in matching : Keyset(c, i)}, c.sort, c.desc,
                           reader.filter, reader.window, limit)
           /\ stable' = stable \cap matching
    /\ UNCHANGED ever

-----------------------------------------------------------------------------
(* The histogram.                                                          *)
GranularityForWindow(d) ==
    LET fitting == {r \in Rung : d <= r.upTo}
    IN  IF fitting = {} THEN DayWidth
        ELSE (CHOOSE r \in fitting : \A s \in fitting : r.upTo <= s.upTo).width

TruncateToBucket(t, width) == t - (t % width)

Sequence(w, width) ==
    {b \in TruncateToBucket(w.from, width) .. w.to : b % width = 0}

GetAccessLogHistogram(f, w) ==
    LET q == newAccessLogQuery(w)
        width == GranularityForWindow(q.to - q.from)
    IN  /\ reader = Idle
        /\ reader' = [kind |-> "histogram", filter |-> f, window |-> q,
                      width |-> width, todo |-> Sequence(q, width),
                      count |-> [b \in Sequence(q, width) |->
                                   [allow |-> 0, deny |-> 0]]]
        /\ stable' = accessLogConditions(q, f)
        /\ ever' = Rows
        /\ UNCHANGED <<now, table, got, twice>>

(* Variant: a bucket that includes the start of the next one.              *)
BucketRowsInclusive(b, w, width, f) ==
    LET lower == IF w.from > b THEN w.from ELSE b
        next == b + width
    IN  {i \in DOMAIN table :
            /\ lower <= table[i].at
            /\ table[i].at <= (IF w.to < next THEN w.to ELSE next)
            /\ Condition(f, table[i])}

(* The range of one bucket, clipped to the window.                         *)
BucketRows(b, w, width, f) ==
    LET lower == IF w.from > b THEN w.from ELSE b
        next == b + width
    IN  {i \in DOMAIN table :
            /\ lower <= table[i].at
            /\ IF w.to < next THEN table[i].at <= w.to ELSE table[i].at < next
            /\ Condition(f, table[i])}

Allowed(ids) == {i \in ids : table[i].reason = NULL}

trafficBuckets ==
    /\ reader.kind = "histogram"
    /\ reader.todo # {}
    /\ LET b == CHOOSE x \in reader.todo : \A y \in reader.todo : x <= y
           ids == BucketRows(b, reader.window, reader.width, reader.filter)
       IN  reader' = [reader EXCEPT
             !.todo = @ \ {b},
             !.count[b] = [allow |-> Cardinality(Allowed(ids)),
                           deny |-> Cardinality(ids \ Allowed(ids))]]
    /\ UNCHANGED <<now, table, history>>

(* The client is done with an answer or gives up on a walk.                *)
Leave ==
    /\ reader # Idle
    /\ reader' = Idle
    /\ stable' = {} /\ ever' = {} /\ got' = {} /\ twice' = {}
    /\ UNCHANGED <<now, table>>

-----------------------------------------------------------------------------
(* What changes the table: the sink, which inserts a row some time after   *)
(* the decision, and retention.  The id of a new row is one more than the  *)
(* largest in the table.                                                   *)
NewId == 1 + (IF DOMAIN table = {} THEN 0
              ELSE CHOOSE i \in DOMAIN table : \A j \in DOMAIN table : j <= i)

BatchInsert(at, s) ==
    LET i == NewId
        row == [at |-> at, reason |-> s.reason, devs |-> s.devs]
    IN  /\ i \in Id
        /\ now - FlushDelay <= at /\ at <= now
        /\ table' = [x \in DOMAIN table \cup {i} |->
                        IF x = i THEN row ELSE table[x]]
        /\ ever' = IF reader.kind = "histogram"
                   THEN ever \cup {[id |-> i, row |-> row]} ELSE ever
        /\ UNCHANGED <<now, reader, stable, got, twice>>

DeleteOlderThan ==
    LET kept == {i \in DOMAIN table : table[i].at >= now - Retention}
    IN  /\ kept # DOMAIN table
        /\ table' = [i \in kept |-> table[i]]
        /\ stable' = stable \cap kept
        /\ UNCHANGED <<now, reader, ever, got, twice>>

Tick ==
    /\ now < MaxTime
    /\ now' = now + 1
    /\ UNCHANGED <<table, reader, history>>

Next ==
    \/ \E sort \in Sort, desc \in BOOLEAN, f \in Filter,
          w \in Window, limit \in 1 .. MaxLimit :
            FirstPage(sort, desc, f, w, limit)
    \/ \E limit \in 1 .. MaxLimit : NextPage(limit)
    \/ \E f \in Filter, w \in Window : GetAccessLogHistogram(f, w)
    \/ trafficBuckets
    \/ Leave
    \/ \E at \in Time, s \in Shape : BatchInsert(at, s)
    \/ DeleteOlderThan
    \/ Tick

Spec == Init /\ [][Next]_vars

-----------------------------------------------------------------------------
(* A walk shows every row that is there, and matches, at all its pages     *)
(* exactly once and in the order of the list, whatever is inserted and     *)
(* pruned between the pages (filterx/cursor.go: "adjacent pages never skip *)
(* or repeat rows"), and wherever NULL falls among the sort values: what   *)
(* it has shown so far comes before what it has yet to show, and nothing   *)
(* is left when a page carries no cursor.                                  *)
WalkIsComplete ==
    reader.kind = "list" =>
        /\ stable \cap twice = {}
        /\ \A i \in stable \cap got, j \in stable \ got :
              OrderBy(reader.sort, reader.desc, i, j)
        /\ reader.next = NoCursor => stable \subseteq got

(* The bars of the histogram partition the window of the list: a row that  *)
(* is there during all statements is counted in the bucket it falls into   *)
(* and in no other, at the edges of the buckets and of the window too, and *)
(* a bucket never counts more than the rows that were there at some time   *)
(* (access_log_histogram_view.go: "over exactly the rows GET /access-log   *)
(* lists for the same filters").                                           *)
HistogramIsExact ==
    reader.kind = "histogram" =>
        LET Bucket(r) == TruncateToBucket(r.at, reader.width)
            Possible(b) == {x \in ever : /\ Bucket(x.row) = b
                                         /\ InWindow(reader.window, x.row)
                                         /\ Condition(reader.filter, x.row)}
            Sure(b) == {i \in stable : Bucket(table[i]) = b}
            Within(n, low, high) == Cardinality(low) <= n /\ n <= Cardinality(high)
        IN  /\ \A i \in stable : Bucket(table[i]) \in DOMAIN reader.count
            /\ \A b \in DOMAIN reader.count \ reader.todo :
                 /\ Within(reader.count[b].allow, Allowed(Sure(b)),
                           {x \in Possible(b) : x.row.reason = NULL})
                 /\ Within(reader.count[b].deny, Sure(b) \ Allowed(Sure(b)),
                           {x \in Possible(b) : x.row.reason # NULL})
=============================================================================
