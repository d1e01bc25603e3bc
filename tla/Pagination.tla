---------------------------- MODULE Pagination ----------------------------
(***************************************************************************)
(* Walking a table page by page with CursorBuilder (query/cursor.go) while *)
(* other clients insert and delete rows.  Each page is one Fetch, whose    *)
(* cursor carries the OrderBy value of the last row seen, through JSON.    *)
(***************************************************************************)
EXTENDS Integers, Sequences, SequencesExt, FiniteSets

CONSTANTS
    PageIds, Key,           \* rows that may exist, and their OrderBy values (integers)
    Exact,              \* 2^53 in the code: below it a float64 holds any integer
    PageSize, DefaultLimit, MaxChanges
ASSUME PaginationAssumption ==
    /\ IsFiniteSet(PageIds)
    /\ Key \in [PageIds -> Nat]
    /\ {Exact, PageSize, DefaultLimit, MaxChanges} \subseteq Nat \ {0}

VARIABLES
    present,    \* ids of the rows now in the table
    steady,     \* ids that were in the table during the whole walk
    walk,       \* "idle", "forward", "backward", "default", "ended"
    desc,       \* OrderDesc
    cursor,     \* the cursor for the next Fetch: NoCursor or a value
    visited,    \* ids in the order of the pages delivered
    changes     \* inserts and deletes so far
pageVars == <<present, steady, walk, desc, cursor, visited, changes>>

NoCursor == -1

\* EncodeCursor and DecodeCursor: the value leaves as JSON and comes back as a
\* float64, which rounds to even from 2^53 on.
Decoded(v) == IF v < Exact THEN v ELSE 2 * (v \div 2)

PageInit ==
    /\ present \in SUBSET PageIds
    /\ steady = present
    /\ walk = "idle"
    /\ desc \in BOOLEAN
    /\ cursor = NoCursor
    /\ visited = <<>>
    /\ changes = 0

\* Mutant: >= and <=.
MutBeyond(up) == {i \in present : \/ cursor = NoCursor
                                  \/ IF up THEN Key[i] >= cursor ELSE Key[i] =< cursor}
\* Rows beyond the cursor.  The comparison is strict on the OrderBy value alone:
\* the id in the cursor is not used.
Beyond(up) == {i \in present : \/ cursor = NoCursor
                               \/ IF up THEN Key[i] > cursor ELSE Key[i] < cursor}
\* What the database may answer to ORDER BY and LIMIT: the first rows of S, those
\* with equal values in any order, also another one from one Fetch to the next.
NotAfter(x, y, up) == IF up THEN Key[x] <= Key[y] ELSE Key[x] >= Key[y]
Sorted(S, up, limit) ==
    {s \in [1 .. (IF Cardinality(S) < limit THEN Cardinality(S) ELSE limit) -> S] :
        /\ IsInjective(s)
        /\ \A m \in DOMAIN s : /\ \A n \in DOMAIN s : m < n => NotAfter(s[m], s[n], up)
                               /\ \A y \in S \ Range(s) : NotAfter(s[m], y, up)}

\* Fetch with First (or neither) and After, or with Last and Before: limit + 1
\* rows are read, in reversed order for Last; the page is cut to limit.
PageOf(found, last, limit) ==
    LET more == Len(found) > limit
        items == IF more THEN SubSeq(found, 1, limit) ELSE found
    IN  [items |-> IF last THEN Reverse(items) ELSE items, hasMore |-> more]
Fetch(last, limit) ==
    LET up == (desc = last)
    IN  {PageOf(found, last, limit) : found \in Sorted(Beyond(up), up, limit + 1)}

Begin(mode) ==
    /\ walk = "idle"
    /\ walk' = mode
    /\ UNCHANGED <<present, steady, desc, cursor, visited, changes>>

\* Forward: First = PageSize, After = the EndCursor, while HasNextPage.
NextPage ==
    /\ walk = "forward"
    /\ \E p \in Fetch(FALSE, PageSize) :
          /\ visited' = visited \o p.items
          /\ walk' = IF p.hasMore THEN walk ELSE "ended"
          /\ cursor' = IF p.items = <<>> THEN cursor ELSE Decoded(Key[Last(p.items)])
    /\ UNCHANGED <<present, steady, desc, changes>>

\* Backward: Last = PageSize, Before = the StartCursor, while HasPreviousPage.
PreviousPage ==
    /\ walk = "backward"
    /\ \E p \in Fetch(TRUE, PageSize) :
          /\ visited' = p.items \o visited
          /\ walk' = IF p.hasMore THEN walk ELSE "ended"
          /\ cursor' = IF p.items = <<>> THEN cursor ELSE Decoded(Key[Head(p.items)])
    /\ UNCHANGED <<present, steady, desc, changes>>

\* Neither First nor Last: the default limit, and HasNextPage is only set once
\* an After is given, so a walk that asks for it stops at the first page.
DefaultPage ==
    /\ walk = "default"
    /\ \E p \in Fetch(FALSE, DefaultLimit) : visited' = p.items
    /\ walk' = "cut"
    /\ UNCHANGED <<present, steady, desc, cursor, changes>>

\* First together with Last, or After with Before, or no OrderBy: an error.
InvalidFetch ==
    /\ walk = "idle"
    /\ walk' = "failed"
    /\ UNCHANGED <<present, steady, desc, cursor, visited, changes>>

\* Other clients.
InsertRow(i) ==
    /\ changes < MaxChanges /\ i \notin present
    /\ present' = present \cup {i}
    /\ steady' = steady \ {i}
    /\ changes' = changes + 1
    /\ UNCHANGED <<walk, desc, cursor, visited>>
DeleteRow(i) ==
    /\ changes < MaxChanges /\ i \in present
    /\ present' = present \ {i}
    /\ steady' = steady \ {i}
    /\ changes' = changes + 1
    /\ UNCHANGED <<walk, desc, cursor, visited>>

Running == walk \in {"forward", "backward"}
Bounded == Len(visited) <= 2 * Cardinality(PageIds)      \* a walk over rounded keys can repeat for ever
PageNext ==
    \/ \E mode \in {"forward", "backward", "default"} : Begin(mode)
    \/ InvalidFetch \/ DefaultPage
    \/ Bounded /\ (NextPage \/ PreviousPage)
    \/ Running /\ \E i \in PageIds : InsertRow(i) \/ DeleteRow(i)
PageSpec == PageInit /\ [][PageNext]_pageVars

\* Rows whose OrderBy value survives the cursor and is theirs alone.
Distinct(i) == Key[i] < Exact - 1 /\ \A j \in PageIds \ {i} : Key[j] # Key[i]
Times(i) == Cardinality({n \in DOMAIN visited : visited[n] = i})

\* However rows come and go between the pages, a walk in either direction shows
\* no row with a distinct OrderBy value twice, keeps the order asked for, and when HasNextPage
\* (HasPreviousPage) is false has shown every such row that was there all the
\* time (cursor.go Fetch).
WalkIsExact ==
    /\ \A i \in PageIds : Distinct(i) => Times(i) <= 1
    /\ \A m, n \in DOMAIN visited :
          (m < n /\ Distinct(visited[m]) /\ Distinct(visited[n])) =>
             IF desc THEN Key[visited[m]] > Key[visited[n]] ELSE Key[visited[m]] < Key[visited[n]]
    /\ walk = "ended" => \A i \in steady : Distinct(i) => Times(i) = 1
=============================================================================
