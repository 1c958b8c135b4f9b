---------------------------- MODULE UserListing ----------------------------
(***************************************************************************)
(* The pages of the administrators' user listing (list_users_page in       *)
(* core/database.rs): keyset pagination over the users table.              *)
(*                                                                         *)
(* Ids are numbers (snowflakes).  "key" gives every row of the table the   *)
(* value it is sorted by: created_at for the sorts "newest" and "oldest",  *)
(* the lower-cased name for "username".  A cursor is the sort value and id *)
(* of a row; the code encodes it as text tagged with its sort.  Filters    *)
(* are SQL conditions on single rows and are left out: the rows given are  *)
(* the matching ones.                                                      *)
(***************************************************************************)
EXTENDS Naturals, FiniteSets

Sorts == {"newest", "oldest", "username"}

\* The row at <<x, i>> comes before the row at <<y, j>> in the order of the sort.
Precedes(sort, a, b) ==
    LET less(p, q) == p[1] < q[1] \/ (p[1] = q[1] /\ p[2] < q[2])
    IN  IF sort = "newest" THEN less(b, a) ELSE less(a, b)

\* The first n elements of a set of ids.
FirstOf(n, ids, key, sort) ==
    {u \in ids : Cardinality({v \in ids : Precedes(sort, <<key[v], v>>, <<key[u], u>>)}) < n}

\* The keyset condition; the first page has no cursor.
After(sort, cursor, at) == cursor = <<>> \/ Precedes(sort, cursor, at)

\* One row more than the page holds is fetched, to see whether there are more.
Fetched(rows, key, sort, limit, cursor) ==
    FirstOf(limit + 1, {u \in rows : After(sort, cursor, <<key[u], u>>)}, key, sort)

\* decode_stored_rows: malformed rows are skipped.
Page(rows, malformed, key, sort, limit, cursor) ==
    FirstOf(limit, Fetched(rows, key, sort, limit, cursor) \ malformed, key, sort)

\* Mutant: the cursor is the last row fetched, which the page may not show.
NextCursor_LastFetched(rows, malformed, key, sort, limit, cursor) ==
    LET fetched == Fetched(rows, key, sort, limit, cursor)
        last == CHOOSE u \in fetched : \A v \in fetched \ {u} :
                    Precedes(sort, <<key[v], v>>, <<key[u], u>>)
    IN  IF Cardinality(fetched) > limit THEN <<key[last], last>> ELSE <<>>

\* The cursor of the next page is the last row shown, if rows were left; <<>>
\* tells the client that it has seen everything.
NextCursor(rows, malformed, key, sort, limit, cursor) ==
    LET page == Page(rows, malformed, key, sort, limit, cursor)
        last == CHOOSE u \in page : \A v \in page \ {u} :
                    Precedes(sort, <<key[v], v>>, <<key[u], u>>)
    IN  IF Cardinality(Fetched(rows, key, sort, limit, cursor)) > limit /\ page # {}
        THEN <<key[last], last>> ELSE <<>>
=============================================================================
