--------------------------------- MODULE Keyset --------------------------------
(***************************************************************************)
(* Keyset pagination (internal/keyset/keyset.go): a client lists a table   *)
(* page by page while other processes write to it.                         *)
(*                                                                         *)
(* The package builds the ORDER BY and WHERE clauses and the cursors; the  *)
(* SELECT and the LIMIT are its caller's.  A page is the set of its rows.  *)
(***************************************************************************)
EXTENDS Integers, FiniteSets

CONSTANTS Id,           \* primary keys of the listed table
          Column,       \* the columns a list can be sorted by
          Value,        \* their values, in the order PostgreSQL gives them
          Sort,         \* the sorts a client may ask for
          Definitions,  \* the SortDefinition of each sort
          Content,      \* the rows that are written to the table
          Limit,        \* rows of a page
          None          \* Go's nil and "", and no page or cursor yet

Order == {"asc", "desc"}
Row == [id : Id, at : [Column -> Value]]
Definition == [primary : Column, secondary : Column \cup {None}]
List == [sort : Sort, order : Order]
Text == [text : Value]
Cursor == [sort : Sort, order : Order, lastValue : Text,
           lastSecondary : Text \cup {None}, lastID : Id]

ASSUME ConstantsAssumption ==
    /\ Id \subseteq Int /\ Value \subseteq Int
    /\ Definitions \in [Sort -> Definition]
    /\ Limit \in Nat \ {0}
    /\ Content \subseteq Row
    /\ None \notin Column \cup List \cup Text \cup Cursor

VARIABLES
    table,    \* the rows of the listed table
    listing,  \* the sort and order of the list the client is reading
    cursor,   \* the NextCursor of the last page, None after the last one
    seen,     \* the rows of the pages before the last one
    page,     \* the rows of the last page the client has received
    kept      \* history: rows in the table ever since the first page

vars == <<table, listing, cursor, seen, page, kept>>

--------------------------------------------------------------------------------
(* Cursors. *)

\* Codec.Serialize and Codec.Parse: StringCodec copies, RFC3339TimeCodec writes
\* the time in UTC with all its nanoseconds.
Serialize(v) == [text |-> v]
Parse(c) == c.text

HasSecondary(d) == d.secondary # None

\* A bug: the secondary value is left out of the cursor.
EncodePrimaryOnly(q, r) ==
    [sort |-> q.sort, order |-> q.order,
     lastValue |-> Serialize(r.at[Definitions[q.sort].primary]),
     lastSecondary |-> None, lastID |-> r.id]

EncodeNextCursor(q, r) ==
    LET d == Definitions[q.sort] IN
    [sort |-> q.sort, order |-> q.order,
     lastValue |-> Serialize(r.at[d.primary]),
     lastSecondary |-> IF HasSecondary(d) THEN Serialize(r.at[d.secondary]) ELSE None,
     lastID |-> r.id]

\* A bug: a cursor continues whatever list the query names.
AcceptsAnyCursor(q) == q.sort \in Sort /\ q.order \in Order

\* NewPlan yields no error.
Accepts(q) ==
    /\ q.sort \in Sort /\ q.order \in Order
    /\ q.cursor # None =>
          /\ q.cursor.sort = q.sort /\ q.cursor.order = q.order
          /\ HasSecondary(Definitions[q.sort]) => q.cursor.lastSecondary # None

--------------------------------------------------------------------------------
(* The clauses of a plan. *)

\* The operator of WhereClause and the direction of OrderBy.
Beyond(order, a, b) == IF order = "desc" THEN a < b ELSE a > b

\* OrderBy: r comes after s.
Follows(q, r, s) ==
    LET p == Definitions[q.sort].primary
        c == Definitions[q.sort].secondary IN
    \/ Beyond(q.order, r.at[p], s.at[p])
    \/ /\ r.at[p] = s.at[p]
       /\ IF HasSecondary(Definitions[q.sort])
          THEN \/ Beyond(q.order, r.at[c], s.at[c])
               \/ r.at[c] = s.at[c] /\ Beyond(q.order, r.id, s.id)
          ELSE Beyond(q.order, r.id, s.id)

\* A bug: with a secondary column the id no longer breaks ties.
WhereClauseWithoutId(q, r) ==
    LET d == Definitions[q.sort]
        first == Parse(q.cursor.lastValue) IN
    \/ q.cursor = None
    \/ Beyond(q.order, r.at[d.primary], first)
    \/ /\ ~HasSecondary(d)
       /\ r.at[d.primary] = first /\ Beyond(q.order, r.id, q.cursor.lastID)
    \/ /\ HasSecondary(d)
       /\ r.at[d.primary] = first
       /\ Beyond(q.order, r.at[d.secondary], Parse(q.cursor.lastSecondary))

\* WhereClause: r is selected.
WhereClause(q, r) ==
    LET d == Definitions[q.sort]
        first == Parse(q.cursor.lastValue)
        second == Parse(q.cursor.lastSecondary) IN
    \/ q.cursor = None
    \/ Beyond(q.order, r.at[d.primary], first)
    \/ /\ ~HasSecondary(d)
       /\ r.at[d.primary] = first /\ Beyond(q.order, r.id, q.cursor.lastID)
    \/ /\ HasSecondary(d)
       /\ r.at[d.primary] = first /\ Beyond(q.order, r.at[d.secondary], second)
    \/ /\ HasSecondary(d)
       /\ r.at[d.primary] = first /\ r.at[d.secondary] = second
       /\ Beyond(q.order, r.id, q.cursor.lastID)

--------------------------------------------------------------------------------
(* The caller. *)

Selected(q) == {r \in table : WhereClause(q, r)}

\* SELECT ... WHERE ... ORDER BY ... LIMIT.
Page(q) ==
    {r \in Selected(q) : Cardinality({s \in Selected(q) : Follows(q, r, s)}) < Limit}

Last(q, rows) == CHOOSE r \in rows : \A s \in rows : s = r \/ Follows(q, r, s)

Init ==
    /\ table = {}
    /\ listing = None
    /\ cursor = None
    /\ seen = {}
    /\ page = {}
    /\ kept = {}

\* Another process inserts a row, or updates the one with its id.
Write(r) ==
    /\ table' = {s \in table : s.id # r.id} \cup {r}
    /\ kept' = kept \cap table'
    /\ UNCHANGED <<listing, cursor, seen, page>>

Delete(r) ==
    /\ r \in table
    /\ table' = table \ {r}
    /\ kept' = kept \cap table'
    /\ UNCHANGED <<listing, cursor, seen, page>>

\* NewPlan and the SELECT of one page; its last row makes the next cursor,
\* unless it is short.  A query NewPlan refuses changes nothing.
Fetch(q) ==
    /\ Accepts(q)
    /\ page' = Page(q)
    /\ listing' = [sort |-> q.sort, order |-> q.order]
    /\ cursor' = IF Cardinality(Page(q)) < Limit THEN None
                 ELSE EncodeNextCursor(q, Last(q, Page(q)))
    /\ UNCHANGED table

\* The client asks for the first page of a list ...
Start(sort, order) ==
    /\ Fetch([sort |-> sort, order |-> order, cursor |-> None])
    /\ seen' = {}
    /\ kept' = table

\* ... or hands in the cursor it was given, with whatever sort and order.
Continue(sort, order) ==
    /\ cursor # None
    /\ Fetch([sort |-> sort, order |-> order, cursor |-> cursor])
    /\ seen' = seen \cup page
    /\ UNCHANGED kept

Next ==
    \/ \E r \in Content : Write(r) \/ Delete(r)
    \/ \E sort \in Sort, order \in Order : Start(sort, order) \/ Continue(sort, order)

Spec == Init /\ [][Next]_vars

--------------------------------------------------------------------------------
\* Every variable has its type; ids are unique, and a cursor has a secondary
\* value exactly when its sort has a secondary column.
TypeOK ==
    /\ table \subseteq Row /\ \A r, s \in table : r.id = s.id => r = s
    /\ listing \in List \cup {None}
    /\ cursor \in Cursor \cup {None}
    /\ cursor # None =>
          (HasSecondary(Definitions[cursor.sort]) <=> cursor.lastSecondary # None)
    /\ seen \subseteq Row /\ page \subseteq Row
    /\ kept \subseteq table

\* Whatever is written between two pages, and whatever sort the client names
\* with its cursor, no page repeats a row or goes back behind an earlier page.
PagesAscend ==
    \A r \in seen, s \in page : Follows(listing, s, r)

\* A client that has read a list to its end has received every row that was in
\* the table all the time, unchanged, wherever ties and page ends fell.
NothingSkipped ==
    listing # None /\ cursor = None => kept \subseteq seen \cup page

================================================================================
