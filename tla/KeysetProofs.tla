------------------------------ MODULE KeysetProofs -----------------------------
(***************************************************************************)
(* Proofs about Keyset, for every table, every set of sort definitions and *)
(* every page size.                                                        *)
(***************************************************************************)
EXTENDS Keyset, TLAPS, FiniteSetTheorems

--------------------------------------------------------------------------------
(* OrderBy and WhereClause. *)

\* What the lemmas need of a row: its integers.
LEMMA RowValues ==
    ASSUME NEW q \in List, NEW r \in Row
    PROVE  /\ r.id \in Int
           /\ r.at[Definitions[q.sort].primary] \in Int
           /\ HasSecondary(Definitions[q.sort]) =>
                 r.at[Definitions[q.sort].secondary] \in Int
<1>1. Definitions[q.sort] \in Definition
  BY ConstantsAssumption DEF List
<1> QED
  BY <1>1, ConstantsAssumption DEF Row, Definition, HasSecondary

\* ORDER BY is a strict order ...
LEMMA FollowsIrreflexive ==
    ASSUME NEW q \in List, NEW r \in Row
    PROVE  ~Follows(q, r, r)
BY RowValues DEF Follows, Beyond

LEMMA FollowsTransitive ==
    ASSUME NEW q \in List, NEW r \in Row, NEW s \in Row, NEW t \in Row,
           Follows(q, r, s), Follows(q, s, t)
    PROVE  Follows(q, r, t)
BY RowValues DEF Follows, Beyond

\* ... that never leaves the place of two rows of one table open.
LEMMA FollowsTotal ==
    ASSUME NEW q \in List, NEW r \in Row, NEW s \in Row, r.id # s.id
    PROVE  Follows(q, r, s) \/ Follows(q, s, r)
BY RowValues DEF Follows, Beyond

\* The WHERE clause of a cursor selects what ORDER BY puts after its row.
LEMMA WhereIsAfter ==
    ASSUME NEW q \in List, NEW l \in Row, NEW r \in Row,
           NEW c, c = EncodeNextCursor(q, l)
    PROVE  WhereClause([sort |-> q.sort, order |-> q.order, cursor |-> c], r)
           <=> Follows(q, r, l)
<1>1. Definitions[q.sort] \in Definition /\ q.sort \in Sort /\ q.order \in Order
  BY ConstantsAssumption DEF List
<1>2. l.id \in Id /\ \A col \in Column : l.at[col] \in Value
  BY DEF Row
<1>3. c \in Cursor
  BY <1>1, <1>2 DEF EncodeNextCursor, Cursor, Text, Serialize, HasSecondary, Definition
<1>4. c # None
  BY <1>3, ConstantsAssumption
<1>5. /\ Parse(c.lastValue) = l.at[Definitions[q.sort].primary]
      /\ HasSecondary(Definitions[q.sort]) =>
            Parse(c.lastSecondary) = l.at[Definitions[q.sort].secondary]
      /\ c.lastID = l.id
  BY DEF EncodeNextCursor, Serialize, Parse
<1> QED
  BY <1>4, <1>5 DEF WhereClause, Follows

--------------------------------------------------------------------------------
(* The first and the last of finitely many rows. *)

LEMMA HasFirst ==
    ASSUME NEW q \in List, NEW S \in SUBSET Row, IsFiniteSet(S), S # {}
    PROVE  \E m \in S : \A s \in S : ~Follows(q, m, s)
<1> DEFINE Below(m) == {s \in S : Follows(q, m, s)}
           All == {Below(m) : m \in S}
<1>1. IsWellFoundedOn(StrictSubsetOrdering(S), SUBSET S)
  BY FS_StrictSubsetOrderingWellFounded, FS_FiniteSubsetsOfFinite
<1>2. All \subseteq SUBSET S /\ All # {}
  <2>1. \A m \in S : Below(m) \in SUBSET S
    OBVIOUS
  <2> HIDE DEF Below
  <2> QED
    BY <2>1
<1>3. PICK b \in All : \A a \in All : <<a, b>> \notin StrictSubsetOrdering(S)
  BY <1>1, <1>2, WFMin
<1>4. PICK m \in S : b = Below(m)
  BY <1>3
<1>5. ASSUME NEW s \in S, Follows(q, m, s) PROVE FALSE
  <2>1. Below(s) \subseteq Below(m) /\ s \in Below(m) /\ s \notin Below(s)
    BY <1>5, FollowsTransitive, FollowsIrreflexive
  <2>2. <<Below(s), b>> \in StrictSubsetOrdering(S)
    BY <1>4, <2>1 DEF StrictSubsetOrdering
  <2> QED
    BY <1>3, <2>2
<1> QED
  BY <1>5

LEMMA HasLast ==
    ASSUME NEW q \in List, NEW S \in SUBSET Row, IsFiniteSet(S), S # {},
           \A r, s \in S : r.id = s.id => r = s
    PROVE  Last(q, S) \in S /\ \A s \in S : s = Last(q, S) \/ Follows(q, Last(q, S), s)
<1> DEFINE Above(m) == {s \in S : Follows(q, s, m)}
           All == {Above(m) : m \in S}
<1>1. IsWellFoundedOn(StrictSubsetOrdering(S), SUBSET S)
  BY FS_StrictSubsetOrderingWellFounded, FS_FiniteSubsetsOfFinite
<1>2. All \subseteq SUBSET S /\ All # {}
  <2>1. \A m \in S : Above(m) \in SUBSET S
    OBVIOUS
  <2> HIDE DEF Above
  <2> QED
    BY <2>1
<1>3. PICK b \in All : \A a \in All : <<a, b>> \notin StrictSubsetOrdering(S)
  BY <1>1, <1>2, WFMin
<1>4. PICK m \in S : b = Above(m)
  BY <1>3
<1>5. ASSUME NEW s \in S, Follows(q, s, m) PROVE FALSE
  <2>1. Above(s) \subseteq Above(m) /\ s \in Above(m) /\ s \notin Above(s)
    BY <1>5, FollowsTransitive, FollowsIrreflexive
  <2>2. <<Above(s), b>> \in StrictSubsetOrdering(S)
    BY <1>4, <2>1 DEF StrictSubsetOrdering
  <2> QED
    BY <1>3, <2>2
<1>6. ASSUME NEW s \in S, s # m PROVE Follows(q, m, s)
  <2>1. s.id # m.id /\ s \in Row /\ m \in Row
    BY <1>6
  <2> QED
    BY <1>5, <2>1, FollowsTotal
<1> QED
  BY <1>6 DEF Last

\* A page is a beginning of what is selected: all of it when the page is short,
\* and otherwise every other row comes after the page's last.
LEMMA PageIsPrefix ==
    ASSUME NEW q, [sort |-> q.sort, order |-> q.order] \in List,
           TypeOK, IsFiniteSet(table)
    PROVE  LET list == [sort |-> q.sort, order |-> q.order] IN
           /\ Page(q) \subseteq Selected(q) /\ Selected(q) \subseteq table
           /\ Cardinality(Page(q)) < Limit => Page(q) = Selected(q)
           /\ ~(Cardinality(Page(q)) < Limit) =>
                 /\ Last(q, Page(q)) \in Page(q)
                 /\ \A s \in Page(q) : \/ s = Last(q, Page(q))
                                       \/ Follows(list, Last(q, Page(q)), s)
                 /\ \A s \in Selected(q) \ Page(q) : Follows(list, s, Last(q, Page(q)))
<1> DEFINE list == [sort |-> q.sort, order |-> q.order]
           S == Selected(q)
           P == Page(q)
           Below(r) == {s \in S : Follows(list, r, s)}
<1>1. list \in List /\ \A r, s : Follows(q, r, s) <=> Follows(list, r, s)
  BY DEF Follows
<1>2. P = {r \in S : Cardinality(Below(r)) < Limit}
  BY <1>1 DEF Page
<1>3. \A T : Last(q, T) = Last(list, T)
  BY <1>1 DEF Last
<1>4. S \subseteq table /\ S \subseteq Row /\ IsFiniteSet(S) /\ P \subseteq S
  BY FS_Subset DEF Selected, Page, TypeOK
<1>5. \A r, s \in S : r.id = s.id => r = s
  BY <1>4 DEF TypeOK
<1>6. \A T \in SUBSET S : IsFiniteSet(T) /\ Cardinality(T) \in Nat
  BY <1>4, FS_Subset, FS_CardinalityType
<1>7. Limit \in Nat /\ Limit > 0
  BY ConstantsAssumption
<1> HIDE DEF S, P, list
<1>8. ASSUME NEW r \in P, NEW s \in S, Follows(list, r, s) PROVE s \in P
  <2>1. Below(s) \subseteq Below(r)
    BY <1>1, <1>4, <1>8, FollowsTransitive
  <2>2. Cardinality(Below(s)) <= Cardinality(Below(r))
    BY <1>6, <2>1, FS_Subset
  <2> QED
    BY <1>2, <1>6, <1>7, <2>2
<1>9. ASSUME P # S PROVE ~(Cardinality(P) < Limit)
  <2>1. IsFiniteSet(S \ P) /\ S \ P # {} /\ S \ P \in SUBSET Row
    BY <1>4, <1>6, <1>9
  <2>2. PICK m \in S \ P : \A s \in S \ P : ~Follows(list, m, s)
    BY <1>1, <2>1, HasFirst
  <2>3. Below(m) \subseteq P
    BY <2>2
  <2>4. Cardinality(Below(m)) <= Cardinality(P)
    BY <1>4, <1>6, <2>3, FS_Subset
  <2>5. ~(Cardinality(Below(m)) < Limit)
    BY <1>2, <2>2
  <2> QED
    BY <1>4, <1>6, <1>7, <2>4, <2>5
<1>10. ASSUME ~(Cardinality(P) < Limit)
       PROVE  /\ Last(list, P) \in P
              /\ \A s \in P : s = Last(list, P) \/ Follows(list, Last(list, P), s)
              /\ \A s \in S \ P : Follows(list, s, Last(list, P))
  <2>1. P # {}
    BY <1>7, <1>10, FS_EmptySet
  <2>2. /\ Last(list, P) \in P
        /\ \A s \in P : s = Last(list, P) \/ Follows(list, Last(list, P), s)
    BY <1>1, <1>4, <1>5, <1>6, <2>1, HasLast
  <2>3. ASSUME NEW s \in S \ P PROVE Follows(list, s, Last(list, P))
    BY <1>1, <1>4, <1>5, <1>8, <2>2, FollowsTotal
  <2> QED
    BY <2>2, <2>3
<1> QED
  BY <1>3, <1>4, <1>9, <1>10 DEF S, P, list

--------------------------------------------------------------------------------
(***************************************************************************)
(* The invariant: the cursor is that of the last row received, and a row   *)
(* that has been there all the time is received already or comes after it. *)
(***************************************************************************)

CursorOK ==
    cursor # None =>
        \E l \in page :
            /\ cursor = EncodeNextCursor(listing, l)
            /\ \A s \in page : s = l \/ Follows(listing, l, s)
            /\ \A r \in kept : r \in seen \cup page \/ Follows(listing, r, l)

IInv ==
    /\ TypeOK
    /\ IsFiniteSet(table)
    /\ listing = None => seen = {} /\ page = {} /\ cursor = None
    /\ PagesAscend
    /\ CursorOK
    /\ NothingSkipped

LEMMA InitOK == Init => IInv
BY FS_EmptySet DEF Init, IInv, TypeOK, PagesAscend, CursorOK, NothingSkipped

\* A write adds nothing to kept and leaves what the client has alone.
LEMMA WriteOK ==
    ASSUME IInv, NEW r \in Content, Write(r) \/ Delete(r) PROVE IInv'
<1>1. TypeOK'
  BY ConstantsAssumption DEF IInv, TypeOK, Write, Delete
<1>2. IsFiniteSet(table)'
  <2>1. table' \subseteq table \cup {r}
    BY DEF Write, Delete
  <2> QED
    BY <2>1, FS_AddElement, FS_Subset DEF IInv
<1>3. kept' \subseteq kept /\ UNCHANGED <<listing, cursor, seen, page>>
  BY DEF Write, Delete
<1> QED
  BY <1>1, <1>2, <1>3 DEF IInv, PagesAscend, CursorOK, NothingSkipped

\* What a fetch leaves behind.
LEMMA FetchOK ==
    ASSUME IInv, NEW q, [sort |-> q.sort, order |-> q.order] \in List, Fetch(q)
    PROVE  /\ listing' = [sort |-> q.sort, order |-> q.order] /\ listing' # None
           /\ page' \subseteq Selected(q) /\ page' \subseteq table
           /\ \/ cursor' = None /\ page' = Selected(q)
              \/ /\ cursor' \in Cursor
                 /\ HasSecondary(Definitions[q.sort]) <=> cursor'.lastSecondary # None
                 /\ cursor'.sort = q.sort
                 /\ \E l \in page' :
                       /\ cursor' = EncodeNextCursor(listing', l)
                       /\ \A s \in page' : s = l \/ Follows(listing', l, s)
                       /\ \A s \in Selected(q) \ page' : Follows(listing', s, l)
<1> DEFINE list == [sort |-> q.sort, order |-> q.order]
           l == Last(q, Page(q))
<1>1. listing' = list /\ page' = Page(q) /\ list # None /\ list \in List
  BY ConstantsAssumption DEF Fetch
<1>2. page' \subseteq Selected(q) /\ page' \subseteq table
  BY <1>1, PageIsPrefix DEF IInv
<1>3. CASE Cardinality(Page(q)) < Limit
  BY <1>1, <1>2, <1>3, PageIsPrefix DEF IInv, Fetch
<1>4. CASE ~(Cardinality(Page(q)) < Limit)
  <2>1. cursor' = EncodeNextCursor(q, l) /\ EncodeNextCursor(q, l) = EncodeNextCursor(list, l)
    BY <1>4 DEF Fetch, EncodeNextCursor
  <2>2. /\ l \in Page(q)
        /\ \A s \in Page(q) : s = l \/ Follows(list, l, s)
        /\ \A s \in Selected(q) \ Page(q) : Follows(list, s, l)
    BY <1>4, PageIsPrefix DEF IInv
  <2>3. l \in Row
    BY <1>1, <1>2, <2>2 DEF IInv, TypeOK
  <2>4. Definitions[q.sort] \in Definition /\ q.sort \in Sort /\ q.order \in Order
    BY <1>1, ConstantsAssumption DEF List
  <2>5. l.id \in Id /\ \A col \in Column : l.at[col] \in Value
    BY <2>3 DEF Row
  <2>6. /\ EncodeNextCursor(q, l) \in Cursor /\ EncodeNextCursor(q, l).sort = q.sort
        /\ HasSecondary(Definitions[q.sort])
              <=> EncodeNextCursor(q, l).lastSecondary # None
    BY <2>4, <2>5, ConstantsAssumption
       DEF EncodeNextCursor, Cursor, Text, Serialize, HasSecondary, Definition
  <2> QED
    BY <1>1, <1>2, <2>1, <2>2, <2>6
<1> QED
  BY <1>3, <1>4

\* The first page begins a new list: nothing seen, everything kept selected.
LEMMA StartOK ==
    ASSUME IInv, NEW sort \in Sort, NEW order \in Order, Start(sort, order)
    PROVE  IInv'
<1> DEFINE q == [sort |-> sort, order |-> order, cursor |-> None]
<1>1. [sort |-> q.sort, order |-> q.order] \in List /\ Fetch(q)
  BY DEF List, Start
<1>2. Selected(q) = table
  BY DEF Selected, WhereClause
<1>3. UNCHANGED table /\ seen' = {} /\ kept' = table
  BY DEF Start, Fetch
<1> HIDE DEF q
<1>4. TypeOK'
  BY <1>1, <1>3, FetchOK DEF IInv, TypeOK
<1>5. PagesAscend'
  BY <1>3 DEF PagesAscend
<1>6. CursorOK' /\ NothingSkipped'
  <2>1. CASE cursor' = None
    BY <1>1, <1>2, <1>3, <2>1, FetchOK, ConstantsAssumption DEF CursorOK, NothingSkipped
  <2>2. CASE cursor' # None
    <3>1. PICK l \in page' :
              /\ cursor' = EncodeNextCursor(listing', l)
              /\ \A s \in page' : s = l \/ Follows(listing', l, s)
              /\ \A s \in Selected(q) \ page' : Follows(listing', s, l)
      BY <1>1, <2>2, FetchOK
    <3>2. \A r \in kept' : r \in seen' \cup page' \/ Follows(listing', r, l)
      BY <1>2, <1>3, <3>1
    <3> QED
      BY <2>2, <3>1, <3>2 DEF CursorOK, NothingSkipped
  <2> QED
    BY <2>1, <2>2
<1> QED
  BY <1>1, <1>3, <1>4, <1>5, <1>6, FetchOK DEF IInv

\* The page of a cursor lies after everything seen, and misses nothing kept.
LEMMA ContinueOK ==
    ASSUME IInv, NEW sort \in Sort, NEW order \in Order, Continue(sort, order)
    PROVE  IInv'
<1> DEFINE q == [sort |-> sort, order |-> order, cursor |-> cursor]
<1>1. [sort |-> q.sort, order |-> q.order] \in List /\ Fetch(q) /\ cursor # None
  BY DEF List, Continue
<1>2. UNCHANGED <<table, kept>> /\ seen' = seen \cup page
  BY DEF Continue, Fetch
<1>3. PICK l \in page :
        /\ cursor = EncodeNextCursor(listing, l)
        /\ \A s \in page : s = l \/ Follows(listing, l, s)
        /\ \A r \in kept : r \in seen \cup page \/ Follows(listing, r, l)
  BY <1>1 DEF IInv, CursorOK
<1>4. listing \in List /\ listing = [sort |-> sort, order |-> order]
  <2>1. listing \in List
    BY <1>1 DEF IInv, TypeOK
  <2>2. cursor.sort = listing.sort /\ cursor.order = listing.order
    BY <1>3 DEF EncodeNextCursor
  <2>3. cursor.sort = sort /\ cursor.order = order
    BY <1>1 DEF Fetch, Accepts
  <2> QED
    BY <2>1, <2>2, <2>3 DEF List
<1>5. seen \subseteq Row /\ page \subseteq Row /\ kept \subseteq table /\ table \subseteq Row
  BY DEF IInv, TypeOK
<1>6. \A r \in Row : WhereClause(q, r) <=> Follows(listing, r, l)
  <2>1. q = [sort |-> listing.sort, order |-> listing.order, cursor |-> cursor]
    BY <1>4
  <2> QED
    BY <1>3, <1>4, <1>5, <2>1, WhereIsAfter
<1>7. Selected(q) = {r \in table : Follows(listing, r, l)}
  BY <1>5, <1>6 DEF Selected
<1>8. listing' = listing
  BY <1>1, <1>4, FetchOK
<1> HIDE DEF q
<1>9. TypeOK'
  BY <1>1, <1>2, <1>5, FetchOK DEF IInv, TypeOK
<1>10. PagesAscend'
  <2>1. ASSUME NEW r \in seen \cup page PROVE r = l \/ Follows(listing, l, r)
    BY <1>3 DEF IInv, PagesAscend
  <2>2. \A s \in page' : s \in Row /\ Follows(listing, s, l)
    BY <1>1, <1>5, <1>7, FetchOK
  <2>3. ASSUME NEW r \in seen \cup page, NEW s \in page' PROVE Follows(listing, s, r)
    BY <1>3, <1>4, <1>5, <2>1, <2>2, FollowsTransitive
  <2> QED
    BY <1>2, <1>8, <2>3 DEF PagesAscend
<1>11. \A r \in kept' : r \in seen' \/ r \in Selected(q)
  BY <1>2, <1>3, <1>5, <1>7
<1>12. CursorOK' /\ NothingSkipped'
  <2>1. CASE cursor' = None
    <3>1. page' = Selected(q)
      BY <1>1, <2>1, FetchOK, ConstantsAssumption
    <3> QED
      BY <1>11, <2>1, <3>1 DEF CursorOK, NothingSkipped
  <2>2. CASE cursor' # None
    <3>1. PICK k \in page' :
              /\ cursor' = EncodeNextCursor(listing', k)
              /\ \A s \in page' : s = k \/ Follows(listing', k, s)
              /\ \A s \in Selected(q) \ page' : Follows(listing', s, k)
      BY <1>1, <2>2, FetchOK
    <3>2. \A r \in kept' : r \in seen' \cup page' \/ Follows(listing', r, k)
      BY <1>11, <3>1
    <3> QED
      BY <2>2, <3>1, <3>2 DEF CursorOK, NothingSkipped
  <2> QED
    BY <2>1, <2>2
<1> QED
  BY <1>1, <1>2, <1>9, <1>10, <1>12, FetchOK DEF IInv

LEMMA NextOK == IInv /\ [Next]_vars => IInv'
<1> SUFFICES ASSUME IInv, [Next]_vars PROVE IInv'
  OBVIOUS
<1>1. CASE UNCHANGED vars
  BY <1>1 DEF vars, IInv, TypeOK, PagesAscend, CursorOK, NothingSkipped
<1> QED
  BY <1>1, WriteOK, StartOK, ContinueOK DEF Next

LEMMA InvariantHolds == Spec => []IInv
<1> QED
  BY InitOK, NextOK, PTL DEF Spec

--------------------------------------------------------------------------------
\* Every variable keeps its type, and cursors fit their sort's definition.
THEOREM TypeCorrect == Spec => []TypeOK
BY InvariantHolds, PTL DEF IInv

\* No page repeats a row or goes back, whatever is written in between.
THEOREM Ascending == Spec => []PagesAscend
BY InvariantHolds, PTL DEF IInv

\* A list read to its end has every row that was there all the time.
THEOREM Complete == Spec => []NothingSkipped
BY InvariantHolds, PTL DEF IInv

================================================================================
