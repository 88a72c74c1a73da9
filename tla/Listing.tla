------------------------------- MODULE Listing -------------------------------
(***************************************************************************)
(* A client walks the pages of a list (GenericRepository.List and the      *)
(* orderings of the catalog's repositories) while rows are inserted,       *)
(* changed and deleted.  A page is one query with ORDER BY, LIMIT and,     *)
(* from the second page on, a WHERE clause made from the page token, which *)
(* holds the sort value and the id of the last row of the page before.     *)
(*                                                                         *)
(* A page is a set of rows here, with its last row: what the properties    *)
(* tell apart is which rows a page has, not how they are arranged in it.   *)
(***************************************************************************)
EXTENDS Integers, FiniteSets

CONSTANTS Id,         \* ids of rows, in the order of their creation
          Values,     \* sort values of rows
          Long,       \* those whose token has more than 1024 characters
          Orderings,  \* the orderBy of the walks considered
          PageSizes,
          MaxChanges  \* bound: changes of the table during the walk

ASSUME IdAssumption == Id \subseteq Nat /\ IsFiniteSet(Id)
ASSUME ValuesAssumption == Values \subseteq Nat
ASSUME OrderingsAssumption == Orderings \subseteq {"id", "column", "name", "property"}
ASSUME SizeAssumption == PageSizes \subseteq Nat \ {0} /\ MaxChanges \in Nat

(* A row without the property has the sort value NULL; 0 is the empty      *)
(* string.  Absent rows are those not inserted yet, or deleted.            *)
NULL == -1
Absent == -2
EmptyString == 0

(* Ids and times are numbers, whose tokens are short.                      *)
ASSUME LongAssumption == Long \subseteq Values \ (Id \cup {EmptyString})

VARIABLES
    orderBy, sortOrder, pageSize, \* the client's request
    table,     \* per id: the sort value of the row
    phase,     \* of the walk: a page is fetched, its token made, or all is
               \* done, or the token refused
    last,      \* id of the last row of the page
    lastValue, \* and its sort value as the page had it
    token,     \* the cursor the next page starts from, or NoToken
    returned,  \* history: how often each row was returned, 2 for more than once
    touched,   \* history: rows inserted, changed or deleted during the walk
    misled,    \* history: a token that does not say where its page ended
    changes

request == <<orderBy, sortOrder, pageSize>>
walk == <<phase, last, lastValue, token, returned, misled>>
vars == <<request, table, walk, touched, changes>>

Cursor == [value : Values \cup Id \cup {NULL}, id : Id]
NoToken == [value |-> Absent, id |-> Absent]

Rows == {i \in Id : table[i] # Absent}

(* The sort value of row i, of value v.                                    *)
Key(v, i) == IF orderBy = "id" THEN i ELSE v

(* The sort values a row can have.                                         *)
Sortable == CASE orderBy = "property" -> Values \cup {NULL}
              [] orderBy = "column"   -> Values \ Long
              [] OTHER                -> Values

Init ==
    /\ orderBy \in Orderings /\ sortOrder \in {"ASC", "DESC"} /\ pageSize \in PageSizes
    /\ table \in [Id -> Sortable \cup {Absent}]
    /\ phase = "page"
    /\ last = Absent /\ lastValue = Absent
    /\ token = NoToken
    /\ returned = [i \in Id |-> 0]
    /\ touched = {}
    /\ misled = FALSE
    /\ changes = 0

-----------------------------------------------------------------------------
Less(v, w) == IF sortOrder = "ASC" THEN v < w ELSE v > w

(* ORDER BY: whether a row of sort value v and id i comes before one of w  *)
(* and j.  The standard pagination orders by its column alone.             *)
PaginateWithOptions(v, w) == Less(v, w)

(* NAME and properties have the id, ascending, for a tie-breaker, and rows *)
(* without the property come last.                                         *)
ApplyCustomOrdering(v, i, w, j) ==
    \/ v # NULL /\ (w = NULL \/ Less(v, w))
    \/ v = w /\ i < j

(* WHERE: whether a row of sort value v and id i is behind cursor c.       *)
BuildWhereClause(c, v, i) == Less(c.value, v) \/ (v = c.value /\ Less(c.id, i))

(* Mutant: no tie-breaker.                                                 *)
CursorFromValue(c, v, i) ==
    \/ c.value # NULL /\ (v = NULL \/ Less(c.value, v))
    \/ v = c.value

(* Mutant: rows without the property are forgotten.                        *)
CursorNotNull(c, v, i) ==
    \/ v # NULL /\ Less(c.value, v)
    \/ v = c.value /\ i > c.id

ApplyCursorPagination(c, v, i) ==
    \/ c.value # NULL /\ (v = NULL \/ Less(c.value, v))
    \/ v = c.value /\ i > c.id

Standard == orderBy \in {"id", "column"}

Before(v, i, w, j) ==
    IF Standard THEN PaginateWithOptions(v, w) ELSE ApplyCustomOrdering(v, i, w, j)

Where(c, v, i) ==
    IF Standard THEN BuildWhereClause(c, v, i) ELSE ApplyCursorPagination(c, v, i)

Matching == {i \in Rows : token = NoToken \/ Where(token, Key(table[i], i), i)}

RowBefore(i, j) == Before(Key(table[i], i), i, Key(table[j], j), j)

(* DecodeCursor() refuses a token of more than 1024 characters, which the  *)
(* server itself made from a long value: the client gets an error instead  *)
(* of the page.                                                            *)
TooLong == token.value \in Long

RefuseToken ==
    /\ phase = "page" /\ TooLong
    /\ phase' = "refused"
    /\ UNCHANGED <<request, table, last, lastValue, token, returned, touched, misled, changes>>

(* Once, or more than once.                                                *)
Again(n) == IF n = 0 THEN 1 ELSE 2

(* The first pageSize rows, and the last of them.  LIMIT asks for one row  *)
(* more to see whether the walk goes on.                                   *)
FetchPage ==
    /\ phase = "page" /\ ~TooLong
    /\ \E page \in SUBSET Matching :
          /\ IF Cardinality(Matching) <= pageSize THEN page = Matching
             ELSE Cardinality(page) = pageSize
          /\ \A i \in page, j \in Matching \ page : ~RowBefore(j, i)
          /\ returned' = [i \in Id |-> IF i \in page THEN Again(returned[i]) ELSE returned[i]]
          /\ IF page = Matching
             THEN phase' = "done" /\ UNCHANGED <<last, lastValue>>
             ELSE \E l \in page :
                     /\ \A i \in page : ~RowBefore(l, i)
                     /\ last' = l /\ lastValue' = table[l]
                     /\ phase' = "token"
    /\ UNCHANGED <<request, table, token, touched, misled, changes>>

-----------------------------------------------------------------------------
(* CreateNextPageToken() writes a missing value, and one that is empty, as *)
(* the empty string; the cursor that DecodeCursor() returns then stands    *)
(* for NULL where properties are sorted.                                   *)
Encode(v) == IF v \in {NULL, EmptyString} THEN NULL ELSE v

TokenFrom(v) ==
    /\ token' = [value |-> v, id |-> last]
    /\ misled' = (misled \/ v # Key(lastValue, last))
    /\ phase' = "page"
    /\ UNCHANGED <<request, table, last, lastValue, returned, touched, changes>>

(* The token has the sort value of the row as the page had it.             *)
CreateDefaultPaginationToken ==
    /\ phase = "token" /\ orderBy # "property"
    /\ TokenFrom(Key(lastValue, last))

(* Mutant: a row that is gone has a sort value.                            *)
CreateTokenOfGone ==
    /\ phase = "token" /\ orderBy = "property"
    /\ TokenFrom(Encode(table[last]))

(* createPaginationToken(): the sort value is read again for the token,    *)
(* and is NULL when the row is gone.                                       *)
CreatePaginationToken ==
    /\ phase = "token" /\ orderBy = "property"
    /\ TokenFrom(IF table[last] = Absent THEN NULL ELSE Encode(table[last]))

(* The query fails: the id takes the place of the sort value.              *)
CreatePaginationTokenFails ==
    /\ phase = "token" /\ orderBy = "property"
    /\ changes < MaxChanges /\ changes' = changes + 1
    /\ token' = [value |-> last, id |-> last]
    /\ misled' = TRUE
    /\ phase' = "page"
    /\ UNCHANGED <<request, table, last, lastValue, returned, touched>>

-----------------------------------------------------------------------------
(* Another request inserts, changes or deletes a row.                      *)
Change(i, v) ==
    /\ phase \notin {"done", "refused"}
    /\ changes < MaxChanges /\ changes' = changes + 1
    /\ table' = [table EXCEPT ![i] = v]
    /\ touched' = touched \cup {i}
    /\ UNCHANGED <<request, walk>>

Insert(i) == \* ids are given in ascending order
    /\ \A j \in Rows : j < i
    /\ table[i] = Absent
    /\ \E v \in Sortable : Change(i, v)

(* Ids and names are never updated.                                        *)
Update(i) ==
    /\ i \in Rows /\ orderBy \in {"column", "property"}
    /\ \E v \in Sortable \ {table[i]} : Change(i, v)

Delete(i) == i \in Rows /\ Change(i, Absent)

Next ==
    \/ FetchPage \/ RefuseToken \/ CreateDefaultPaginationToken
    \/ CreatePaginationToken \/ CreatePaginationTokenFails
    \/ \E i \in Id : Insert(i) \/ Update(i) \/ Delete(i)

Spec == Init /\ [][Next]_vars

(* The client asks for the next page, and the server answers.              *)
FairSpec ==
    Spec /\ WF_vars(\/ FetchPage \/ RefuseToken
                    \/ CreateDefaultPaginationToken \/ CreatePaginationToken)

-----------------------------------------------------------------------------
TypeOK ==
    /\ orderBy \in Orderings /\ sortOrder \in {"ASC", "DESC"} /\ pageSize \in PageSizes
    /\ table \in [Id -> Values \cup {NULL, Absent}]
    /\ phase \in {"page", "token", "done", "refused"}
    /\ last \in Id \cup {Absent}
    /\ lastValue \in Values \cup {NULL, Absent}
    /\ token \in Cursor \cup {NoToken}
    /\ returned \in [Id -> 0..2]
    /\ touched \in SUBSET Id
    /\ misled \in BOOLEAN
    /\ changes \in 0..MaxChanges

(* A row nobody touched during the walk is returned exactly once, whatever *)
(* happens to the others, ties and rows without the sort value included.   *)
(* Excused are walks that got a token from another value than the one that *)
(* ended their page.                                                       *)
ExactlyOnce ==
    ~misled => \A i \in Id \ touched :
       /\ returned[i] <= 1
       /\ phase = "done" => returned[i] = IF table[i] = Absent THEN 0 ELSE 1

(* Whether cursor d stands behind cursor c.                                *)
Passes(d, c) == Where(c, d.value, d.id)

(* A walk that is not misled only goes forward: every token stands behind  *)
(* the one before and none before it, in each ordering and direction, the  *)
(* rows without the sort value included.  A token that stood still or went *)
(* back would make the client fetch the same rows for ever.                *)
CursorAdvances ==
    [][token # NoToken /\ token' # token /\ ~misled'
          => Passes(token', token) /\ ~Passes(token, token')]_vars

(* A walk ends, misled or not, with its last page or with an error; and    *)
(* with its last page if no row has a value that is too long for a token.  *)
WalkEnds ==
    /\ <>(phase \in {"done", "refused"})
    /\ [](\A i \in Id : table[i] \notin Long) => <>(phase = "done")
=============================================================================
