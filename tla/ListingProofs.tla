--------------------------- MODULE ListingProofs ----------------------------
(***************************************************************************)
(* Proofs about Listing, for every table, page size and number of changes: *)
(* the types, that the tokens of a walk go forward and, for the orderings  *)
(* that break ties by the id, that it returns each row once.               *)
(*                                                                         *)
(* The walk is at a position of the order: a cursor that the next page     *)
(* starts from.  The inductive invariant says that the rows returned are   *)
(* those at or before the position.                                        *)
(***************************************************************************)
EXTENDS Listing, TLAPS

USE DEF PaginateWithOptions, ApplyCustomOrdering, BuildWhereClause, ApplyCursorPagination

(* Where the walk has come to.                                             *)
Position == IF phase = "token" THEN [value |-> Key(lastValue, last), id |-> last] ELSE token

Behind(c, i) == Where(c, Key(table[i], i), i)

(* Row i, which nobody touched: returned if and only if the walk is past   *)
(* it.                                                                     *)
Exact(i) ==
    /\ table[i] = Absent => returned[i] = 0
    /\ table[i] # Absent =>
          IF phase = "done" THEN returned[i] = 1
          ELSE IF Position = NoToken \/ Behind(Position, i) THEN returned[i] = 0
          ELSE returned[i] = 1

LastIsRow == phase = "token" => last \in Id /\ lastValue \in Values \cup {NULL}

TieBroken == "column" \notin Orderings

TypeInv == TypeOK /\ LastIsRow

IInv ==
    /\ TypeInv
    /\ orderBy # "column"
    /\ ~misled => \A i \in Id \ touched : Exact(i)

-----------------------------------------------------------------------------
(* The order of the rows and the cursors.                                  *)

LEMMA ValuesAreInts == Values \cup {NULL, Absent} \subseteq Int /\ Id \subseteq Int
<1>1. Values \subseteq Int /\ Id \subseteq Int
  BY ValuesAssumption, IdAssumption
<1>2. NULL \in Int /\ Absent \in Int
  BY DEF NULL, Absent
<1> QED
  BY <1>1, <1>2

LEMMA RowIsInt == ASSUME TypeOK, NEW i \in Id PROVE i \in Int /\ Key(table[i], i) \in Int
<1>1. i \in Int
  BY IdAssumption
<1>2. table[i] \in Int
  BY ValuesAreInts DEF TypeOK
<1> QED
  BY <1>1, <1>2 DEF Key

(* Of two rows, one comes before the other.                                *)
LEMMA OrderIsTotal ==
    ASSUME TypeOK, orderBy # "column", NEW i \in Id, NEW j \in Id, i # j
    PROVE  RowBefore(i, j) \/ RowBefore(j, i)
<1>1. i \in Int /\ j \in Int
  BY RowIsInt
<1> DEFINE v == Key(table[i], i) w == Key(table[j], j)
<1>2. v \in Int /\ w \in Int
  BY RowIsInt
<1>3. CASE orderBy = "id"
  BY <1>1, <1>3 DEF RowBefore, Before, Standard, Less, Key
<1>4. CASE orderBy # "id"
  <2>1. ~Standard
    BY <1>4 DEF Standard
  <2> HIDE DEF v, w
  <2>2. Before(v, i, w, j) \/ Before(w, j, v, i)
    BY <1>1, <1>2, <2>1 DEF Before, Less, NULL
  <2> QED
    BY <2>2 DEF RowBefore, v, w
<1> QED
  BY <1>3, <1>4

(* The cursor of a row stands where the row stands.                        *)
LEMMA CursorIsRow ==
    ASSUME TypeOK, orderBy # "column", NEW i \in Id, NEW j \in Id
    PROVE  Behind([value |-> Key(table[i], i), id |-> i], j) <=> RowBefore(i, j)
<1>1. i \in Int /\ j \in Int /\ Key(table[i], i) \in Int /\ Key(table[j], j) \in Int
  BY RowIsInt
<1>2. CASE orderBy = "id"
  BY <1>1, <1>2 DEF Behind, Where, RowBefore, Before, Standard, Less, Key
<1>3. CASE orderBy # "id"
  BY <1>1, <1>3 DEF Behind, Where, RowBefore, Before, Standard, Less, NULL
<1> QED
  BY <1>2, <1>3

(* What comes after a row behind the cursor is behind the cursor.          *)
LEMMA BehindIsClosed ==
    ASSUME TypeOK, orderBy # "column", NEW c \in Cursor, NEW i \in Id, NEW j \in Id,
           Behind(c, i), RowBefore(i, j)
    PROVE  Behind(c, j)
<1>1. i \in Int /\ j \in Int
  BY RowIsInt
<1> DEFINE v == Key(table[i], i) w == Key(table[j], j)
<1>2. v \in Int /\ w \in Int
  BY RowIsInt
<1>3. c.value \in Int /\ c.id \in Int
  <2>1. c.value \in Values \cup Id \cup {NULL} /\ c.id \in Id
    BY DEF Cursor
  <2> QED
    BY <2>1, ValuesAreInts
<1>4. Where(c, v, i) /\ Before(v, i, w, j)
  BY DEF Behind, RowBefore
<1>5. CASE orderBy = "id"
  <2>1. v = i /\ w = j /\ Standard
    BY <1>5 DEF Key, Standard
  <2> HIDE DEF v, w
  <2>2. Where(c, w, j)
    BY <1>1, <1>3, <1>4, <2>1 DEF Where, Before, Less
  <2> QED
    BY <2>2 DEF Behind, w
<1>6. CASE orderBy # "id"
  <2>1. ~Standard
    BY <1>6 DEF Standard
  <2> HIDE DEF v, w
  <2>2. Where(c, w, j)
    BY <1>1, <1>2, <1>3, <1>4, <2>1 DEF Where, Before, Less, NULL
  <2> QED
    BY <2>2 DEF Behind, w
<1> QED
  BY <1>5, <1>6

-----------------------------------------------------------------------------
LEMMA TypeStep == TypeInv /\ [Next]_vars => TypeInv'
<1> SUFFICES ASSUME TypeInv, [Next]_vars PROVE TypeInv'
  OBVIOUS
<1> USE DEF TypeInv
<1>1. CASE UNCHANGED vars
  BY <1>1 DEF vars, request, walk, TypeOK, LastIsRow
<1>2. CASE FetchPage
  <2>1. PICK page \in SUBSET Matching :
          /\ returned' = [i \in Id |-> IF i \in page THEN Again(returned[i]) ELSE returned[i]]
          /\ IF page = Matching
             THEN phase' = "done" /\ UNCHANGED <<last, lastValue>>
             ELSE \E l \in page :
                     /\ last' = l /\ lastValue' = table[l]
                     /\ phase' = "token"
    BY <1>2 DEF FetchPage
  <2>2. returned' \in [Id -> 0..2]
    BY <2>1 DEF TypeOK, Again
  <2>3. \A l \in page : l \in Id /\ table[l] \in Values \cup {NULL}
    BY DEF Matching, Rows, TypeOK
  <2>4. /\ phase' \in {"token", "done"} /\ last' \in Id \cup {Absent}
        /\ lastValue' \in Values \cup {NULL, Absent}
        /\ LastIsRow'
    BY <2>1, <2>3 DEF TypeOK, LastIsRow
  <2> QED
    BY <1>2, <2>2, <2>4 DEF FetchPage, TypeOK, request
<1>r. CASE RefuseToken
  BY <1>r DEF RefuseToken, TypeOK, LastIsRow, request
<1>3. ASSUME NEW v \in Values \cup Id \cup {NULL}, TokenFrom(v), phase = "token" PROVE TypeInv'
  <2>1. token' \in Cursor
    BY <1>3 DEF TokenFrom, LastIsRow, Cursor
  <2>2. misled' \in BOOLEAN
    BY <1>3, Zenon DEF TokenFrom
  <2> QED
    BY <1>3, <2>1, <2>2 DEF TokenFrom, TypeOK, LastIsRow, request
<1>4. CASE CreateDefaultPaginationToken
  <2>1. Key(lastValue, last) \in Values \cup Id \cup {NULL}
    BY <1>4 DEF CreateDefaultPaginationToken, LastIsRow, Key
  <2> QED
    BY <1>3, <1>4, <2>1 DEF CreateDefaultPaginationToken
<1>5. CASE CreatePaginationToken
  <2>1. (IF table[last] = Absent THEN NULL ELSE Encode(table[last])) \in Values \cup Id \cup {NULL}
    BY <1>5 DEF CreatePaginationToken, LastIsRow, TypeOK, Encode
  <2> QED
    BY <1>3, <1>5, <2>1 DEF CreatePaginationToken
<1>6. CASE CreatePaginationTokenFails
  <2>1. token' \in Cursor
    BY <1>6 DEF CreatePaginationTokenFails, LastIsRow, Cursor
  <2> QED
    BY <1>6, <2>1, SizeAssumption DEF CreatePaginationTokenFails, TypeOK, LastIsRow, request
<1>7. ASSUME NEW i \in Id, NEW v \in Values \cup {NULL, Absent}, Change(i, v) PROVE TypeInv'
  BY <1>7, SizeAssumption DEF Change, TypeOK, LastIsRow, request, walk
<1>8. Sortable \subseteq Values \cup {NULL, Absent}
  BY DEF Sortable
<1>9. ASSUME NEW i \in Id, Insert(i) \/ Update(i) \/ Delete(i) PROVE TypeInv'
  BY <1>7, <1>8, <1>9 DEF Insert, Update, Delete
<1> QED
  BY <1>1, <1>2, <1>r, <1>4, <1>5, <1>6, <1>9 DEF Next

-----------------------------------------------------------------------------
(* A page ends where the rows returned so far end.                         *)
LEMMA PageIsExact ==
    ASSUME IInv, FetchPage, ~misled, NEW i \in Id \ touched
    PROVE  Exact(i)'
<1>1. PICK page \in SUBSET Matching :
        /\ \A j \in page, k \in Matching \ page : ~RowBefore(k, j)
        /\ returned' = [j \in Id |-> IF j \in page THEN Again(returned[j]) ELSE returned[j]]
        /\ IF page = Matching
           THEN phase' = "done" /\ UNCHANGED <<last, lastValue>>
           ELSE \E l \in page :
                   /\ \A j \in page : ~RowBefore(l, j)
                   /\ last' = l /\ lastValue' = table[l]
                   /\ phase' = "token"
  BY DEF FetchPage
<1>2. TypeOK /\ orderBy # "column" /\ Exact(i)
  BY DEF IInv, TypeInv
<1>3. table' = table /\ token' = token /\ orderBy' = orderBy /\ sortOrder' = sortOrder /\ phase = "page"
  BY DEF FetchPage, request
<1>4. i \in Matching <=> table[i] # Absent /\ (token = NoToken \/ Behind(token, i))
  BY DEF Matching, Rows, Behind
<1>5. table[i] = Absent => returned[i] = 0
  BY <1>2 DEF Exact
<1>6. table[i] # Absent => returned[i] = IF i \in Matching THEN 0 ELSE 1
  BY <1>2, <1>3, <1>4 DEF Exact, Position
<1>7. returned'[i] = IF i \in page THEN Again(returned[i]) ELSE returned[i]
  BY <1>1
<1>8. i \in page => returned'[i] = 1
  BY <1>4, <1>6, <1>7 DEF Again
<1>9. CASE table[i] = Absent
  BY <1>3, <1>4, <1>5, <1>7, <1>9 DEF Exact
<1>10. CASE table[i] # Absent /\ page = Matching
  <2>1. returned'[i] = 1
    BY <1>6, <1>7, <1>8, <1>10
  <2> QED
    BY <1>1, <1>3, <1>10, <2>1 DEF Exact
<1>11. CASE table[i] # Absent /\ page # Matching
  <2>1. PICK l \in page :
          /\ \A j \in page : ~RowBefore(l, j)
          /\ last' = l /\ lastValue' = table[l]
          /\ phase' = "token"
    BY <1>1, <1>11
  <2>2. l \in Id /\ l \in Matching
    BY DEF Matching, Rows
  <2> DEFINE c == [value |-> Key(table[l], l), id |-> l]
  <2>3. Position' = c
    BY <1>3, <2>1 DEF Position, Key
  <2>4. Position' # NoToken
    <3>1. l # Absent
      BY <2>2, IdAssumption DEF Absent
    <3> QED
      BY <2>3, <3>1 DEF NoToken
  <2>5. Behind(Position, i)' <=> Behind(c, i)
    BY <1>3, <2>3 DEF Behind, Where, Key, Standard, Less
  <2>6. Behind(c, i) <=> RowBefore(l, i)
    BY <1>2, <2>2, CursorIsRow
  <2>7. Behind(Position, i)' => returned'[i] = 0
    <3>1. SUFFICES ASSUME RowBefore(l, i) PROVE returned'[i] = 0
      BY <2>5, <2>6
    <3>2. i \notin page
      BY <2>1, <3>1
    <3>3. i \in Matching
      <4>1. CASE token = NoToken
        BY <1>4, <1>11, <4>1
      <4>2. CASE token # NoToken
        <5>1. token \in Cursor
          BY <1>2, <4>2 DEF TypeOK
        <5>2. Behind(token, l)
          BY <2>2, <4>2 DEF Matching, Behind
        <5>3. Behind(token, i)
          BY <1>2, <2>2, <3>1, <5>1, <5>2, BehindIsClosed
        <5> QED
          BY <1>4, <1>11, <5>3
      <4> QED
        BY <4>1, <4>2
    <3> QED
      BY <1>6, <1>7, <1>11, <3>2, <3>3
  <2>8. ~Behind(Position, i)' => returned'[i] = 1
    <3>1. SUFFICES ASSUME ~RowBefore(l, i) PROVE returned'[i] = 1
      BY <2>5, <2>6
    <3>2. i \notin Matching \ page
      <4>1. SUFFICES ASSUME i \in Matching \ page PROVE FALSE
        OBVIOUS
      <4>2. ~RowBefore(i, l) /\ i # l
        BY <1>1, <4>1
      <4> QED
        BY <1>2, <2>2, <3>1, <4>2, OrderIsTotal
    <3> QED
      BY <1>6, <1>7, <1>8, <1>11, <3>2
  <2> QED
    BY <1>3, <1>11, <2>1, <2>4, <2>7, <2>8 DEF Exact
<1> QED
  BY <1>9, <1>10, <1>11

(* A token that is not misled stands where the page ended.                 *)
LEMMA TokenIsExact ==
    ASSUME IInv, phase = "token", NEW v, TokenFrom(v), ~misled', NEW i \in Id \ touched
    PROVE  Exact(i)'
<1>1. ~misled /\ v = Key(lastValue, last)
  BY Zenon DEF TokenFrom
<1>2. Exact(i)
  BY <1>1 DEF IInv
<1>3. /\ table' = table /\ returned' = returned /\ orderBy' = orderBy /\ sortOrder' = sortOrder
      /\ phase' = "page" /\ token' = [value |-> v, id |-> last]
  BY DEF TokenFrom, request
<1>4. Position' = Position
  BY <1>1, <1>3 DEF Position
<1>5. Behind(Position, i)' <=> Behind(Position, i)
  BY <1>3, <1>4 DEF Behind, Where, Key, Standard, Less
<1> QED
  BY <1>2, <1>3, <1>4, <1>5 DEF Exact

LEMMA ExactStep == IInv /\ [Next]_vars => IInv'
<1> SUFFICES ASSUME IInv, [Next]_vars PROVE IInv'
  OBVIOUS
<1>1. TypeInv'
  BY TypeStep DEF IInv
<1>2. orderBy' = orderBy /\ sortOrder' = sortOrder
  BY DEF Next, vars, FetchPage, RefuseToken, CreateDefaultPaginationToken, CreatePaginationToken, TokenFrom,
         CreatePaginationTokenFails, Insert, Update, Delete, Change, request
<1>3. SUFFICES ASSUME ~misled', NEW i \in Id \ touched' PROVE Exact(i)'
  BY <1>1, <1>2 DEF IInv
<1>4. ASSUME /\ UNCHANGED <<phase, last, lastValue, token, returned, misled>>
             /\ touched \subseteq touched' /\ table'[i] = table[i]
      PROVE  Exact(i)'
  <2>1. ~misled /\ i \in Id \ touched
    BY <1>3, <1>4
  <2>2. Exact(i)
    BY <2>1 DEF IInv
  <2>3. Position' = Position
    BY <1>2, <1>4 DEF Position, Key
  <2>4. Behind(Position, i)' <=> Behind(Position, i)
    BY <1>2, <1>4, <2>3 DEF Behind, Where, Key, Standard, Less
  <2> QED
    BY <1>4, <2>2, <2>3, <2>4 DEF Exact
<1>5. CASE UNCHANGED vars
  BY <1>4, <1>5 DEF vars, walk
<1>6. CASE FetchPage
  <2>1. ~misled /\ i \in Id \ touched
    BY <1>3, <1>6 DEF FetchPage
  <2> QED
    BY <1>6, <2>1, PageIsExact
<1>r. CASE RefuseToken
  <2>1. ~misled /\ i \in Id \ touched /\ phase = "page"
    BY <1>3, <1>r DEF RefuseToken
  <2>2. Exact(i)
    BY <2>1 DEF IInv
  <2>3. Position' = Position
    BY <1>r, <2>1 DEF RefuseToken, Position
  <2>4. Behind(Position, i)' <=> Behind(Position, i)
    BY <1>2, <1>r, <2>3 DEF RefuseToken, Behind, Where, Key, Standard, Less
  <2> QED
    BY <1>r, <2>1, <2>2, <2>3, <2>4 DEF RefuseToken, Exact
<1>7. CASE CreateDefaultPaginationToken
  <2>1. i \in Id \ touched /\ phase = "token"
    BY <1>3, <1>7 DEF CreateDefaultPaginationToken, TokenFrom
  <2>2. PICK v : TokenFrom(v)
    BY <1>7 DEF CreateDefaultPaginationToken
  <2> QED
    BY <1>3, <2>1, <2>2, TokenIsExact
<1>8. CASE CreatePaginationToken
  <2>1. i \in Id \ touched /\ phase = "token"
    BY <1>3, <1>8 DEF CreatePaginationToken, TokenFrom
  <2>2. PICK v : TokenFrom(v)
    BY <1>8 DEF CreatePaginationToken
  <2> QED
    BY <1>3, <2>1, <2>2, TokenIsExact
<1>9. CASE CreatePaginationTokenFails
  BY <1>3, <1>9 DEF CreatePaginationTokenFails
<1>10. ASSUME NEW k \in Id, NEW v, Change(k, v) PROVE Exact(i)'
  <2>1. i # k /\ touched \subseteq touched'
    BY <1>3, <1>10 DEF Change
  <2>2. table'[i] = table[i]
    BY <1>3, <1>10, <2>1 DEF Change, IInv, TypeInv, TypeOK
  <2> QED
    BY <1>4, <1>10, <2>1, <2>2 DEF Change, walk
<1>11. ASSUME NEW k \in Id, Insert(k) \/ Update(k) \/ Delete(k) PROVE Exact(i)'
  BY <1>10, <1>11 DEF Insert, Update, Delete
<1> QED
  BY <1>5, <1>6, <1>r, <1>7, <1>8, <1>9, <1>11 DEF Next

-----------------------------------------------------------------------------
LEMMA InitTypeInv == Init => TypeInv
<1> SUFFICES ASSUME Init PROVE TypeInv
  OBVIOUS
<1>1. table \in [Id -> Values \cup {NULL, Absent}]
  BY DEF Init, Sortable
<1> QED
  <2>1. returned \in [Id -> 0..2] /\ changes \in 0..MaxChanges
    BY SizeAssumption DEF Init
  <2>2. misled \in BOOLEAN /\ touched \in SUBSET Id
    BY DEF Init
  <2> QED
    BY <1>1, <2>1, <2>2 DEF Init, TypeInv, TypeOK, LastIsRow

(* The state of the walk keeps its types: a token of a row that is gone    *)
(* has a value a query can compare.                                        *)
THEOREM ListingTypeCorrect == Spec => []TypeOK
<1>1. TypeInv => TypeOK
  BY DEF TypeInv
<1> QED
  BY <1>1, InitTypeInv, TypeStep, PTL DEF Spec

(* Where ties are broken (every ordering but the standard pagination by a  *)
(* time), a walk returns each row that nobody touches once, whatever is    *)
(* inserted, changed and deleted around it, unless it was misled.          *)
THEOREM WalkIsExact == TieBroken /\ Spec => []ExactlyOnce
<1>1. TieBroken /\ Init => IInv
  <2> SUFFICES ASSUME TieBroken, Init PROVE IInv
    OBVIOUS
  <2>1. \A i \in Id : Exact(i)
    BY DEF Init, Exact, Position
  <2>2. orderBy # "column"
    BY DEF Init, TieBroken
  <2> QED
    BY <2>1, <2>2, InitTypeInv DEF IInv
<1>2. IInv => ExactlyOnce
  <2> SUFFICES ASSUME IInv, ~misled, NEW i \in Id \ touched
               PROVE  /\ returned[i] <= 1
                      /\ phase = "done" => returned[i] = IF table[i] = Absent THEN 0 ELSE 1
    BY DEF ExactlyOnce
  <2>1. Exact(i)
    BY DEF IInv
  <2> QED
    BY <2>1 DEF Exact
<1> QED
  BY <1>1, <1>2, ExactStep, PTL DEF Spec

-----------------------------------------------------------------------------
(* Between a page and its token: the page ended behind the cursor it was   *)
(* fetched from.                                                           *)
PageAhead == phase = "token" /\ token # NoToken => Passes(Position, token)

(* Of two cursors at most one stands behind the other. *)
LEMMA PassesOneWay ==
    ASSUME NEW c \in Cursor, NEW d \in Cursor, Passes(d, c)
    PROVE  ~Passes(c, d)
<1>1. c.value \in Int /\ d.value \in Int /\ c.id \in Int /\ d.id \in Int
  BY ValuesAreInts DEF Cursor
<1> QED
  BY <1>1 DEF Passes, Where, Less

(* A row of a page is behind the cursor of the page. *)
LEMMA PageAheadStep == TypeInv /\ PageAhead /\ [Next]_vars => PageAhead'
<1> SUFFICES ASSUME TypeInv, PageAhead, [Next]_vars PROVE PageAhead'
  OBVIOUS
<1>r. UNCHANGED request
  BY DEF Next, FetchPage, RefuseToken, CreateDefaultPaginationToken, CreatePaginationToken,
     TokenFrom, CreatePaginationTokenFails, Insert, Update, Delete, Change, vars
<1>1. CASE UNCHANGED <<phase, last, lastValue, token>>
  BY <1>1, <1>r DEF PageAhead, Passes, Position, Where, Key, Less, Standard, request
<1>2. CASE FetchPage
  <2> SUFFICES ASSUME phase' = "token", token' # NoToken PROVE Passes(Position, token)'
    BY DEF PageAhead
  <2>1. last' \in Matching /\ lastValue' = table[last'] /\ token' = token
    BY <1>2 DEF FetchPage
  <2>2. Where(token, Key(lastValue', last'), last')
    BY <2>1 DEF Matching
  <2>3. Position' = [value |-> Key(lastValue', last'), id |-> last']
    BY <1>r DEF Position, Key, request
  <2> QED
    BY <1>r, <2>1, <2>2, <2>3 DEF Passes, Where, Less, Standard, request
<1>3. CASE phase' # "token"
  BY <1>3 DEF PageAhead
<1>4. CASE \/ CreateDefaultPaginationToken \/ CreatePaginationToken
           \/ CreatePaginationTokenFails \/ RefuseToken
  BY <1>3, <1>4 DEF RefuseToken, CreateDefaultPaginationToken, CreatePaginationToken, TokenFrom,
     CreatePaginationTokenFails
<1>5. ASSUME NEW i \in Id, Insert(i) \/ Update(i) \/ Delete(i)
      PROVE  UNCHANGED <<phase, last, lastValue, token>>
  BY <1>5 DEF Insert, Update, Delete, Change, walk
<1> QED
  BY <1>1, <1>2, <1>4, <1>5 DEF Next, vars, walk

(* In every ordering, that by a time without a tie-breaker included, a     *)
(* walk that is not misled never gets a token twice nor an earlier one,    *)
(* for every table, page size and number of changes.                       *)
THEOREM WalkGoesForward == Spec => CursorAdvances
<1>1. Init => PageAhead
  BY DEF Init, PageAhead
<1>2. TypeInv /\ TypeInv' /\ PageAhead /\ [Next]_vars
         => [token # NoToken /\ token' # token /\ ~misled'
                => Passes(token', token) /\ ~Passes(token, token')]_vars
  <2> SUFFICES ASSUME TypeInv, TypeInv', PageAhead, Next,
                      token # NoToken, token' # token, ~misled'
               PROVE  Passes(token', token) /\ ~Passes(token, token')
    OBVIOUS
  <2>1. PICK v : phase = "token" /\ TokenFrom(v)
    <3>1. ~CreatePaginationTokenFails
      BY DEF CreatePaginationTokenFails
    <3>2. ~FetchPage /\ ~RefuseToken
      BY DEF FetchPage, RefuseToken
    <3>3. ASSUME NEW i \in Id, Insert(i) \/ Update(i) \/ Delete(i) PROVE FALSE
      BY <3>3 DEF Insert, Update, Delete, Change, walk
    <3> QED
      BY <3>1, <3>2, <3>3 DEF Next, CreateDefaultPaginationToken, CreatePaginationToken
  <2>2. v = Key(lastValue, last)
    BY <2>1, Zenon DEF TokenFrom
  <2>3. token' = Position
    BY <2>1, <2>2 DEF TokenFrom, Position
  <2>4. Passes(token', token)
    BY <2>1, <2>3 DEF PageAhead
  <2>5. token \in Cursor /\ token' \in Cursor
    <3>1. last \in Id
      BY <2>1 DEF TypeInv, LastIsRow
    <3>2. token' # NoToken
      BY <2>1, <3>1, IdAssumption DEF TokenFrom, NoToken, Absent
    <3> QED
      BY <3>2 DEF TypeInv, TypeOK
  <2> QED
    BY <2>4, <2>5, PassesOneWay
<1> QED
  BY <1>1, <1>2, InitTypeInv, TypeStep, PageAheadStep, PTL DEF Spec, CursorAdvances
=============================================================================
