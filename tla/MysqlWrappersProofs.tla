------------------------- MODULE MysqlWrappersProofs -------------------------
(***************************************************************************)
(* Proofs about MysqlWrappers for any number of connections, wrappers and  *)
(* addresses.                                                              *)
(***************************************************************************)
EXTENDS MysqlWrappers, TLAPS

(* The part of TypeOK the proofs need: no bound is involved. *)
Typed ==
  /\ mysql \in [Conn -> Types]
  /\ result_set \in [Rs -> Result \cup {NULL}]
  /\ heap \in [Result -> ResultTypes]
  /\ queries \in Nat
  /\ promised \in [Rs -> Nat]
  /\ is_initialized \in [Conn -> BOOLEAN]
-----------------------------------------------------------------------------
(* The handles that the calls write are handles. *)
LEMMA HandleTypes ==
  /\ Raw \in Types /\ Initialised \in Types /\ Closed \in Types
  /\ \A h \in Types : Failed(h) \in Types /\ Lost(h) \in Types /\ h.pending \in Nat
<1>1. Raw \in Types /\ Initialised \in Types
  BY DEF Raw, Initialised, Types
<1>2. Closed \in Types
  BY DEF Raw, Closed, Types
<1>3. \A h \in Types : Failed(h) \in Types
  BY DEF Failed, Types
<1>4. \A h \in Types : Lost(h) \in Types
  BY DEF Lost, Types
<1>5. \A h \in Types : h.pending \in Nat
  BY DEF Types
<1>6. QED BY <1>1, <1>2, <1>3, <1>4, <1>5

LEMMA ConnectTypes ==
  ASSUME Typed, NEW c \in Conn, Connect(c) PROVE mysql' \in [Conn -> Types]
<1>1. mysql[c] \in Types
  BY DEF Typed
<1>2. \A h \in Types : [h EXCEPT !.link = TRUE, !.error = FALSE] \in Types
  BY DEF Types
<1>3. \A h \in Types : [h EXCEPT !.error = TRUE] \in Types
  BY DEF Types
<1>4. QED BY <1>1, <1>2, <1>3 DEF Connect, SetHandle, Typed

LEMMA QueryTypes ==
  ASSUME Typed, NEW c \in Conn, Query(c)
  PROVE  mysql' \in [Conn -> Types] /\ queries' \in Nat
<1>1. mysql[c] \in Types /\ queries' \in Nat
  BY DEF Typed, Query
<1>2. \A h \in Types, n \in Nat :
        [h EXCEPT !.pending = n, !.columns = TRUE, !.error = FALSE, !.affected = "-1"] \in Types
  BY DEF Types
<1>3. \A h \in Types :
        [h EXCEPT !.columns = FALSE, !.error = FALSE, !.affected = "count"] \in Types
  BY DEF Types
<1>4. \A h \in Types : [h EXCEPT !.columns = FALSE] \in Types
  BY DEF Types
<1>5. [Failed(mysql[c]) EXCEPT !.columns = FALSE] \in Types
  BY <1>1, <1>4, HandleTypes
<1>6. \E h \in Types : SetHandle(c, h)
  <2>1. CASE ~mysql[c].link \/ mysql[c].pending # 0
    BY <1>1, <2>1, HandleTypes DEF Query
  <2>2. CASE ~(~mysql[c].link \/ mysql[c].pending # 0)
    BY <1>1, <1>2, <1>3, <1>5, <2>2, HandleTypes DEF Query
  <2>3. QED BY <2>1, <2>2
<1>7. QED BY <1>1, <1>6 DEF SetHandle, Typed

(* What a download does: it allocates an address that was free, for the    *)
(* pending statement, exactly when it returns one.                         *)
LEMMA DownloadEffect ==
  ASSUME Typed, NEW c \in Conn, NEW res, Download(c, res)
  PROVE  /\ mysql' \in [Conn -> Types]
         /\ \/ res = NULL /\ heap' = heap
            \/ /\ res \in Result /\ Empty(res) /\ mysql[c].pending # 0
               /\ heap' \in [Result -> ResultTypes]
               /\ heap'[res].stmt = mysql[c].pending
               /\ \A a \in Result \ {res} : heap'[a] = heap[a]
<1>1. mysql[c] \in Types
  BY DEF Typed
<1>2. \A h \in Types : [h EXCEPT !.pending = 0, !.error = TRUE] \in Types
  BY DEF Types
<1>3. \A h \in Types : [h EXCEPT !.pending = 0, !.affected = "count"] \in Types
  BY DEF Types
<1>4. mysql' \in [Conn -> Types]
  BY <1>1, <1>2, <1>3, HandleTypes DEF Download, SetHandle, Typed
<1>5. \A n \in 0 .. MaxRows :
        [stmt |-> mysql[c].pending, left |-> n, current |-> FALSE] \in ResultTypes
  BY <1>1, HandleTypes, WrapperAssumption DEF ResultTypes
<1>6. CASE res \in Result
  <2>1. PICK n \in 0 .. MaxRows :
          heap' = [heap EXCEPT ![res] =
                     [stmt |-> mysql[c].pending, left |-> n, current |-> FALSE]]
    BY <1>6, WrapperAssumption DEF Download
  <2>2. Empty(res) /\ mysql[c].pending # 0
    BY <1>6, WrapperAssumption DEF Download
  <2>3. QED BY <1>4, <1>5, <1>6, <2>1, <2>2 DEF Typed
<1>7. CASE res \notin Result
  BY <1>4, <1>7 DEF Download
<1>8. QED BY <1>6, <1>7

(* Fetching moves the cursor and leaves the statement of a result alone. *)
LEMMA FetchEffect ==
  ASSUME Typed, NEW r \in Rs, FetchRow(r)
  PROVE  heap' \in [Result -> ResultTypes] /\ \A a \in Result : heap'[a].stmt = heap[a].stmt
<1>1. ASSUME NEW h \in ResultTypes
      PROVE  NextRow(h) \in ResultTypes /\ NextRow(h).stmt = h.stmt
  <2>1. CASE h.left > 0
    <3>1. h.left - 1 \in Nat
      BY <2>1 DEF ResultTypes
    <3>2. NextRow(h) = [h EXCEPT !.left = h.left - 1, !.current = TRUE]
      BY <2>1 DEF NextRow
    <3>3. QED BY <3>1, <3>2 DEF ResultTypes
  <2>2. CASE ~(h.left > 0)
    <3>1. NextRow(h) = [h EXCEPT !.current = FALSE]
      BY <2>2 DEF NextRow
    <3>2. QED BY <3>1 DEF ResultTypes
  <2>3. QED BY <2>1, <2>2
<1>2. result_set[r] \in Result
  BY DEF Typed, FetchRow
<1>3. heap' = [heap EXCEPT ![result_set[r]] = NextRow(heap[result_set[r]])]
  BY <1>2 DEF Typed, FetchRow
<1>4. QED BY <1>1, <1>2, <1>3 DEF Typed

LEMMA TypedInductive == Typed /\ [Next]_vars => Typed'
<1> SUFFICES ASSUME Typed, [Next]_vars PROVE Typed'
  OBVIOUS
<1>1. ASSUME NEW c \in Conn, ConstructConnection(c) PROVE Typed'
  BY <1>1, HandleTypes DEF ConstructConnection, SetHandle, resultVars, Typed
<1>2. ASSUME NEW c \in Conn, Connect(c) PROVE Typed'
  BY <1>2, ConnectTypes DEF Connect, resultVars, Typed
<1>3. ASSUME NEW c \in Conn, Query(c) PROVE Typed'
  BY <1>3, QueryTypes DEF Query, resultVars, Typed
<1>4. ASSUME NEW c \in Conn, Ping(c) PROVE Typed'
  <2>1. mysql[c] \in Types
    BY DEF Typed
  <2>2. QED BY <1>4, <2>1, HandleTypes DEF Ping, SetHandle, resultVars, Typed
<1>5. ASSUME NEW c \in Conn, Close(c) \/ DestroyConnection(c) PROVE Typed'
  BY <1>5, HandleTypes DEF Close, DestroyConnection, SetHandle, resultVars, Typed
<1>6. ASSUME NEW r \in Rs, ConstructResultSet(r) PROVE Typed'
  BY <1>6 DEF ConstructResultSet, connVars, Typed
<1>7. ASSUME NEW r \in Rs, FetchRow(r) PROVE Typed'
  BY <1>7, FetchEffect DEF FetchRow, connVars, Typed
<1>8. ASSUME NEW r \in Rs, DestroyResultSet(r) PROVE Typed'
  <2>1. Free \in ResultTypes
    BY DEF Free, ResultTypes
  <2>2. QED BY <1>8, <2>1 DEF DestroyResultSet, connVars, Typed
<1>9. ASSUME NEW c \in Conn, NEW r \in Rs, StoreResult(c, r) PROVE Typed'
  <2>1. PICK res \in Result \cup {NULL} :
          /\ Download(c, res)
          /\ InitResultSet(r, res)
          /\ promised' = [promised EXCEPT ![r] = IF res = NULL THEN @ ELSE mysql[c].pending]
    BY <1>9 DEF StoreResult
  <2>2. mysql[c].pending \in Nat
    BY HandleTypes DEF Typed
  <2>3. heap' \in [Result -> ResultTypes] /\ mysql' \in [Conn -> Types]
    BY <2>1, DownloadEffect DEF Typed
  <2>4. QED BY <1>9, <2>1, <2>2, <2>3 DEF StoreResult, InitResultSet, Typed
<1>10. CASE UNCHANGED vars
  BY <1>10 DEF vars, Typed
<1>11. QED BY <1>1, <1>2, <1>3, <1>4, <1>5, <1>6, <1>7, <1>8, <1>9, <1>10 DEF Next
-----------------------------------------------------------------------------
(* store_result seen from outside: either no memory moved, or one address  *)
(* that nobody owned now belongs to r - unless r had a result already.     *)
LEMMA StoreEffect ==
  ASSUME Typed, NEW c \in Conn, NEW r \in Rs, StoreResult(c, r)
  PROVE  /\ live' = live /\ r \in live
         /\ \/ heap' = heap /\ result_set' = result_set /\ promised' = promised
            \/ \E a \in Result :
                 /\ Empty(a) /\ ~Empty(a)'
                 /\ \A b \in Result \ {a} : heap'[b] = heap[b]
                 /\ result_set' = [result_set EXCEPT ![r] = IF @ = NULL THEN a ELSE @]
                 /\ promised' = [promised EXCEPT ![r] = heap'[a].stmt]
<1>1. PICK res \in Result \cup {NULL} :
        /\ Download(c, res)
        /\ InitResultSet(r, res)
        /\ promised' = [promised EXCEPT ![r] = IF res = NULL THEN @ ELSE mysql[c].pending]
  BY DEF StoreResult
<1>2. CASE res = NULL
  <2>1. heap' = heap
    BY <1>1, <1>2, DownloadEffect, WrapperAssumption
  <2>2. result_set' = result_set /\ promised' = promised
    BY <1>1, <1>2 DEF InitResultSet, Typed
  <2>3. QED BY <2>1, <2>2 DEF StoreResult
<1>3. CASE res \in Result
  <2>1. /\ Empty(res) /\ mysql[c].pending # 0 /\ heap'[res].stmt = mysql[c].pending
        /\ \A b \in Result \ {res} : heap'[b] = heap[b]
    BY <1>1, <1>3, DownloadEffect, WrapperAssumption
  <2>2. ~Empty(res)'
    BY <2>1 DEF Empty
  <2>3. /\ result_set' = [result_set EXCEPT ![r] = IF @ = NULL THEN res ELSE @]
        /\ promised' = [promised EXCEPT ![r] = heap'[res].stmt]
    BY <1>1, <1>3, <2>1, WrapperAssumption DEF InitResultSet
  <2>4. QED BY <1>3, <2>1, <2>2, <2>3 DEF StoreResult
<1>4. QED BY <1>2, <1>3

(* The calls on a connection other than store_result touch no wrapper. *)
LEMMA ConnectionStep ==
  ASSUME NEW c \in Conn,
         \/ ConstructConnection(c) \/ Connect(c) \/ Query(c)
         \/ Ping(c) \/ Close(c) \/ DestroyConnection(c)
  PROVE  /\ UNCHANGED resultVars
         /\ \A r \in Rs : r \in live' <=> r \in live
BY WrapperAssumption
   DEF ConstructConnection, Connect, Query, Ping, Close, DestroyConnection, resultVars

(* One owner per result: store_result gives out only addresses that are    *)
(* free, hence owned by nobody, and a result is freed with its only owner. *)
LEMMA OneOwnerInductive ==
  Typed /\ ResultsHaveOneOwner /\ [Next]_vars => ResultsHaveOneOwner'
<1> SUFFICES ASSUME Typed, ResultsHaveOneOwner, [Next]_vars PROVE ResultsHaveOneOwner'
  OBVIOUS
<1> USE WrapperAssumption
<1>1. ASSUME NEW c \in Conn,
             \/ ConstructConnection(c) \/ Connect(c) \/ Query(c)
             \/ Ping(c) \/ Close(c) \/ DestroyConnection(c)
      PROVE ResultsHaveOneOwner'
  BY <1>1, ConnectionStep DEF ResultsHaveOneOwner, Owns, Empty, resultVars
<1>2. ASSUME NEW r \in Rs, ConstructResultSet(r) PROVE ResultsHaveOneOwner'
  BY <1>2 DEF ConstructResultSet, ResultsHaveOneOwner, Owns, Empty, Typed
<1>3. ASSUME NEW r \in Rs, FetchRow(r) PROVE ResultsHaveOneOwner'
  <2>1. live' = live /\ result_set' = result_set /\ \A a \in Result : heap'[a].stmt = heap[a].stmt
    BY <1>3, FetchEffect DEF FetchRow
  <2>2. QED BY <2>1 DEF ResultsHaveOneOwner, Owns, Empty
<1>4. ASSUME NEW r \in Rs, DestroyResultSet(r) PROVE ResultsHaveOneOwner'
  <2> SUFFICES ASSUME NEW s \in Rs, NEW a \in Result, Owns(s, a)'
               PROVE  ~Empty(a)' /\ \A t \in Rs : Owns(t, a)' => t = s
    BY DEF ResultsHaveOneOwner
  <2>1. Owns(s, a) /\ s # r /\ \A t \in Rs : Owns(t, a)' => Owns(t, a)
    BY <1>4 DEF DestroyResultSet, Owns
  <2>2. ~Empty(a) /\ ~Owns(r, a) /\ \A t \in Rs : Owns(t, a) => t = s
    BY <2>1 DEF ResultsHaveOneOwner
  <2>3. a # result_set[r]
    BY <1>4, <2>2 DEF Owns, DestroyResultSet
  <2>4. QED BY <1>4, <2>1, <2>2, <2>3 DEF DestroyResultSet, Empty, Typed
<1>5. ASSUME NEW c \in Conn, NEW r \in Rs, StoreResult(c, r) PROVE ResultsHaveOneOwner'
  <2>1. CASE heap' = heap /\ result_set' = result_set /\ promised' = promised
    BY <1>5, <2>1, StoreEffect DEF ResultsHaveOneOwner, Owns, Empty
  <2>2. ASSUME NEW a \in Result, Empty(a), ~Empty(a)',
               \A b \in Result \ {a} : heap'[b] = heap[b],
               result_set' = [result_set EXCEPT ![r] = IF @ = NULL THEN a ELSE @]
        PROVE ResultsHaveOneOwner'
    <3>1. \A s \in Rs : ~Owns(s, a)
      BY <2>2 DEF ResultsHaveOneOwner
    <3>2. \A s \in Rs, b \in Result : Owns(s, b)' => Owns(s, b) \/ (s = r /\ b = a)
      BY <1>5, <2>2, StoreEffect DEF Owns, Typed
    <3>3. \A b \in Result : b # a => (Empty(b)' <=> Empty(b))
      BY <2>2 DEF Empty
    <3>4. QED BY <2>2, <3>1, <3>2, <3>3 DEF ResultsHaveOneOwner
  <2>3. QED BY <1>5, <2>1, <2>2, StoreEffect
<1>6. CASE UNCHANGED vars
  BY <1>6 DEF vars, ResultsHaveOneOwner, Owns, Empty
<1>7. QED BY <1>1, <1>2, <1>3, <1>4, <1>5, <1>6 DEF Next

(* The result of a wrapper with an owner leaves with that owner only. *)
LEMMA DestroyEffect ==
  ASSUME Typed, ResultsHaveOneOwner, NEW r \in Rs, DestroyResultSet(r),
         NEW s \in Rs, NEW a \in Result, s # r
  PROVE  /\ Owns(s, a)' <=> Owns(s, a)
         /\ Owns(s, a) => heap'[a] = heap[a]
<1>1. Owns(s, a)' <=> Owns(s, a)
  BY DEF DestroyResultSet, Owns
<1>2. Owns(s, a) => a # result_set[r]
  BY DEF ResultsHaveOneOwner, Owns, DestroyResultSet
<1>3. QED BY <1>1, <1>2 DEF DestroyResultSet

(* A client that gives each wrapper one result loses none. *)
LEMMA NoLeakInductive ==
  ASSUME Reuse = FALSE
  PROVE  Typed /\ ResultsHaveOneOwner /\ NoResultLeaks /\ [Next]_vars => NoResultLeaks'
<1> SUFFICES ASSUME Typed, ResultsHaveOneOwner, NoResultLeaks, [Next]_vars PROVE NoResultLeaks'
  OBVIOUS
<1> USE WrapperAssumption
<1>1. ASSUME NEW c \in Conn,
             \/ ConstructConnection(c) \/ Connect(c) \/ Query(c)
             \/ Ping(c) \/ Close(c) \/ DestroyConnection(c)
      PROVE NoResultLeaks'
  BY <1>1, ConnectionStep DEF NoResultLeaks, Owns, Empty, resultVars
<1>2. ASSUME NEW r \in Rs, ConstructResultSet(r) PROVE NoResultLeaks'
  BY <1>2 DEF ConstructResultSet, NoResultLeaks, Owns, Empty, Typed
<1>3. ASSUME NEW r \in Rs, FetchRow(r) PROVE NoResultLeaks'
  BY <1>3, FetchEffect DEF FetchRow, NoResultLeaks, Owns, Empty, Typed
<1>4. ASSUME NEW r \in Rs, DestroyResultSet(r) PROVE NoResultLeaks'
  <2> SUFFICES ASSUME NEW a \in Result, ~Empty(a)'
               PROVE  \E s \in Rs : Owns(s, a)'
    BY DEF NoResultLeaks
  <2>1. ~Empty(a) /\ a # result_set[r]
    BY <1>4 DEF DestroyResultSet, Empty, Free, Typed
  <2>2. PICK s \in Rs : Owns(s, a)
    BY <2>1 DEF NoResultLeaks
  <2>3. s # r
    BY <2>1, <2>2 DEF Owns
  <2>4. QED BY <1>4, <2>2, <2>3, DestroyEffect
<1>5. ASSUME NEW c \in Conn, NEW r \in Rs, StoreResult(c, r) PROVE NoResultLeaks'
  <2>1. CASE heap' = heap /\ result_set' = result_set /\ promised' = promised
    BY <1>5, <2>1, StoreEffect DEF NoResultLeaks, Owns, Empty
  <2>2. ASSUME NEW a \in Result, Empty(a), ~Empty(a)',
               \A b \in Result \ {a} : heap'[b] = heap[b],
               result_set' = [result_set EXCEPT ![r] = IF @ = NULL THEN a ELSE @]
        PROVE NoResultLeaks'
    <3>1. result_set[r] = NULL
      BY <1>5 DEF StoreResult
    <3>2. Owns(r, a)'
      BY <1>5, <2>2, <3>1, StoreEffect DEF Owns, Typed
    <3>3. \A s \in Rs, b \in Result : Owns(s, b) => Owns(s, b)'
      BY <1>5, <2>2, <3>1, StoreEffect DEF Owns, Typed
    <3>4. \A b \in Result : b # a => (Empty(b)' <=> Empty(b))
      BY <2>2 DEF Empty
    <3>5. QED BY <3>2, <3>3, <3>4 DEF NoResultLeaks
  <2>3. QED BY <1>5, <2>1, <2>2, StoreEffect
<1>6. CASE UNCHANGED vars
  BY <1>6 DEF vars, NoResultLeaks, Owns, Empty
<1>7. QED BY <1>1, <1>2, <1>3, <1>4, <1>5, <1>6 DEF Next

(* ... and reads from each wrapper the rows it stored there. *)
LEMMA RowsInductive ==
  ASSUME Reuse = FALSE
  PROVE  Typed /\ ResultsHaveOneOwner /\ RowsAreThoseStored /\ [Next]_vars
           => RowsAreThoseStored'
<1> SUFFICES ASSUME Typed, ResultsHaveOneOwner, RowsAreThoseStored, [Next]_vars
             PROVE  RowsAreThoseStored'
  OBVIOUS
<1> USE WrapperAssumption
<1>1. ASSUME NEW c \in Conn,
             \/ ConstructConnection(c) \/ Connect(c) \/ Query(c)
             \/ Ping(c) \/ Close(c) \/ DestroyConnection(c)
      PROVE RowsAreThoseStored'
  BY <1>1, ConnectionStep DEF RowsAreThoseStored, Owns, resultVars
<1>2. ASSUME NEW r \in Rs, ConstructResultSet(r) PROVE RowsAreThoseStored'
  BY <1>2 DEF ConstructResultSet, RowsAreThoseStored, Owns, Typed
<1>3. ASSUME NEW r \in Rs, FetchRow(r) PROVE RowsAreThoseStored'
  BY <1>3, FetchEffect DEF FetchRow, RowsAreThoseStored, Owns, Typed
<1>4. ASSUME NEW r \in Rs, DestroyResultSet(r) PROVE RowsAreThoseStored'
  <2> SUFFICES ASSUME NEW s \in Rs, s \in live', promised'[s] # 0
               PROVE  \E a \in Result : Owns(s, a)' /\ heap'[a].stmt = promised'[s]
    BY DEF RowsAreThoseStored
  <2>1. s # r /\ s \in live /\ promised'[s] = promised[s]
    BY <1>4 DEF DestroyResultSet
  <2>2. PICK a \in Result : Owns(s, a) /\ heap[a].stmt = promised[s]
    BY <2>1 DEF RowsAreThoseStored
  <2>3. Owns(s, a)' /\ heap'[a] = heap[a]
    BY <1>4, <2>1, <2>2, DestroyEffect
  <2>4. QED BY <2>1, <2>2, <2>3
<1>5. ASSUME NEW c \in Conn, NEW r \in Rs, StoreResult(c, r) PROVE RowsAreThoseStored'
  <2>1. CASE heap' = heap /\ result_set' = result_set /\ promised' = promised
    BY <1>5, <2>1, StoreEffect DEF RowsAreThoseStored, Owns
  <2>2. ASSUME NEW a \in Result, Empty(a), ~Empty(a)',
               \A b \in Result \ {a} : heap'[b] = heap[b],
               result_set' = [result_set EXCEPT ![r] = IF @ = NULL THEN a ELSE @],
               promised' = [promised EXCEPT ![r] = heap'[a].stmt]
        PROVE RowsAreThoseStored'
    <3> SUFFICES ASSUME NEW s \in Rs, s \in live', promised'[s] # 0
                 PROVE  \E b \in Result : Owns(s, b)' /\ heap'[b].stmt = promised'[s]
      BY DEF RowsAreThoseStored
    <3>1. CASE s = r
      <4>1. result_set[r] = NULL
        BY <1>5 DEF StoreResult
      <4>2. Owns(r, a)' /\ promised'[r] = heap'[a].stmt
        BY <1>5, <2>2, <4>1, StoreEffect DEF Owns, Typed
      <4>3. QED BY <3>1, <4>2
    <3>2. CASE s # r
      <4>1. s \in live /\ promised'[s] = promised[s]
        BY <1>5, <2>2, <3>2, StoreEffect DEF Typed
      <4>2. PICK b \in Result : Owns(s, b) /\ heap[b].stmt = promised[s]
        BY <3>2, <4>1 DEF RowsAreThoseStored
      <4>3. b # a
        BY <2>2, <4>2 DEF ResultsHaveOneOwner
      <4>4. Owns(s, b)' /\ heap'[b] = heap[b]
        BY <1>5, <2>2, <3>2, <4>2, <4>3, StoreEffect DEF Owns, Typed
      <4>5. QED BY <4>1, <4>2, <4>4
    <3>3. QED BY <3>1, <3>2
  <2>3. QED BY <1>5, <2>1, <2>2, StoreEffect
<1>6. CASE UNCHANGED vars
  BY <1>6 DEF vars, RowsAreThoseStored, Owns
<1>7. QED BY <1>1, <1>2, <1>3, <1>4, <1>5, <1>6 DEF Next

(* The destructor closes what the constructor initialised, whatever the    *)
(* client did with the handle in between.                                  *)
LEMMA ConnectionInductive ==
  Typed /\ DestroyedMeansClosed /\ [Next]_vars => DestroyedMeansClosed'
<1> SUFFICES ASSUME Typed, DestroyedMeansClosed, [Next]_vars PROVE DestroyedMeansClosed'
  OBVIOUS
<1> USE WrapperAssumption DEF DestroyedMeansClosed, Typed, SetHandle
<1>1. ASSUME NEW c \in Conn, ConstructConnection(c) PROVE DestroyedMeansClosed'
  BY <1>1 DEF ConstructConnection
<1>2. ASSUME NEW c \in Conn, Connect(c) PROVE DestroyedMeansClosed'
  BY <1>2 DEF Connect
<1>3. ASSUME NEW c \in Conn, Query(c) PROVE DestroyedMeansClosed'
  BY <1>3 DEF Query
<1>4. ASSUME NEW c \in Conn, Ping(c) PROVE DestroyedMeansClosed'
  BY <1>4 DEF Ping
<1>5. ASSUME NEW c \in Conn, Close(c) PROVE DestroyedMeansClosed'
  BY <1>5 DEF Close
<1>6. ASSUME NEW c \in Conn, DestroyConnection(c) PROVE DestroyedMeansClosed'
  <2>1. Closed.state # "ready" /\ ~Closed.link
    BY DEF Closed, Raw
  <2>2. QED BY <1>6, <2>1 DEF DestroyConnection
<1>7. ASSUME NEW r \in Rs, ConstructResultSet(r) \/ FetchRow(r) \/ DestroyResultSet(r)
      PROVE DestroyedMeansClosed'
  BY <1>7 DEF ConstructResultSet, FetchRow, DestroyResultSet, connVars
<1>8. ASSUME NEW c \in Conn, NEW r \in Rs, StoreResult(c, r) PROVE DestroyedMeansClosed'
  <2>1. \A d \in Conn \ {c} : mysql'[d] = mysql[d]
    BY <1>8 DEF StoreResult, Download
  <2>2. QED BY <1>8, <2>1 DEF StoreResult
<1>9. CASE UNCHANGED vars
  BY <1>9 DEF vars
<1>10. QED BY <1>1, <1>2, <1>3, <1>4, <1>5, <1>6, <1>7, <1>8, <1>9 DEF Next

LEMMA InitHolds ==
  Init => /\ Typed /\ ResultsHaveOneOwner /\ NoResultLeaks
          /\ RowsAreThoseStored /\ DestroyedMeansClosed
<1> SUFFICES ASSUME Init
             PROVE  /\ Typed /\ ResultsHaveOneOwner /\ NoResultLeaks
                    /\ RowsAreThoseStored /\ DestroyedMeansClosed
  OBVIOUS
<1>1. Typed
  <2>1. Free \in ResultTypes
    BY DEF Free, ResultTypes
  <2>2. QED BY <2>1, HandleTypes DEF Init, Typed
<1>2. ResultsHaveOneOwner /\ NoResultLeaks /\ RowsAreThoseStored
  BY DEF Init, ResultsHaveOneOwner, NoResultLeaks, RowsAreThoseStored, Owns, Empty, Free
<1>3. DestroyedMeansClosed
  BY DEF Init, DestroyedMeansClosed, Raw
<1>4. QED BY <1>1, <1>2, <1>3
-----------------------------------------------------------------------------
(* Every result is freed once and never used after it was freed: this      *)
(* needs no discipline of the client at all.                               *)
THEOREM OneOwner == Spec => []ResultsHaveOneOwner
BY InitHolds, TypedInductive, OneOwnerInductive, PTL DEF Spec

(* No result is lost by a client that uses each wrapper for one result.    *)
THEOREM NoLeak ==
  ASSUME Reuse = FALSE
  PROVE  Spec => []NothingLeaks
<1>1. Typed /\ ResultsHaveOneOwner /\ NoResultLeaks /\ [Next]_vars => NoResultLeaks'
  BY NoLeakInductive
<1>2. Spec => []NoResultLeaks
  BY <1>1, InitHolds, TypedInductive, OneOwnerInductive, PTL DEF Spec
<1>3. Spec => []DestroyedMeansClosed
  BY ConnectionInductive, InitHolds, TypedInductive, PTL DEF Spec
<1>4. NoResultLeaks /\ DestroyedMeansClosed => NothingLeaks
  BY DEF NothingLeaks
<1>5. QED BY <1>2, <1>3, <1>4, PTL

(* Such a client reads from each wrapper the rows it stored there.         *)
THEOREM RowsAreRight ==
  ASSUME Reuse = FALSE
  PROVE  Spec => []RowsAreThoseStored
<1>1. Typed /\ ResultsHaveOneOwner /\ RowsAreThoseStored /\ [Next]_vars => RowsAreThoseStored'
  BY RowsInductive
<1>2. QED BY <1>1, InitHolds, TypedInductive, OneOwnerInductive, PTL DEF Spec

(* A destroyed connection object leaves neither a connection nor memory    *)
(* behind, if its constructor had a handle.                                *)
THEOREM DestructorCloses == Spec => []DestroyedMeansClosed
BY ConnectionInductive, InitHolds, TypedInductive, PTL DEF Spec
-----------------------------------------------------------------------------
(* What the client sees of a connection depends on its handle alone. *)
LEMMA ConnectionView ==
  ASSUME Typed, NEW c \in Conn, NEW h \in Types, mysql' = [mysql EXCEPT ![c] = h],
         c \in live, live' = live
  PROVE  /\ Connected' = [Connected EXCEPT ![c] = h.link]
         /\ Waiting' = [Waiting EXCEPT ![c] = h.pending]
<1>1. \A d \in Conn : mysql'[d] = IF d = c THEN h ELSE mysql[d]
  BY DEF Typed
<1>2. \A d \in Conn :
        Connected'[d] = IF d = c THEN h.link ELSE Connected[d]
  <2> SUFFICES ASSUME NEW d \in Conn
               PROVE  Connected'[d] = IF d = c THEN h.link ELSE Connected[d]
    OBVIOUS
  <2>1. CASE d = c
    <3>1. d \in live' /\ mysql'[d] = h
      BY <1>1, <2>1
    <3>2. QED BY <2>1, <3>1 DEF Connected
  <2>2. CASE d # c
    <3>1. mysql'[d] = mysql[d]
      BY <1>1, <2>2
    <3>2. QED BY <2>2, <3>1 DEF Connected
  <2>3. QED BY <2>1, <2>2
<1>3. \A d \in Conn :
        Waiting'[d] = IF d = c THEN h.pending ELSE Waiting[d]
  BY <1>1 DEF Waiting
<1>4. /\ Connected = [d \in Conn |-> Connected[d]] /\ Connected' = [d \in Conn |-> Connected'[d]]
      /\ Waiting = [d \in Conn |-> Waiting[d]] /\ Waiting' = [d \in Conn |-> Waiting'[d]]
  BY DEF Connected, Waiting
<1>5. QED BY <1>2, <1>3, <1>4

(* The same of a connection object that comes or goes. *)
LEMMA ObjectView ==
  ASSUME Typed, NEW c \in Conn, NEW h \in Types, \A d \in Conn \ {c} : mysql'[d] = mysql[d],
         \/ c \notin live' /\ live' = live \ {c}
         \/ live' = live \cup {c} /\ mysql'[c] = h /\ h.link = FALSE /\ h.pending = 0
  PROVE  /\ Connected' = [Connected EXCEPT ![c] = FALSE]
         /\ Waiting' = [Waiting EXCEPT ![c] = 0]
<1>1. \A d \in Conn : Connected'[d] = IF d = c THEN FALSE ELSE Connected[d]
  BY DEF Connected
<1>2. \A d \in Conn : Waiting'[d] = IF d = c THEN 0 ELSE Waiting[d]
  BY DEF Waiting
<1>3. /\ Connected = [d \in Conn |-> Connected[d]] /\ Connected' = [d \in Conn |-> Connected'[d]]
      /\ Waiting = [d \in Conn |-> Waiting[d]] /\ Waiting' = [d \in Conn |-> Waiting'[d]]
  BY DEF Connected, Waiting
<1>4. QED BY <1>1, <1>2, <1>3

(* Calls on connections leave what the result sets hold. *)
LEMMA ResultView ==
  ASSUME \A r \in Rs : r \in live' <=> r \in live, UNCHANGED resultVars
  PROVE  Rows' = Rows /\ Promised' = Promised
BY DEF Rows, Promised, resultVars

(* A wrapper has rows exactly if it has a pointer. *)
LEMMA RowsOfOwner ==
  ASSUME Typed, ResultsHaveOneOwner, NEW r \in Rs, r \in live
  PROVE  Rows[r] = I!Nothing <=> result_set[r] = NULL
<1>1. CASE result_set[r] = NULL
  BY <1>1 DEF Rows, I!Nothing, Free
<1>2. CASE result_set[r] # NULL
  <2>1. result_set[r] \in Result /\ Owns(r, result_set[r])
    BY <1>2 DEF Typed, Owns
  <2>2. heap[result_set[r]].stmt # 0
    BY <2>1 DEF ResultsHaveOneOwner, Empty
  <2>3. I!Nothing.stmt = 0
    BY DEF I!Nothing
  <2>4. QED BY <1>2, <2>2, <2>3 DEF Rows
<1>3. QED BY <1>1, <1>2

(* Each method of a connection, seen by the client. *)
LEMMA ConnectionSteps ==
  ASSUME Typed, NEW c \in Conn
  PROVE  /\ ConstructConnection(c) => I!Construct(c)
         /\ Connect(c) => I!connect(c)
         /\ Query(c) => I!query(c)
         /\ Ping(c) => I!ping(c)
         /\ Close(c) => I!close(c)
         /\ DestroyConnection(c) => I!DestroyConnection(c)
<1> USE WrapperAssumption
<1> DEFINE h == mysql[c]
           Sees(k) == /\ Connected' = [Connected EXCEPT ![c] = k.link]
                      /\ Waiting' = [Waiting EXCEPT ![c] = k.pending]
<1>1. /\ \A k \in Types : /\ Lost(k).link = FALSE /\ Lost(k).pending = 0
                          /\ Failed(k).link = k.link /\ Failed(k).pending = k.pending
      /\ Raw.link = FALSE /\ Raw.pending = 0
      /\ Initialised.link = FALSE /\ Initialised.pending = 0
      /\ Closed.link = FALSE /\ Closed.pending = 0
  BY DEF Lost, Failed, Types, Raw, Initialised, Closed
<1>2. h \in Types
  BY DEF Typed
<1>3. c \notin Rs
  OBVIOUS
<1>4. ASSUME c \in live, live' = live
      PROVE  \A k \in Types : SetHandle(c, k) => Sees(k)
  BY <1>4, ConnectionView DEF SetHandle
<1>5. ASSUME c \in live, live' = live, UNCHANGED mysql
      PROVE  UNCHANGED <<Connected, Waiting>>
  BY <1>5 DEF Connected, Waiting
<1>6. c \in live => Connected[c] = h.link /\ Waiting[c] = h.pending
  BY DEF Connected, Waiting
<1>7. /\ [Connected EXCEPT ![c] = Connected[c]] = Connected
      /\ [Waiting EXCEPT ![c] = Waiting[c]] = Waiting
  BY DEF Connected, Waiting
<1> HIDE DEF h, Sees
<1>8. ASSUME ConstructConnection(c) PROVE I!Construct(c)
  <2>1. c \notin live /\ live' = live \cup {c} /\ UNCHANGED <<resultVars, queries>>
    BY <1>8 DEF ConstructConnection
  <2>2. PICK k \in Types : SetHandle(c, k) /\ k.link = FALSE /\ k.pending = 0
    BY <1>1, <1>8, HandleTypes DEF ConstructConnection
  <2>3. mysql'[c] = k /\ \A d \in Conn \ {c} : mysql'[d] = mysql[d]
    BY <2>2 DEF SetHandle, Typed
  <2>4. Connected[c] = FALSE /\ Waiting[c] = 0
    BY <2>1 DEF Connected, Waiting
  <2>5. Connected' = Connected /\ Waiting' = Waiting
    BY <1>7, <2>1, <2>2, <2>3, <2>4, ObjectView
  <2>6. Rows' = Rows /\ Promised' = Promised
    BY <1>3, <2>1, ResultView
  <2>7. QED BY <2>1, <2>5, <2>6 DEF I!Construct
<1>9. ASSUME Connect(c) PROVE I!connect(c)
  <2>1. c \in live /\ live' = live /\ UNCHANGED <<resultVars, queries>>
    BY <1>9 DEF Connect
  <2>2. PICK k \in Types : SetHandle(c, k) /\ k.pending = h.pending
                           /\ (k.link = TRUE \/ k.link = h.link)
    <3>1. [h EXCEPT !.link = TRUE, !.error = FALSE] \in Types /\ [h EXCEPT !.error = TRUE] \in Types
      BY <1>2 DEF Types
    <3>2. /\ [h EXCEPT !.link = TRUE, !.error = FALSE].link = TRUE
          /\ [h EXCEPT !.link = TRUE, !.error = FALSE].pending = h.pending
          /\ [h EXCEPT !.error = TRUE].link = h.link
          /\ [h EXCEPT !.error = TRUE].pending = h.pending
      BY <1>2 DEF Types
    <3>3. QED BY <1>9, <3>1, <3>2 DEF Connect, h
  <2>3. Sees(k)
    BY <1>4, <2>1, <2>2
  <2>4. Waiting' = Waiting
    BY <1>6, <1>7, <2>1, <2>2, <2>3 DEF Sees
  <2>5. Connected' = [Connected EXCEPT ![c] = TRUE] \/ Connected' = Connected
    BY <1>6, <1>7, <2>1, <2>2, <2>3 DEF Sees
  <2>6. Rows' = Rows /\ Promised' = Promised
    BY <2>1, ResultView
  <2>7. QED BY <2>1, <2>4, <2>5, <2>6 DEF I!connect
<1>10. ASSUME Query(c) PROVE I!query(c)
  <2>1. c \in live /\ live' = live /\ UNCHANGED resultVars /\ queries' = queries + 1
    BY <1>10 DEF Query
  <2>2. Rows' = Rows /\ Promised' = Promised
    BY <2>1, ResultView
  <2>3. PICK k \in Types : SetHandle(c, k) /\
          \/ k.link = h.link /\ k.pending = h.pending
          \/ k.link = FALSE /\ k.pending = 0
          \/ h.link = TRUE /\ h.pending = 0 /\ k.link = h.link /\ k.pending = queries'
    <3> DEFINE Selects == [h EXCEPT !.pending = queries', !.columns = TRUE,
                                    !.error = FALSE, !.affected = "-1"]
               Counts == [h EXCEPT !.columns = FALSE, !.error = FALSE, !.affected = "count"]
               Refused == [Failed(h) EXCEPT !.columns = FALSE]
    <3>1. queries' \in Nat
      BY <2>1 DEF Typed
    <3>2. Selects \in Types /\ Selects.link = h.link /\ Selects.pending = queries'
      BY <1>2, <3>1 DEF Types
    <3>3. Counts \in Types /\ Counts.link = h.link /\ Counts.pending = h.pending
      BY <1>2 DEF Types
    <3>4. Failed(h) \in Types /\ Lost(h) \in Types
      BY <1>2, HandleTypes
    <3>5. Refused \in Types /\ Refused.link = h.link /\ Refused.pending = h.pending
      <4>1. \A k \in Types : /\ [k EXCEPT !.columns = FALSE] \in Types
                             /\ [k EXCEPT !.columns = FALSE].link = k.link
                             /\ [k EXCEPT !.columns = FALSE].pending = k.pending
        BY DEF Types
      <4>2. QED BY <1>1, <1>2, <3>4, <4>1
    <3> HIDE DEF Selects, Counts, Refused
    <3>6. \/ SetHandle(c, Failed(h)) \/ SetHandle(c, Lost(h))
          \/ SetHandle(c, Counts) \/ SetHandle(c, Refused)
          \/ SetHandle(c, Selects) /\ h.link /\ h.pending = 0
      BY <1>10 DEF Query, h, Selects, Counts, Refused
    <3>7. h.link \in BOOLEAN
      BY <1>2 DEF Types
    <3>8. QED BY <1>1, <1>2, <3>2, <3>3, <3>4, <3>5, <3>6, <3>7
  <2>4. Sees(k)
    BY <1>4, <2>1, <2>3
  <2>5. CASE k.link = h.link /\ k.pending = h.pending
    <3>1. UNCHANGED <<Connected, Waiting>>
      BY <1>6, <1>7, <2>1, <2>4, <2>5 DEF Sees
    <3>2. QED BY <2>1, <2>2, <3>1 DEF I!query
  <2>6. CASE k.link = FALSE /\ k.pending = 0
    BY <2>1, <2>2, <2>4, <2>6 DEF I!query, I!Disconnected, Sees
  <2>7. CASE h.link = TRUE /\ h.pending = 0 /\ k.link = h.link /\ k.pending = queries'
    <3>1. /\ Connected[c] /\ Waiting[c] = 0 /\ Connected' = Connected
          /\ Waiting' = [Waiting EXCEPT ![c] = queries']
      BY <1>6, <1>7, <2>1, <2>4, <2>7 DEF Sees
    <3>2. QED BY <2>1, <2>2, <3>1 DEF I!query
  <2>8. QED BY <2>3, <2>5, <2>6, <2>7
<1>11. ASSUME Ping(c) PROVE I!ping(c)
  <2>1. c \in live /\ live' = live /\ UNCHANGED <<resultVars, queries>>
    BY <1>11 DEF Ping
  <2>2. Rows' = Rows /\ Promised' = Promised
    BY <2>1, ResultView
  <2>3. CASE UNCHANGED mysql
    <3>1. UNCHANGED <<Connected, Waiting>>
      BY <1>5, <2>1, <2>3
    <3>2. QED BY <2>1, <2>2, <3>1 DEF I!ping
  <2>4. CASE SetHandle(c, Failed(h))
    <3>1. Failed(h) \in Types /\ Failed(h).link = h.link /\ Failed(h).pending = h.pending
      BY <1>1, <1>2, HandleTypes
    <3>2. Sees(Failed(h))
      BY <1>4, <2>1, <2>4, <3>1
    <3>3. UNCHANGED <<Connected, Waiting>>
      BY <1>6, <1>7, <2>1, <3>1, <3>2 DEF Sees
    <3>4. QED BY <2>1, <2>2, <3>3 DEF I!ping
  <2>5. CASE SetHandle(c, Lost(h))
    <3>1. Lost(h) \in Types /\ Lost(h).link = FALSE /\ Lost(h).pending = 0
      BY <1>1, <1>2, HandleTypes
    <3>2. Sees(Lost(h))
      BY <1>4, <2>1, <2>5, <3>1
    <3>3. I!Disconnected(c)
      BY <3>1, <3>2 DEF Sees, I!Disconnected
    <3>4. QED BY <2>1, <2>2, <3>3 DEF I!ping
  <2>6. QED BY <1>11, <2>3, <2>4, <2>5 DEF Ping, h
<1>12. ASSUME Close(c) PROVE I!close(c)
  <2>1. c \in live /\ live' = live /\ UNCHANGED <<resultVars, queries>> /\ SetHandle(c, Closed)
    BY <1>12 DEF Close
  <2>2. Rows' = Rows /\ Promised' = Promised
    BY <2>1, ResultView
  <2>3. I!Disconnected(c)
    BY <1>1, <1>4, <2>1, HandleTypes DEF Sees, I!Disconnected
  <2>4. QED BY <2>1, <2>2, <2>3 DEF I!close
<1>13. ASSUME DestroyConnection(c) PROVE I!DestroyConnection(c)
  <2>1. /\ c \in live /\ live' = live \ {c} /\ UNCHANGED <<resultVars, queries>>
        /\ \A d \in Conn \ {c} : mysql'[d] = mysql[d]
    BY <1>13 DEF DestroyConnection, SetHandle, Typed
  <2>2. Rows' = Rows /\ Promised' = Promised
    BY <1>3, <2>1, ResultView
  <2>3. I!Disconnected(c)
    BY <1>2, <2>1, ObjectView DEF I!Disconnected
  <2>4. QED BY <2>1, <2>2, <2>3 DEF I!DestroyConnection
<1>14. QED BY <1>8, <1>9, <1>10, <1>11, <1>12, <1>13

(* Calls on result sets leave what the client sees of the connections. *)
LEMMA LinkView ==
  ASSUME \A c \in Conn : c \in live' <=> c \in live, UNCHANGED mysql
  PROVE  Connected' = Connected /\ Waiting' = Waiting
BY DEF Connected, Waiting

(* Each method of a result set, seen by the client: here each result has   *)
(* to have one owner, or a call would show in somebody else's rows.        *)
LEMMA ResultSteps ==
  ASSUME Typed, ResultsHaveOneOwner, NEW r \in Rs
  PROVE  /\ ConstructResultSet(r) => I!Construct(r)
         /\ FetchRow(r) => I!fetch_row(r)
         /\ DestroyResultSet(r) => I!DestroyResultSet(r)
<1> USE WrapperAssumption
<1>1. r \notin Conn
  OBVIOUS
<1>2. ASSUME ConstructResultSet(r) PROVE I!Construct(r)
  <2>1. /\ r \notin live /\ live' = live \cup {r} /\ UNCHANGED <<connVars, heap, queries>>
        /\ result_set' = [result_set EXCEPT ![r] = NULL]
        /\ promised' = [promised EXCEPT ![r] = 0]
    BY <1>2 DEF ConstructResultSet
  <2>2. Connected' = Connected /\ Waiting' = Waiting
    BY <1>1, <2>1, LinkView DEF connVars
  <2>3. result_set'[r] = NULL /\ \A s \in Rs \ {r} : result_set'[s] = result_set[s]
    BY <2>1 DEF Typed
  <2>4. promised'[r] = 0 /\ \A s \in Rs \ {r} : promised'[s] = promised[s]
    BY <2>1 DEF Typed
  <2>5. Rows' = Rows
    BY <2>1, <2>3 DEF Rows
  <2>6. Promised' = Promised
    BY <2>1, <2>4 DEF Promised
  <2>7. QED BY <2>1, <2>2, <2>5, <2>6 DEF I!Construct
<1>3. ASSUME FetchRow(r) PROVE I!fetch_row(r)
  <2> DEFINE a == result_set[r]
  <2>1. /\ r \in live /\ a \in Result /\ Owns(r, a)
        /\ UNCHANGED <<live, connVars, result_set, queries, promised>>
        /\ heap' = [heap EXCEPT ![a] = NextRow(heap[a])]
    BY <1>3 DEF FetchRow, Owns, Typed
  <2> HIDE DEF a
  <2>2. Connected' = Connected /\ Waiting' = Waiting /\ Promised' = Promised
    BY <2>1 DEF Connected, Waiting, Promised, connVars
  <2>3. a = result_set[r] /\ Rows[r] = heap[a]
    BY <2>1 DEF Rows, a
  <2>4. Rows[r] # I!Nothing
    BY <2>1, <2>3, RowsOfOwner
  <2>5. \A s \in Rs \ {r} : Owns(s, result_set[s]) => result_set[s] # a
    BY <2>1, <2>3 DEF ResultsHaveOneOwner, Owns
  <2>6. heap'[a] = NextRow(heap[a]) /\ \A b \in Result \ {a} : heap'[b] = heap[b]
    BY <2>1 DEF Typed
  <2>7. Rows'[r] = NextRow(Rows[r])
    BY <2>1, <2>3, <2>6 DEF Rows
  <2>8. \A s \in Rs \ {r} : Rows'[s] = Rows[s]
    BY <2>1, <2>5, <2>6 DEF Rows, Owns, Typed
  <2>9. Rows' = [Rows EXCEPT ![r] = NextRow(Rows[r])]
    <3>1. Rows = [s \in Rs |-> Rows[s]] /\ Rows' = [s \in Rs |-> Rows'[s]]
      BY DEF Rows
    <3>2. QED BY <2>7, <2>8, <3>1
  <2>10. NextRow(Rows[r]) = I!RowTaken(Rows[r])
    BY DEF NextRow, I!RowTaken
  <2>11. QED BY <2>1, <2>2, <2>4, <2>9, <2>10 DEF I!fetch_row
<1>4. ASSUME DestroyResultSet(r) PROVE I!DestroyResultSet(r)
  <2>1. /\ r \in live /\ live' = live \ {r} /\ UNCHANGED <<connVars, result_set, queries, promised>>
    BY <1>4 DEF DestroyResultSet
  <2>2. Connected' = Connected /\ Waiting' = Waiting
    BY <1>1, <2>1, LinkView DEF connVars
  <2>3. Promised' = [Promised EXCEPT ![r] = 0]
    BY <2>1 DEF Promised
  <2>4. Rows'[r] = I!Nothing
    BY <2>1 DEF Rows, Free, I!Nothing
  <2>5. \A s \in Rs \ {r} : Rows'[s] = Rows[s]
    <3> SUFFICES ASSUME NEW s \in Rs \ {r} PROVE Rows'[s] = Rows[s]
      OBVIOUS
    <3>1. CASE s \in live /\ result_set[s] # NULL
      <4>1. result_set[s] \in Result /\ Owns(s, result_set[s])
        BY <3>1 DEF Typed, Owns
      <4>2. heap'[result_set[s]] = heap[result_set[s]]
        BY <1>4, <4>1, DestroyEffect
      <4>3. QED BY <2>1, <3>1, <4>2 DEF Rows
    <3>2. CASE ~(s \in live /\ result_set[s] # NULL)
      BY <2>1, <3>2 DEF Rows
    <3>3. QED BY <3>1, <3>2
  <2>6. Rows' = [Rows EXCEPT ![r] = I!Nothing]
    <3>1. Rows = [s \in Rs |-> Rows[s]] /\ Rows' = [s \in Rs |-> Rows'[s]]
      BY DEF Rows
    <3>2. QED BY <2>4, <2>5, <3>1
  <2>7. QED BY <2>1, <2>2, <2>3, <2>6 DEF I!DestroyResultSet
<1>5. QED BY <1>2, <1>3, <1>4

(* store_result: a download that fails shows on the connection only; one   *)
(* that succeeds fills an address nobody owned, hence changes the rows of  *)
(* r alone, and those only if r had none.                                  *)
LEMMA StoreSteps ==
  ASSUME Typed, ResultsHaveOneOwner, NEW c \in Conn, NEW r \in Rs, StoreResult(c, r)
  PROVE  I!store_result(c, r) \/ I!store_result_fails(c)
<1> USE WrapperAssumption
<1> DEFINE h == mysql[c]
<1>1. /\ c \in live /\ r \in live /\ UNCHANGED <<live, is_initialized, queries>>
  BY DEF StoreResult
<1>2. PICK res \in Result \cup {NULL} :
        /\ Download(c, res)
        /\ InitResultSet(r, res)
        /\ promised' = [promised EXCEPT ![r] = IF res = NULL THEN @ ELSE mysql[c].pending]
  BY DEF StoreResult
<1>3. h \in Types /\ Connected[c] = h.link /\ Waiting[c] = h.pending
  BY <1>1 DEF Typed, Connected, Waiting
<1>4. /\ [Connected EXCEPT ![c] = Connected[c]] = Connected
      /\ [Waiting EXCEPT ![c] = Waiting[c]] = Waiting
  BY DEF Connected, Waiting
<1>5. CASE res = NULL
  <2>1. heap' = heap /\ result_set' = result_set /\ promised' = promised
    BY <1>2, <1>5, DownloadEffect DEF InitResultSet, Typed
  <2>2. Rows' = Rows /\ Promised' = Promised
    BY <1>1, <2>1, ResultView DEF resultVars
  <2>3. CASE h.pending = 0 /\ UNCHANGED mysql
    <3>1. Connected' = Connected /\ Waiting' = Waiting
      BY <1>1, <2>3, LinkView
    <3>2. Waiting' = [Waiting EXCEPT ![c] = 0]
      BY <1>3, <1>4, <2>3, <3>1
    <3>3. QED BY <1>1, <2>2, <3>1, <3>2 DEF I!store_result_fails
  <2>4. CASE SetHandle(c, Lost(h))
    <3>1. Lost(h) \in Types /\ Lost(h).link = FALSE /\ Lost(h).pending = 0
      BY <1>3, HandleTypes DEF Lost, Types
    <3>2. Connected' = [Connected EXCEPT ![c] = FALSE] /\ Waiting' = [Waiting EXCEPT ![c] = 0]
      BY <1>1, <2>4, <3>1, ConnectionView DEF SetHandle
    <3>3. QED BY <1>1, <2>2, <3>2 DEF I!store_result_fails
  <2>5. CASE SetHandle(c, [h EXCEPT !.pending = 0, !.error = TRUE])
    <3> DEFINE k == [h EXCEPT !.pending = 0, !.error = TRUE]
    <3>1. k \in Types /\ k.link = h.link /\ k.pending = 0
      BY <1>3 DEF Types
    <3>2. mysql' = [mysql EXCEPT ![c] = k]
      BY <2>5 DEF SetHandle
    <3> HIDE DEF k, h
    <3>3. Connected' = [Connected EXCEPT ![c] = k.link] /\ Waiting' = [Waiting EXCEPT ![c] = k.pending]
      BY <1>1, <3>1, <3>2, ConnectionView
    <3>4. Connected' = Connected /\ Waiting' = [Waiting EXCEPT ![c] = 0]
      BY <1>3, <1>4, <3>1, <3>3
    <3>5. QED BY <1>1, <2>2, <3>4 DEF I!store_result_fails
  <2>6. QED BY <1>2, <1>5, <2>3, <2>4, <2>5 DEF Download
<1>6. CASE res \in Result
  <2> DEFINE k == [h EXCEPT !.pending = 0, !.affected = "count"]
  <2>1. PICK n \in 0 .. MaxRows :
          heap' = [heap EXCEPT ![res] = [stmt |-> h.pending, left |-> n, current |-> FALSE]]
    BY <1>2, <1>6 DEF Download
  <2>2. h.pending # 0 /\ Empty(res) /\ mysql' = [mysql EXCEPT ![c] = k]
    BY <1>2, <1>6 DEF Download, SetHandle
  <2>3. k \in Types /\ k.link = h.link /\ k.pending = 0
    BY <1>3 DEF Types
  <2> HIDE DEF k, h
  <2>4. Connected' = [Connected EXCEPT ![c] = k.link] /\ Waiting' = [Waiting EXCEPT ![c] = k.pending]
    BY <1>1, <2>2, <2>3, ConnectionView
  <2>5. Connected' = Connected /\ Waiting' = [Waiting EXCEPT ![c] = 0]
    BY <1>3, <1>4, <2>3, <2>4
  <2>6. Promised' = [Promised EXCEPT ![r] = Waiting[c]]
    <3>1. promised' = [promised EXCEPT ![r] = h.pending]
      BY <1>2, <1>6 DEF h
    <3>2. QED BY <1>1, <1>3, <3>1 DEF Promised, Typed
  <2>7. /\ heap'[res] = I!Downloaded(Waiting[c], n)
        /\ \A b \in Result \ {res} : heap'[b] = heap[b]
    BY <1>3, <1>6, <2>1 DEF Typed, I!Downloaded
  <2>8. /\ result_set'[r] = IF result_set[r] = NULL THEN res ELSE result_set[r]
        /\ \A s \in Rs \ {r} : result_set'[s] = result_set[s]
    BY <1>2 DEF InitResultSet, Typed
  <2>9. \A s \in Rs : s \in live => result_set[s] # res
    BY <1>6, <2>2 DEF ResultsHaveOneOwner, Owns
  <2>10. Rows'[r] = IF Rows[r] = I!Nothing THEN I!Downloaded(Waiting[c], n) ELSE Rows[r]
    <3>1. CASE result_set[r] = NULL
      <4>1. Rows[r] = I!Nothing
        BY <1>1, <3>1, RowsOfOwner
      <4>2. r \in live' /\ result_set'[r] = res /\ res # NULL
        BY <1>1, <1>6, <2>8, <3>1
      <4>3. QED BY <2>7, <4>1, <4>2 DEF Rows
    <3>2. CASE result_set[r] # NULL
      <4>1. Rows[r] # I!Nothing
        BY <1>1, <3>2, RowsOfOwner
      <4>2. r \in live' /\ result_set'[r] = result_set[r] /\ result_set[r] \in Result \ {res}
        BY <1>1, <2>8, <2>9, <3>2 DEF Typed
      <4>3. heap'[result_set[r]] = heap[result_set[r]]
        BY <2>7, <4>2
      <4>4. QED BY <1>1, <3>2, <4>1, <4>2, <4>3 DEF Rows
    <3>3. QED BY <3>1, <3>2
  <2>11. \A s \in Rs \ {r} : Rows'[s] = Rows[s]
    <3> SUFFICES ASSUME NEW s \in Rs \ {r} PROVE Rows'[s] = Rows[s]
      OBVIOUS
    <3>1. result_set'[s] = result_set[s] /\ live' = live
      BY <1>1, <2>8
    <3>2. CASE s \in live /\ result_set[s] # NULL
      <4>1. result_set[s] \in Result \ {res}
        BY <2>9, <3>2 DEF Typed
      <4>2. QED BY <2>7, <3>1, <3>2, <4>1 DEF Rows
    <3>3. CASE ~(s \in live /\ result_set[s] # NULL)
      BY <3>1, <3>3 DEF Rows
    <3>4. QED BY <3>2, <3>3
  <2>12. Rows' = [Rows EXCEPT ![r] =
                    IF @ = I!Nothing THEN I!Downloaded(Waiting[c], n) ELSE @]
    <3>1. Rows = [s \in Rs |-> Rows[s]] /\ Rows' = [s \in Rs |-> Rows'[s]]
      BY DEF Rows
    <3>2. QED BY <2>10, <2>11, <3>1
  <2>13. Waiting[c] # 0
    BY <1>3, <2>2
  <2>14. QED BY <1>1, <2>5, <2>6, <2>12, <2>13 DEF I!store_result
<1>7. QED BY <1>5, <1>6

(* The wrappers implement their interfaces, for every client: also one     *)
(* that stores into a wrapper twice finds the rows it stored first.        *)
THEOREM InterfaceImplemented == Spec => ImplementsInterface
<1>1. Init => I!Init
  <2> SUFFICES ASSUME Init PROVE I!Init
    OBVIOUS
  <2>1. \A c \in Conn : Connected[c] = FALSE /\ Waiting[c] = 0
    BY DEF Init, Connected, Waiting
  <2>2. \A r \in Rs : Rows[r] = I!Nothing /\ Promised[r] = 0
    BY DEF Init, Rows, Promised, Free, I!Nothing
  <2>3. /\ Connected = [c \in Conn |-> Connected[c]] /\ Waiting = [c \in Conn |-> Waiting[c]]
        /\ Rows = [r \in Rs |-> Rows[r]] /\ Promised = [r \in Rs |-> Promised[r]]
    BY DEF Connected, Waiting, Rows, Promised
  <2>4. QED BY <2>1, <2>2, <2>3 DEF Init, I!Init
<1>2. Typed /\ ResultsHaveOneOwner /\ [Next]_vars => [I!Next]_(I!vars)
  <2> SUFFICES ASSUME Typed, ResultsHaveOneOwner, [Next]_vars PROVE [I!Next]_(I!vars)
    OBVIOUS
  <2>1. CASE UNCHANGED vars
    BY <2>1 DEF vars, I!vars, Connected, Waiting, Rows, Promised
  <2>2. CASE Next
    BY <2>2, ConnectionSteps, ResultSteps, StoreSteps DEF Next, I!Next
  <2>3. QED BY <2>1, <2>2
<1>3. QED BY <1>1, <1>2, InitHolds, TypedInductive, OneOwnerInductive, PTL
          DEF Spec, ImplementsInterface, I!Spec
=============================================================================
