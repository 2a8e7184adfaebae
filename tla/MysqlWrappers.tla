---------------------------- MODULE MysqlWrappers ----------------------------
(***************************************************************************)
(* The database layer of cpp/gtp_library: real::mysql_connection owns a    *)
(* MYSQL handle, real::mysql_result_set owns a MYSQL_RES, and store_result *)
(* moves a result from the one to the other.  The client library below     *)
(* them is modelled from the calls the wrappers make and from what their   *)
(* interfaces document about each call.                                    *)
(*                                                                         *)
(* This module is a client that may make any sequence of calls the         *)
(* interfaces allow.  The programs of the repository are in QueryPrograms. *)
(***************************************************************************)
EXTENDS Integers, FiniteSets

CONSTANTS
  Conn,        \* mysql_connection objects
  Rs,          \* mysql_result_set objects
  Result,      \* addresses a MYSQL_RES can be allocated at
  NULL,        \* the null MYSQL_RES pointer
  MaxRows,     \* bound: rows of one result set
  MaxQueries,  \* bound: statements the client sends
  InitMayFail, \* whether mysql_init may run out of memory
  Reuse        \* whether the client stores into a wrapper that has a result

ASSUME WrapperAssumption ==
  /\ Conn \cap Rs = {}
  /\ NULL \notin Result
  /\ MaxRows \in Nat
  /\ MaxQueries \in Nat
  /\ InitMayFail \in BOOLEAN
  /\ Reuse \in BOOLEAN

VARIABLES
  live,            \* which objects are constructed and not destroyed
  is_initialized,  \* the flag of each mysql_connection
  mysql,           \* the MYSQL handle of each mysql_connection
  result_set,      \* the pointer of each mysql_result_set
  heap,            \* what the library holds at each MYSQL_RES address
  queries,         \* statements sent so far; they are numbered from 1
  promised         \* history: the statement whose rows store_result last
                   \* returned true for, per mysql_result_set

vars == <<live, is_initialized, mysql, result_set, heap, queries, promised>>
connVars == <<is_initialized, mysql>>
resultVars == <<result_set, heap, promised>>
-----------------------------------------------------------------------------
(* The client library.  A handle knows whether it was initialised, whether *)
(* its socket is up, the statement whose result set is waiting to be read  *)
(* (0 if none), whether the last query has columns, whether an error is    *)
(* recorded, and what affected_rows returns: "-1", or a count.             *)
Raw == [state |-> "raw", link |-> FALSE, pending |-> 0, columns |-> FALSE,
        error |-> FALSE, affected |-> "count"]
Initialised == [Raw EXCEPT !.state = "ready"]
Closed == [Raw EXCEPT !.state = "closed"]

(* A MYSQL_RES: the statement its rows come from, rows not yet fetched,    *)
(* and whether there is a current row.  An address of statement 0 is free. *)
Free == [stmt |-> 0, left |-> 0, current |-> FALSE]
Allocated == {a \in Result : heap[a].stmt # 0}
Empty(a) == heap[a].stmt = 0

Lost(h) == [h EXCEPT !.link = FALSE, !.pending = 0, !.error = TRUE, !.affected = "-1"]
Failed(h) == [h EXCEPT !.error = TRUE, !.affected = "-1"]

Types == [state : {"raw", "ready", "closed"}, link : BOOLEAN, pending : Nat,
          columns : BOOLEAN, error : BOOLEAN, affected : {"-1", "count"}]
ResultTypes == [stmt : Nat, left : Nat, current : BOOLEAN]
-----------------------------------------------------------------------------
Init ==
  /\ live = {}
  /\ is_initialized = [c \in Conn |-> FALSE]
  /\ mysql = [c \in Conn |-> Raw]
  /\ result_set = [r \in Rs |-> NULL]
  /\ heap = [a \in Result |-> Free]
  /\ queries = 0
  /\ promised = [r \in Rs |-> 0]

SetHandle(c, h) == mysql' = [mysql EXCEPT ![c] = h]

(* mysql_connection(): is_initialized = init(). *)
ConstructConnection(c) ==
  /\ c \notin live
  /\ live' = live \cup {c}
  /\ \/ /\ SetHandle(c, Initialised)
        /\ is_initialized' = [is_initialized EXCEPT ![c] = TRUE]
     \/ /\ InitMayFail
        /\ SetHandle(c, Raw)
        /\ is_initialized' = [is_initialized EXCEPT ![c] = FALSE]
  /\ UNCHANGED <<resultVars, queries>>

(* connect(): mysql_real_connect, which refuses a handle that is connected *)
(* already and leaves that connection as it is.                            *)
Connect(c) ==
  /\ c \in live
  /\ mysql[c].state # "closed"
  /\ \/ /\ ~mysql[c].link
        /\ SetHandle(c, [mysql[c] EXCEPT !.link = TRUE, !.error = FALSE])
     \/ SetHandle(c, [mysql[c] EXCEPT !.error = TRUE])
  /\ UNCHANGED <<live, is_initialized, resultVars, queries>>

(* query(): mysql_query.  Without a socket, or with a result set still to  *)
(* be read, the library refuses; otherwise the server answers with rows,   *)
(* with a row count, with an error, or the connection is lost.             *)
Query(c) ==
  /\ c \in live
  /\ mysql[c].state # "closed"
  /\ queries < MaxQueries
  /\ queries' = queries + 1
  /\ IF ~mysql[c].link \/ mysql[c].pending # 0
     THEN SetHandle(c, Failed(mysql[c]))
     ELSE \/ SetHandle(c, [mysql[c] EXCEPT !.pending = queries', !.columns = TRUE,
                                           !.error = FALSE, !.affected = "-1"])
          \/ SetHandle(c, [mysql[c] EXCEPT !.columns = FALSE, !.error = FALSE,
                                           !.affected = "count"])
          \/ SetHandle(c, [Failed(mysql[c]) EXCEPT !.columns = FALSE])
          \/ SetHandle(c, Lost(mysql[c]))
  /\ UNCHANGED <<live, is_initialized, resultVars>>

(* mysql_store_result as the wrapper sees it: a fresh MYSQL_RES with the   *)
(* rows of the pending statement, or NULL when none is pending, when there *)
(* is no memory for it, or when the connection is lost on the way.         *)
Download(c, res) ==
  \/ /\ res = NULL
     /\ mysql[c].pending = 0
     /\ UNCHANGED <<mysql, heap>>
  \/ /\ res = NULL
     /\ mysql[c].pending # 0
     /\ SetHandle(c, Lost(mysql[c]))
     /\ UNCHANGED heap
  \/ /\ res = NULL
     /\ mysql[c].pending # 0
     /\ SetHandle(c, [mysql[c] EXCEPT !.pending = 0, !.error = TRUE])
     /\ UNCHANGED heap
  \/ /\ res \in Result
     /\ mysql[c].pending # 0
     /\ Empty(res)
     /\ \E n \in 0 .. MaxRows :
          heap' = [heap EXCEPT ![res] =
                     [stmt |-> mysql[c].pending, left |-> n, current |-> FALSE]]
     /\ SetHandle(c, [mysql[c] EXCEPT !.pending = 0, !.affected = "count"])

(* mysql_result_set::init(): a pointer that is set is never overwritten. *)
InitResultSet(r, res) ==
  result_set' = [result_set EXCEPT ![r] = IF @ = NULL THEN res ELSE @]

(* Mutant of StoreResult: the pointer is never handed to the wrapper. *)
StoreWithoutInit(c, r) ==
  /\ c \in live /\ r \in live
  /\ mysql[c].state # "closed"
  /\ Reuse \/ result_set[r] = NULL
  /\ \E res \in Result \cup {NULL} :
       /\ Download(c, res)
       /\ promised' = [promised EXCEPT ![r] = IF res = NULL THEN @ ELSE mysql[c].pending]
  /\ UNCHANGED <<live, is_initialized, queries, result_set>>

(* store_result(): download, hand the pointer to the wrapper, and return   *)
(* whether there was a result.                                             *)
StoreResult(c, r) ==
  /\ c \in live /\ r \in live
  /\ mysql[c].state # "closed"
  /\ Reuse \/ result_set[r] = NULL
  /\ \E res \in Result \cup {NULL} :
       /\ Download(c, res)
       /\ InitResultSet(r, res)
       /\ promised' = [promised EXCEPT ![r] = IF res = NULL THEN @ ELSE mysql[c].pending]
  /\ UNCHANGED <<live, is_initialized, queries>>

(* ping(): finds the connection working, or notices that it is gone. *)
Ping(c) ==
  /\ c \in live
  /\ mysql[c].state # "closed"
  /\ \/ mysql[c].link /\ mysql[c].pending = 0 /\ UNCHANGED mysql
     \/ SetHandle(c, IF mysql[c].pending # 0 THEN Failed(mysql[c]) ELSE Lost(mysql[c]))
  /\ UNCHANGED <<live, is_initialized, resultVars, queries>>

(* close(): mysql_close shuts the socket and frees what the handle holds.  *)
(* is_initialized keeps its value.                                         *)
Close(c) ==
  /\ c \in live
  /\ mysql[c].state # "raw"
  /\ SetHandle(c, Closed)
  /\ UNCHANGED <<live, is_initialized, resultVars, queries>>

(* ~mysql_connection(): close() if the constructor initialised the handle, *)
(* also when the client has closed it before.                              *)
DestroyConnection(c) ==
  /\ c \in live
  /\ live' = live \ {c}
  /\ IF is_initialized[c] THEN SetHandle(c, Closed) ELSE UNCHANGED mysql
  /\ UNCHANGED <<is_initialized, resultVars, queries>>

(* Mutant of ConstructResultSet: the pointer is not set to NULL. *)
ConstructWithoutNull(r) ==
  /\ r \notin live
  /\ live' = live \cup {r}
  /\ promised' = [promised EXCEPT ![r] = 0]
  /\ UNCHANGED <<connVars, result_set, heap, queries>>

(* mysql_result_set(): result_set(NULL). *)
ConstructResultSet(r) ==
  /\ r \notin live
  /\ live' = live \cup {r}
  /\ result_set' = [result_set EXCEPT ![r] = NULL]
  /\ promised' = [promised EXCEPT ![r] = 0]
  /\ UNCHANGED <<connVars, heap, queries>>

(* mysql_fetch_row: the cursor of a result, one row further. *)
NextRow(h) ==
  IF h.left > 0 THEN [h EXCEPT !.left = h.left - 1, !.current = TRUE]
                ELSE [h EXCEPT !.current = FALSE]

(* fetch_row(): the next row becomes the current one, or there is none.    *)
FetchRow(r) ==
  /\ r \in live
  /\ result_set[r] # NULL
  /\ heap' = [heap EXCEPT ![result_set[r]] = NextRow(@)]
  /\ UNCHANGED <<live, connVars, result_set, queries, promised>>

(* fetch_lengths() has an answer only while there is a current row. *)
HasLengths(r) == result_set[r] # NULL /\ heap[result_set[r]].current

(* Mutant of DestroyResultSet: it forgets mysql_free_result. *)
DestroyWithoutFree(r) ==
  /\ r \in live
  /\ live' = live \ {r}
  /\ UNCHANGED <<connVars, result_set, heap, queries, promised>>

(* ~mysql_result_set(): mysql_free_result, which ignores NULL. *)
DestroyResultSet(r) ==
  /\ r \in live
  /\ live' = live \ {r}
  /\ heap' = [a \in Result |-> IF a = result_set[r] THEN Free ELSE heap[a]]
  /\ UNCHANGED <<connVars, result_set, queries, promised>>

Next ==
  \/ \E c \in Conn : \/ ConstructConnection(c) \/ Connect(c) \/ Query(c)
                     \/ Ping(c) \/ Close(c) \/ DestroyConnection(c)
  \/ \E r \in Rs : ConstructResultSet(r) \/ FetchRow(r) \/ DestroyResultSet(r)
  \/ \E c \in Conn, r \in Rs : StoreResult(c, r)

Spec == Init /\ [][Next]_vars
-----------------------------------------------------------------------------
Owns(r, a) == r \in live /\ result_set[r] = a

(* Each MYSQL_RES is freed once and not used afterwards: what a live       *)
(* wrapper points to is allocated, and no other live wrapper points to it, *)
(* however stores, destructions and re-allocations follow each other.      *)
ResultsHaveOneOwner ==
  \A r \in Rs, a \in Result : Owns(r, a) =>
    /\ ~Empty(a)
    /\ \A s \in Rs : Owns(s, a) => s = r

(* No MYSQL_RES is lost: whatever the library allocated, some live wrapper *)
(* will free.  This is what mysql_result_set::init() is careful about: "do *)
(* not overwrite result_set, because we would get a memory leak".          *)
NoResultLeaks == \A a \in Result : ~Empty(a) => \E r \in Rs : Owns(r, a)

(* After store_result returned true for a wrapper, the wrapper has a       *)
(* result, and its rows are those of the statement that was read: "True if *)
(* and only if the result set was downloaded successfully", into "the      *)
(* result object where the result should be stored".                       *)
RowsAreThoseStored ==
  \A r \in Rs : r \in live /\ promised[r] # 0 =>
    \E a \in Result : Owns(r, a) /\ heap[a].stmt = promised[r]

(* What the client sees: an object that is gone has no rows and is not     *)
(* connected, and a wrapper with a pointer has the rows at that address.   *)
Connected == [c \in Conn |-> IF c \in live THEN mysql[c].link ELSE FALSE]
Waiting == [c \in Conn |-> IF c \in live THEN mysql[c].pending ELSE 0]
Rows == [r \in Rs |-> IF r \in live /\ result_set[r] # NULL THEN heap[result_set[r]] ELSE Free]
Promised == [r \in Rs |-> IF r \in live THEN promised[r] ELSE 0]

I == INSTANCE DatabaseInterface WITH
       connected <- Connected, waiting <- Waiting, rows <- Rows, promised <- Promised,
       statements <- queries

(* The wrappers implement their interfaces: rows stored into an object are *)
(* its own.  No call on another object changes them, closing and           *)
(* destroying the connection they came from included, although all results *)
(* live in one heap whose addresses are handed out again.                  *)
ImplementsInterface == I!Spec

(* A handle that mysql_init() set up is closed when its object is gone,    *)
(* whether or not the client called close() first; a handle it could not   *)
(* set up is the one the destructor leaves alone.                          *)
DestroyedMeansClosed ==
  \A c \in Conn : c \notin live /\ is_initialized[c] =>
    mysql[c].state # "ready" /\ ~mysql[c].link

(* Whatever order the client calls in, neither a result nor a connection   *)
(* is left that no object will free: mysql_result_set::init() and the two  *)
(* destructors together.                                                   *)
NothingLeaks == NoResultLeaks /\ DestroyedMeansClosed
=============================================================================
