-------------------------- MODULE DatabaseInterface --------------------------
(***************************************************************************)
(* What the interfaces of the database layer promise to a client:          *)
(* interface::mysql_connection and interface::mysql_result_set, where a    *)
(* result set is a value that belongs to the object it was stored into.    *)
(* There is no client library here, no handle, no address and nothing to   *)
(* free.                                                                   *)
(***************************************************************************)
EXTENDS Naturals

CONSTANTS
  Conn,        \* mysql_connection objects
  Rs,          \* mysql_result_set objects
  MaxRows      \* bound: rows of one result set

VARIABLES
  live,        \* objects that exist
  connected,   \* whether a connection is established, as far as the client knows
  waiting,     \* per connection, the statement whose result set store_result
               \* would read; 0 if there is none
  rows,        \* the result set in each mysql_result_set
  promised,    \* the statement store_result last returned true for, per
               \* mysql_result_set; 0 if there is none
  statements   \* statements sent; they are numbered from 1

vars == <<live, connected, waiting, rows, promised, statements>>
-----------------------------------------------------------------------------
(* A result set: the statement it is the answer to, the rows still to be   *)
(* retrieved, and whether fetch_lengths() has a current row to speak of.   *)
(* Statement 0 stands for an object that holds none.                       *)
Nothing == [stmt |-> 0, left |-> 0, current |-> FALSE]
Downloaded(s, n) == [stmt |-> s, left |-> n, current |-> FALSE]

Init ==
  /\ live = {}
  /\ connected = [c \in Conn |-> FALSE]
  /\ waiting = [c \in Conn |-> 0]
  /\ rows = [r \in Rs |-> Nothing]
  /\ promised = [r \in Rs |-> 0]
  /\ statements = 0

(* A new object is neither connected nor does it hold rows, whatever the   *)
(* objects before it did.                                                  *)
Construct(o) ==
  /\ o \notin live
  /\ live' = live \cup {o}
  /\ UNCHANGED <<connected, waiting, rows, promised, statements>>

(* The connection is over: it was closed, destroyed or lost. *)
Disconnected(c) ==
  /\ connected' = [connected EXCEPT ![c] = FALSE]
  /\ waiting' = [waiting EXCEPT ![c] = 0]

(* connect(): "True if and only if the connection was successful". *)
connect(c) ==
  /\ c \in live
  /\ \/ connected' = [connected EXCEPT ![c] = TRUE]
     \/ UNCHANGED connected
  /\ UNCHANGED <<live, waiting, rows, promised, statements>>

(* ping(): the connection is active, or an error is noticed. *)
ping(c) ==
  /\ c \in live
  /\ Disconnected(c) \/ UNCHANGED <<connected, waiting>>
  /\ UNCHANGED <<live, rows, promised, statements>>

(* query(): the statement is executed, and if it is SELECT-like its result *)
(* set waits; or an error occurred.                                        *)
query(c) ==
  /\ c \in live
  /\ statements' = statements + 1
  /\ \/ /\ connected[c] /\ waiting[c] = 0
        /\ waiting' = [waiting EXCEPT ![c] = statements']
        /\ UNCHANGED connected
     \/ Disconnected(c)
     \/ UNCHANGED <<connected, waiting>>
  /\ UNCHANGED <<live, rows, promised>>

(* store_result() returns true: the entire result set is in the object     *)
(* given, unless it has one already; the init of a result set ignores a    *)
(* second call.                                                            *)
store_result(c, r) ==
  /\ c \in live /\ r \in live
  /\ waiting[c] # 0
  /\ waiting' = [waiting EXCEPT ![c] = 0]
  /\ promised' = [promised EXCEPT ![r] = waiting[c]]
  /\ \E n \in 0 .. MaxRows :
       rows' = [rows EXCEPT ![r] = IF @ = Nothing THEN Downloaded(waiting[c], n) ELSE @]
  /\ UNCHANGED <<live, connected, statements>>

(* store_result() returns false: there was nothing to read, or an error    *)
(* getting it from the server.  No result set is touched.                  *)
store_result_fails(c) ==
  /\ c \in live
  /\ waiting' = [waiting EXCEPT ![c] = 0]
  /\ \/ connected' = [connected EXCEPT ![c] = FALSE]
     \/ UNCHANGED connected
  /\ UNCHANGED <<live, rows, promised, statements>>

(* close(): of the connection, not of what was read from it. *)
close(c) ==
  /\ c \in live
  /\ Disconnected(c)
  /\ UNCHANGED <<live, rows, promised, statements>>

(* ~mysql_connection() *)
DestroyConnection(c) ==
  /\ c \in live
  /\ live' = live \ {c}
  /\ Disconnected(c)
  /\ UNCHANGED <<rows, promised, statements>>

(* "The next row of a result set", and none "when there are no more rows   *)
(* to retrieve", after which there is no current row either.               *)
RowTaken(set) ==
  IF set.left > 0 THEN [set EXCEPT !.left = set.left - 1, !.current = TRUE]
                  ELSE [set EXCEPT !.current = FALSE]

(* fetch_row() *)
fetch_row(r) ==
  /\ r \in live
  /\ rows[r] # Nothing
  /\ rows' = [rows EXCEPT ![r] = RowTaken(@)]
  /\ UNCHANGED <<live, connected, waiting, promised, statements>>

(* ~mysql_result_set() *)
DestroyResultSet(r) ==
  /\ r \in live
  /\ live' = live \ {r}
  /\ rows' = [rows EXCEPT ![r] = Nothing]
  /\ promised' = [promised EXCEPT ![r] = 0]
  /\ UNCHANGED <<connected, waiting, statements>>

Next ==
  \/ \E c \in Conn : \/ Construct(c) \/ connect(c) \/ ping(c) \/ query(c)
                     \/ store_result_fails(c) \/ close(c) \/ DestroyConnection(c)
  \/ \E r \in Rs : Construct(r) \/ fetch_row(r) \/ DestroyResultSet(r)
  \/ \E c \in Conn, r \in Rs : store_result(c, r)

Spec == Init /\ [][Next]_vars
=============================================================================
