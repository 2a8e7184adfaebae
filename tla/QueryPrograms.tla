---------------------------- MODULE QueryPrograms ----------------------------
(***************************************************************************)
(* The programs of the repository that use the database wrappers:          *)
(* detailed_query (its two halves, one after the other), fast_query, and   *)
(* the mysql_user of the unit test, on a connection and wrappers that may  *)
(* fail at every call.  A program is a table: what it does at a label, and *)
(* where it goes when the call says yes and when it says no.               *)
(***************************************************************************)
EXTENDS MysqlWrappers

CONSTANTS
  conn,        \* the connection a program declares
  rs1, rs2,    \* the result sets it declares
  Programs     \* the programs to run: their first labels

ProgramAssumption ==
  /\ Conn = {conn}
  /\ Rs = {rs1, rs2}
  /\ rs1 # rs2
  /\ Programs \subseteq {"n_connection", "f_connection", "u_connection"}

VARIABLES
  pc,      \* the label of the next statement
  crashed  \* whether it looked at a row or at lengths that are not there

progVars == <<vars, pc, crashed>>

(* Both halves of detailed_query; in the second one, result lives in the   *)
(* block where it is read.                                                 *)
Detailed == [
  n_connection |-> [do |-> "connection", yes |-> "n_connect", no |-> "n_connect"],
  n_connect    |-> [do |-> "connect", yes |-> "n_query", no |-> "n_affected"],
  n_query      |-> [do |-> "query", yes |-> "n_affected", no |-> "n_affected"],
  n_affected   |-> [do |-> "affected", yes |-> "n_close", no |-> "n_close"],
  n_close      |-> [do |-> "close", yes |-> "w_connection", no |-> "w_connection"],
  w_connection |-> [do |-> "connection", yes |-> "w_connect", no |-> "w_connect"],
  w_connect    |-> [do |-> "connect", yes |-> "w_query", no |-> "w_close"],
  w_query      |-> [do |-> "query", yes |-> "w_columns", no |-> "w_close"],
  w_columns    |-> [do |-> "columns", yes |-> "w_result", no |-> "w_close"],
  w_result     |-> [do |-> "result", of |-> rs1, yes |-> "w_store", no |-> "w_store"],
  w_store      |-> [do |-> "store", of |-> rs1, yes |-> "w_fetch", no |-> "w_free"],
  w_fetch      |-> [do |-> "fetch", of |-> rs1, yes |-> "w_lengths", no |-> "w_free"],
  w_lengths    |-> [do |-> "lengths", of |-> rs1, yes |-> "w_fetch", no |-> "crash"],
  w_free       |-> [do |-> "free", of |-> rs1, yes |-> "w_close", no |-> "w_close"],
  w_close      |-> [do |-> "close", yes |-> "done", no |-> "done"]]

(* fast_query looks at no return value but that of the loop's fetch_row,   *)
(* and indexes the row of its last fetch_row as it comes.                  *)
Fast == [
  f_connection |-> [do |-> "connection", yes |-> "f_result1", no |-> "f_result1"],
  f_result1    |-> [do |-> "result", of |-> rs1, yes |-> "f_result2", no |-> "f_result2"],
  f_result2    |-> [do |-> "result", of |-> rs2, yes |-> "f_connect", no |-> "f_connect"],
  f_connect    |-> [do |-> "connect", yes |-> "f_query1", no |-> "f_query1"],
  f_query1     |-> [do |-> "query", yes |-> "f_store1", no |-> "f_store1"],
  f_store1     |-> [do |-> "store", of |-> rs1, yes |-> "f_fetch1", no |-> "f_fetch1"],
  f_fetch1     |-> [do |-> "fetch", of |-> rs1, yes |-> "f_fetch1", no |-> "f_query2"],
  f_query2     |-> [do |-> "query", yes |-> "f_store2", no |-> "f_store2"],
  f_store2     |-> [do |-> "store", of |-> rs2, yes |-> "f_fetch2", no |-> "f_fetch2"],
  f_fetch2     |-> [do |-> "fetch", of |-> rs2, yes |-> "f_free2", no |-> "crash"],
  f_free2      |-> [do |-> "free", of |-> rs2, yes |-> "f_free1", no |-> "f_free1"],
  f_free1      |-> [do |-> "free", of |-> rs1, yes |-> "f_close", no |-> "f_close"],
  f_close      |-> [do |-> "close", yes |-> "done", no |-> "done"]]

(* mysql_user::do_something, between the caller's objects.                 *)
User == [
  u_connection |-> [do |-> "connection", yes |-> "u_result", no |-> "u_result"],
  u_result     |-> [do |-> "result", of |-> rs1, yes |-> "u_connect", no |-> "u_connect"],
  u_connect    |-> [do |-> "connect", yes |-> "u_query", no |-> "u_query"],
  u_query      |-> [do |-> "query", yes |-> "u_store", no |-> "u_store"],
  u_store      |-> [do |-> "store", of |-> rs1, yes |-> "u_fetch", no |-> "u_fetch"],
  u_fetch      |-> [do |-> "fetch", of |-> rs1, yes |-> "u_fetch", no |-> "u_free"],
  u_free       |-> [do |-> "free", of |-> rs1, yes |-> "u_close", no |-> "u_close"],
  u_close      |-> [do |-> "close", yes |-> "done", no |-> "done"]]

Labels == DOMAIN Detailed \cup DOMAIN Fast \cup DOMAIN User
Statements == [label \in Labels |->
  CASE label \in DOMAIN Detailed -> Detailed[label]
    [] label \in DOMAIN Fast -> Fast[label]
    [] label \in DOMAIN User -> User[label]]

(* Mutants of Code: detailed_query reads what it could not store, and      *)
(* fast_query stores its second result into the first wrapper.             *)
ReadsAnyway(label) == [Statements EXCEPT !["w_store"].no = "w_fetch"][label]
StoresTwice(label) == [Statements EXCEPT !["f_store2"].of = rs1][label]

(* The statement at a label. *)
Code(label) == Statements[label]

ProgInit == Init /\ pc \in Programs /\ crashed = FALSE

At(op) == ~crashed /\ pc \in Labels /\ Code(pc).do = op

Goto(label) ==
  /\ crashed' = (label = "crash")
  /\ pc' = IF label = "crash" THEN pc ELSE label

Branch(answer) == Goto(IF answer THEN Code(pc).yes ELSE Code(pc).no)

(* Declarations, and the destructors at the end of their scope.            *)
DeclareConnection == At("connection") /\ ConstructConnection(conn) /\ Branch(TRUE)
DeclareResult == At("result") /\ ConstructResultSet(Code(pc).of) /\ Branch(TRUE)
LeaveResult == At("free") /\ DestroyResultSet(Code(pc).of) /\ Branch(TRUE)
LeaveConnection == At("close") /\ DestroyConnection(conn) /\ Branch(TRUE)

(* Calls that say whether they succeeded.                                  *)
CallConnect == At("connect") /\ Connect(conn) /\ Branch(mysql'[conn].link)
CallQuery == At("query") /\ Query(conn) /\ Branch(~mysql'[conn].error)
CallStore ==
  /\ At("store")
  /\ StoreResult(conn, Code(pc).of)
  /\ Branch(promised'[Code(pc).of] # 0)

(* fetch_row on a result.                                                  *)
CallFetch ==
  /\ At("fetch")
  /\ FetchRow(Code(pc).of)
  /\ Branch(heap'[result_set[Code(pc).of]].current)

(* fetch_row on a wrapper that never got one: the library is given a null  *)
(* MYSQL_RES and answers NULL or fails, depending on the library.          *)
CallFetchOnNull ==
  /\ At("fetch")
  /\ result_set[Code(pc).of] = NULL
  /\ Goto(Code(pc).no) \/ Goto("crash")
  /\ UNCHANGED vars

(* Questions that change nothing: field_count, fetch_lengths.              *)
AskColumns == At("columns") /\ Branch(mysql[conn].columns) /\ UNCHANGED vars
AskLengths == At("lengths") /\ Branch(HasLengths(Code(pc).of)) /\ UNCHANGED vars

(* cout << "Affected " << conn.affected_rows() << " rows", asked whether or *)
(* not there was a connection.                                             *)
ShowAffected == At("affected") /\ Branch(TRUE) /\ UNCHANGED vars

ProgNext ==
  \/ DeclareConnection \/ DeclareResult \/ LeaveResult \/ LeaveConnection
  \/ CallConnect \/ CallQuery \/ CallStore \/ CallFetch \/ CallFetchOnNull
  \/ AskColumns \/ AskLengths \/ ShowAffected

ProgSpec == ProgInit /\ [][ProgNext]_progVars
-----------------------------------------------------------------------------
(* fetch_row and fetch_lengths may answer NULL, and there may be no result *)
(* at all; detailed_query looks at rows and lengths only when it has some, *)
(* on every one of its paths.                                              *)
DetailedNeverCrashes == crashed => pc \notin DOMAIN Detailed

=============================================================================
