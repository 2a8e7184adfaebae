------------------------------- MODULE Accounts -------------------------------
(***************************************************************************)
(* php/my_framework/loginSystemClass: accounts are created, activated with *)
(* a code that is mailed, and logged in to.  A request is a series of SQL  *)
(* statements, each of which may fail; those of several requests           *)
(* interleave.  session_start() locks the session, so that a session has   *)
(* one request at a time.                                                  *)
(***************************************************************************)
EXTENDS Integers, Sequences, FiniteSets

CONSTANTS
  Session,      \* sessions, each one browser
  Email, Password,
  Shape,        \* what the properties of an account to create look like
  Account,      \* accounts to create: what $params of createAnAccount() has
  Hours,        \* LOGIN_SYSTEM_ACTIVATE_ACCOUNT_TIME_TO_ACTIVATE_IN_HOURS
  MaxUsers,     \* bound: rows of the table of users
  MaxTime       \* bound: hours that pass

AccountsAssumption ==
  /\ Shape \subseteq {"good", "2", "3", "5", "6"}
  /\ Account \subseteq [email : Email, password : Password, active : BOOLEAN, id : Nat]
  /\ Hours \in Nat /\ MaxUsers \in Nat /\ MaxTime \in Nat

VARIABLES
  users,      \* rows of the table of users, by id
  nextUser,   \* the next id it gives (auto_increment)
  codes,      \* rows of the verification codes
  nextCode,   \* the next id of that table
  mails,      \* mails sent: the address and the code in the link
  now,        \* the time
  at,         \* the statement the request of a session is at
  params,     \* the account it is to create
  last,       \* LAST_INSERT_ID() of its connection
  row,        \* the row of codes it has read
  connected,  \* a session is logged in (nothing reads the row it keeps of the user)
  contested   \* history: addresses that two requests at once were checking

vars == <<users, nextUser, codes, nextCode, mails, now, at, params, last, row,
          connected, contested>>
tables == <<users, nextUser, codes, nextCode, mails>>
locals == <<params, last, row>>

UserIds == DOMAIN users
Key(c) == [code |-> c.code, user |-> c.user, ct |-> c.ct]
NoRow == [id |-> 0, code |-> 0, user |-> 0, ct |-> 0]

(* Any column of the table may be among the properties of $params, so that *)
(* an account can be active at once, or bring an id (0 for none).          *)
Nobody == [email |-> "", password |-> "", active |-> FALSE, id |-> 0]

Init ==
  /\ users = <<>> /\ nextUser = 1
  /\ codes = {} /\ nextCode = 1 /\ mails = {} /\ now = 0
  /\ at = [s \in Session |-> "idle"]
  /\ params = [s \in Session |-> Nobody]
  /\ last = [s \in Session |-> 0]
  /\ row = [s \in Session |-> NoRow]
  /\ connected = [s \in Session |-> FALSE]
  /\ contested = {}

Goto(s, where) == at' = [at EXCEPT ![s] = where] /\ UNCHANGED params

(* A request goes on with the account it is to create. *)
Begin(s, a) ==
  /\ at' = [at EXCEPT ![s] = "insert"]
  /\ params' = [params EXCEPT ![s] = a]
  /\ UNCHANGED <<last, row>>

(* The request ends: it answers with a number (or a text), and its         *)
(* variables and its connection are gone.                                  *)
Return(s, what) ==
  /\ at' = [at EXCEPT ![s] = "idle"]
  /\ params' = [params EXCEPT ![s] = Nobody]
  /\ last' = [last EXCEPT ![s] = 0]
  /\ row' = [row EXCEPT ![s] = NoRow]

OfAddress(e) == {u \in UserIds : users[u].email = e}

(* createAnAccount() is called for e: another request that has checked the *)
(* same address and not yet inserted it has seen as little of it.          *)
Contest(s, e) ==
  contested' = IF \E t \in Session \ {s} : at[t] = "insert" /\ params[t].email = e
               THEN contested \cup {e} ELSE contested

(* Mutant of CheckAddress: only accounts that are active count. *)
CheckActive(s, a, shape) ==
  /\ at[s] = "idle"
  /\ \/ \E u \in OfAddress(a.email) : users[u].active /\ Return(s, "1")
     \/ /\ \A u \in OfAddress(a.email) : ~users[u].active
        /\ IF shape # "good" THEN Return(s, shape) ELSE Begin(s, a)
  /\ Contest(s, a.email)
  /\ UNCHANGED <<tables, now, connected>>

(* select count(email): 11 if it fails, 1 if there is such an account.     *)
(* Then the statement is put together, which refuses names and values that *)
(* it does not know, each with a number of its own.                        *)
CheckAddress(s, a, shape) ==
  /\ at[s] = "idle"
  /\ \/ Return(s, "11")
     \/ OfAddress(a.email) # {} /\ Return(s, "1")
     \/ /\ OfAddress(a.email) = {}
        /\ IF shape # "good" THEN Return(s, shape) ELSE Begin(s, a)
  /\ Contest(s, a.email)
  /\ UNCHANGED <<tables, now, connected>>

(* insert into users, of all that $params has.  The key of the table       *)
(* refuses an id that is there.  LAST_INSERT_ID() is an id that the table  *)
(* gave: after one that came with the account it is what it was, which is  *)
(* 0 on the connection of a new request.                                   *)
InsertUser(s) ==
  LET new == IF params[s].id = 0 THEN nextUser ELSE params[s].id
  IN /\ at[s] = "insert"
     /\ \/ Return(s, "4") /\ UNCHANGED <<users, nextUser>>
        \/ /\ new \notin UserIds /\ Cardinality(UserIds) < MaxUsers
           /\ users' = [u \in UserIds \cup {new} |->
                          IF u # new THEN users[u]
                          ELSE [email |-> params[s].email, password |-> params[s].password,
                                active |-> params[s].active]]
           /\ nextUser' = IF new < nextUser THEN nextUser ELSE new + 1
           /\ last' = [last EXCEPT ![s] = IF params[s].id = 0 THEN new ELSE @]
           /\ Goto(s, "code") /\ UNCHANGED row
     /\ UNCHANGED <<codes, nextCode, mails, now, connected, contested>>

(* Mutant of InsertCode: the user is the newest of the table. *)
InsertCodeOfNewest(s) ==
  /\ at[s] = "code"
  /\ \/ Return(s, "7") /\ UNCHANGED <<codes, nextCode>>
     \/ /\ codes' = codes \cup {[id |-> nextCode, code |-> s, user |-> nextUser - 1,
                              ct |-> now]}
        /\ nextCode' = nextCode + 1
        /\ last' = [last EXCEPT ![s] = nextCode]
        /\ Goto(s, "read") /\ UNCHANGED row
  /\ UNCHANGED <<users, nextUser, mails, now, connected, contested>>

(* insert into codes: session_id() and LAST_INSERT_ID(), the id that this  *)
(* connection inserted last.                                               *)
InsertCode(s) ==
  /\ at[s] = "code"
  /\ \/ Return(s, "7") /\ UNCHANGED <<codes, nextCode>>
     \/ /\ codes' = codes \cup {[id |-> nextCode, code |-> s, user |-> last[s], ct |-> now]}
        /\ nextCode' = nextCode + 1
        /\ last' = [last EXCEPT ![s] = nextCode]
        /\ Goto(s, "read") /\ UNCHANGED row
  /\ UNCHANGED <<users, nextUser, mails, now, connected, contested>>

(* select user, ct from codes where id = LAST_INSERT_ID().  If the row is  *)
(* gone by now, mysql_result() gives nothing for either: a link that opens *)
(* nothing is mailed.                                                      *)
ReadCode(s) ==
  LET found == {c \in codes : c.id = last[s]}
  IN /\ at[s] = "read"
     /\ \/ Return(s, "8")
        \/ \E c \in IF found = {} THEN {NoRow} ELSE found :
             /\ row' = [row EXCEPT ![s] = c]
             /\ Goto(s, "mail") /\ UNCHANGED last
     /\ UNCHANGED <<tables, now, connected, contested>>

(* mail(): the link has the code, the user and the time, each hashed. *)
SendMail(s) ==
  /\ at[s] = "mail"
  /\ \/ Return(s, "9") /\ UNCHANGED mails
     \/ /\ mails' = mails \cup {[to |-> params[s].email, key |-> Key(row[s])]}
        /\ Return(s, "10")
  /\ UNCHANGED <<users, nextUser, codes, nextCode, now, connected, contested>>
-----------------------------------------------------------------------------
Opens(k) == {c \in codes : Key(c) = k /\ now < c.ct + Hours}

(* What somebody can give as $_GET['c'] that is or was the code of a row,  *)
(* whether it was mailed or not.                                           *)
Codes == {Key(c) : c \in codes} \cup {m.key : m \in mails}

(* activateAccount() of a code: exactly one row has it and is not too old. *)
CheckCode(s, k) ==
  /\ at[s] = "idle"
  /\ \/ Return(s, "wrong or expired")
     \/ /\ Cardinality(Opens(k)) = 1
        /\ row' = [row EXCEPT ![s] = CHOOSE c \in Opens(k) : TRUE]
        /\ Goto(s, "activate") /\ UNCHANGED last
  /\ UNCHANGED <<tables, now, connected, contested>>

(* Mutant of ActivateUser: the row is deleted first. *)
DeleteFirst(s) ==
  /\ at[s] = "activate"
  /\ codes' = {c \in codes : c.id # row[s].id}
  /\ \/ Return(s, "could not activate") /\ UNCHANGED users
     \/ /\ users' = [u \in UserIds |->
                       [users[u] EXCEPT !.active = @ \/ u = row[s].user]]
        /\ Goto(s, "delete") /\ UNCHANGED <<last, row>>
  /\ UNCHANGED <<nextUser, nextCode, mails, now, connected, contested>>

(* update users set state = active, of the user of the row, if there is one. *)
ActivateUser(s) ==
  /\ at[s] = "activate"
  /\ \/ Return(s, "could not activate") /\ UNCHANGED users
     \/ /\ users' = [u \in UserIds |->
                       [users[u] EXCEPT !.active = @ \/ u = row[s].user]]
        /\ Goto(s, "delete") /\ UNCHANGED <<last, row>>
  /\ UNCHANGED <<nextUser, codes, nextCode, mails, now, connected, contested>>

(* delete from codes, whose failure nobody looks at. *)
DeleteCode(s) ==
  /\ at[s] = "delete"
  /\ codes' \in {codes, {c \in codes : c.id # row[s].id}}
  /\ Return(s, "activated")
  /\ UNCHANGED <<users, nextUser, nextCode, mails, now, connected, contested>>

(* logIn(): exactly one row has the address and the password.  A session   *)
(* that is connected stays so when it fails.                               *)
LogIn(s, e, p) ==
  /\ at[s] = "idle"
  /\ LET rows == {u \in OfAddress(e) : users[u].password = p}
     IN \/ /\ Cardinality(rows) = 1
           /\ connected' = [connected EXCEPT ![s] = TRUE]
        \/ UNCHANGED connected
  /\ Return(s, "1 or 2")
  /\ UNCHANGED <<tables, now, contested>>

Tick == now < MaxTime /\ now' = now + 1
        /\ UNCHANGED <<tables, at, locals, connected, contested>>

Step(s) ==
  \/ \E e \in Email, p \in Password : LogIn(s, e, p)
  \/ \E a \in Account, shape \in Shape : CheckAddress(s, a, shape)
  \/ InsertUser(s) \/ InsertCode(s) \/ ReadCode(s) \/ SendMail(s)
  \/ \E k \in Codes : CheckCode(s, k)
  \/ ActivateUser(s) \/ DeleteCode(s)

Next == Tick \/ \E s \in Session : Step(s)

Spec == Init /\ [][Next]_vars
-----------------------------------------------------------------------------
(* A code never leads to the account of another address than the one it   *)
(* was mailed to, also when accounts are created at the same time, and     *)
(* whatever $params has: the user of the code is LAST_INSERT_ID().  That a *)
(* mail is needed to be active is not promised: $params can say so.        *)
CodesServeTheirAddress ==
  \A m \in mails : m.key.user \in UserIds => users[m.key.user].email = m.to

(* An address has one account ("1 = There is another account with the same *)
(* email"), unless it was checked for two requests before either inserted  *)
(* it.  With two, logIn() of both with one password would find two rows    *)
(* and let nobody in.                                                      *)
OneAccountPerAddress ==
  \A e \in Email \ contested : Cardinality(OfAddress(e)) <= 1

(* Until it is too old, a link that was mailed for an account leads to one *)
(* that is active or can be activated with it (one row, no more, has its   *)
(* code), whichever statement fails.  An account that brought its id along *)
(* was mailed a link for no account at all.                                *)
MailedCodesWork ==
  \A m \in mails : m.key.user \in UserIds /\ now < m.key.ct + Hours =>
    users[m.key.user].active \/ Cardinality(Opens(m.key)) = 1
=============================================================================
