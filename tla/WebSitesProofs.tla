---------------------------- MODULE WebSitesProofs ----------------------------
(* The PHP sites of MC_WebSites, for any number of requests at once, of    *)
(* accounts and of computers.                                              *)
EXTENDS MC_WebSites, FiniteSetTheorems, SequenceTheorems, TLAPS

(* The operator of the instances is the one the theorems are about. *)
LEMMA SameCardinality ==
  \A S : A!Cardinality(S) = Cardinality(S) /\ T!Cardinality(S) = Cardinality(S)
BY DEF A!Cardinality, T!Cardinality, Cardinality

(* A set with at most one element, in two ways. *)
LEMMA AtMostOne ==
  ASSUME NEW S, \A x, y \in S : x = y
  PROVE  Cardinality(S) <= 1
<1>1. CASE S = {}
  BY <1>1, FS_EmptySet
<1>2. CASE S # {}
  <2>1. PICK x : S = {x}
    BY <1>2
  <2>2. QED BY <2>1, FS_Singleton
<1>3. QED BY <1>1, <1>2
-----------------------------------------------------------------------------
(* Accounts: the tables and the variables of the requests. *)
Record == [email : Email, password : Password, active : BOOLEAN, id : Nat]
UserRow == [email : Email, password : Password, active : BOOLEAN]
CodeRow == [id : Nat, code : Session, user : Nat, ct : Nat]
Statement == {"idle", "insert", "code", "read", "mail", "activate", "delete"}

TablesTyped ==
  /\ A!UserIds \subseteq Nat \ {0}
  /\ \A u \in A!UserIds : users[u] \in UserRow
  /\ nextUser \in Nat \ {0}
  /\ codes \subseteq CodeRow
  /\ nextCode \in Nat \ {0}
  /\ mails \subseteq [to : Email, key : [code : Session \cup {0}, user : Nat, ct : Nat]]
  /\ now \in Nat
  /\ contested \subseteq Email

LocalsTyped ==
  /\ pc \in [Session -> Statement]
  /\ params \in [Session -> Record \cup {A!Nobody}]
  /\ \A s \in Session : pc[s] \in {"insert", "code", "read", "mail"} => params[s] \in Record
  /\ last \in [Session -> Nat]
  /\ row \in [Session -> CodeRow \cup {A!NoRow}]
  /\ \A s \in Session : pc[s] \in {"activate", "delete"} => row[s] \in CodeRow

AccountsTyped == TablesTyped /\ LocalsTyped

LEMMA AccountsTypedInit == A!Init => AccountsTyped
  BY SitesAssumption
     DEF A!Init, AccountsTyped, TablesTyped, LocalsTyped, Statement, A!AccountsAssumption,
         A!UserIds

LEMMA AccountIsRecord == \A a \in Account : a \in Record /\ a.email \in Email
  BY SitesAssumption DEF A!AccountsAssumption, Record

(* The row that a request finds is one of those its code opens. *)
LEMMA OpensOne ==
  ASSUME NEW k, A!Cardinality(A!Opens(k)) = 1
  PROVE  (CHOOSE c \in A!Opens(k) : TRUE) \in A!Opens(k) /\ A!Opens(k) \subseteq codes
<1>1. Cardinality(A!Opens(k)) = 1
  BY SameCardinality
<1>2. A!Opens(k) # {}
  BY <1>1, FS_EmptySet
<1>3. QED BY <1>2 DEF A!Opens

(* What the insert of a user changes: a row more, with the address of the  *)
(* request.  It was inserted last, unless it brought its id along.         *)
Inserted(s, new) ==
  /\ new \in Nat \ {0} /\ new \notin A!UserIds
  /\ A!UserIds' = A!UserIds \cup {new}
  /\ \A u \in A!UserIds : users'[u] = users[u]
  /\ users'[new] \in UserRow /\ users'[new].email = params[s].email
  /\ nextUser' \in Nat \ {0}
  /\ \E n \in {last[s], new} : last' = [last EXCEPT ![s] = n]
  /\ A!Goto(s, "code") /\ UNCHANGED row

LEMMA InsertUserInserts ==
  ASSUME AccountsTyped, NEW s \in Session, A!InsertUser(s)
  PROVE  \/ A!Return(s, "4") /\ UNCHANGED <<users, nextUser>>
         \/ \E new \in Nat \ {0} : Inserted(s, new)
<1> DEFINE new == IF params[s].id = 0 THEN nextUser ELSE params[s].id
<1>1. CASE A!Return(s, "4") /\ UNCHANGED <<users, nextUser>>
  BY <1>1
<1>2. CASE ~(A!Return(s, "4") /\ UNCHANGED <<users, nextUser>>)
  <2> DEFINE added == [email |-> params[s].email, password |-> params[s].password,
                       active |-> params[s].active]
  <2>1. /\ new \notin A!UserIds
        /\ users' = [u \in A!UserIds \cup {new} |-> IF u # new THEN users[u] ELSE added]
        /\ nextUser' = IF new < nextUser THEN nextUser ELSE new + 1
        /\ last' = [last EXCEPT ![s] = IF params[s].id = 0 THEN new ELSE last[s]]
        /\ A!Goto(s, "code") /\ UNCHANGED row
    BY <1>2 DEF A!InsertUser
  <2>2. params[s] \in Record /\ nextUser \in Nat \ {0}
    BY DEF A!InsertUser, AccountsTyped, TablesTyped, LocalsTyped
  <2>3. new \in Nat \ {0}
    BY <2>2 DEF Record
  <2>4. added \in UserRow /\ added.email = params[s].email
    BY <2>2 DEF Record, UserRow
  <2>5. \E n \in {last[s], new} : last' = [last EXCEPT ![s] = n]
    <3>1. CASE params[s].id = 0
      <4>1. last' = [last EXCEPT ![s] = new]
        BY <2>1, <3>1
      <4> HIDE DEF new
      <4>2. QED BY <4>1
    <3>2. CASE params[s].id # 0
      BY <2>1, <3>2
    <3>3. QED BY <3>1, <3>2
  <2> HIDE DEF new, added
  <2>6. /\ A!UserIds' = A!UserIds \cup {new} /\ users'[new] = added
        /\ \A u \in A!UserIds : users'[u] = users[u]
    <3>1. A!UserIds' = DOMAIN users'
      BY DEF A!UserIds
    <3>2. QED BY <2>1, <3>1
  <2>7. nextUser' \in Nat \ {0}
    BY <2>1, <2>2, <2>3
  <2>8. QED BY <2>1, <2>3, <2>4, <2>5, <2>6, <2>7 DEF Inserted
<1>3. QED BY <1>1, <1>2

(* What the activation of a user changes: nothing, if there is none. *)
Activated(user) ==
  /\ A!UserIds' = A!UserIds
  /\ \A u \in A!UserIds :
       /\ users'[u] \in UserRow /\ users'[u].email = users[u].email
       /\ users'[u].active <=> users[u].active \/ u = user

LEMMA ActivateRow ==
  ASSUME TablesTyped, NEW s \in Session, A!ActivateUser(s)
  PROVE  \/ A!Return(s, "could not activate") /\ UNCHANGED users
         \/ Activated(row[s].user) /\ A!Goto(s, "delete") /\ UNCHANGED <<last, row>>
<1> DEFINE active(u) == [users[u] EXCEPT !.active = @ \/ u = row[s].user]
<1>1. CASE A!Return(s, "could not activate") /\ UNCHANGED users
  BY <1>1
<1>2. CASE ~(A!Return(s, "could not activate") /\ UNCHANGED users)
  <2>1. /\ users' = [u \in A!UserIds |-> active(u)]
        /\ A!Goto(s, "delete") /\ UNCHANGED <<last, row>>
    BY <1>2 DEF A!ActivateUser
  <2>2. \A r \in UserRow : \A b \in BOOLEAN :
          /\ [r EXCEPT !.active = r.active \/ b] \in UserRow
          /\ [r EXCEPT !.active = r.active \/ b].email = r.email
          /\ [r EXCEPT !.active = r.active \/ b].active <=> r.active \/ b
    BY DEF UserRow
  <2>3. \A u \in A!UserIds : /\ active(u) \in UserRow /\ active(u).email = users[u].email
                             /\ active(u).active <=> users[u].active \/ u = row[s].user
    BY <2>2 DEF TablesTyped
  <2> HIDE DEF active
  <2>4. QED BY <2>1, <2>3 DEF Activated, A!UserIds
<1>3. QED BY <1>1, <1>2

(* Of the variables of the requests a step changes those of one. *)
LEMMA ReturnTyped ==
  ASSUME NEW s \in Session, NEW what, LocalsTyped, A!Return(s, what)
  PROVE  LocalsTyped'
BY DEF LocalsTyped, A!Return, Statement

LEMMA GotoTyped ==
  ASSUME NEW s \in Session, LocalsTyped,
         NEW where \in Statement \ {"insert"}, A!Goto(s, where),
         where \in {"code", "read", "mail"} => params[s] \in Record,
         where \in {"activate", "delete"} => row'[s] \in CodeRow,
         last' = last \/ \E n \in Nat : last' = [last EXCEPT ![s] = n],
         row' = row \/ \E c \in CodeRow \cup {A!NoRow} : row' = [row EXCEPT ![s] = c]
  PROVE  LocalsTyped'
BY DEF LocalsTyped, A!Goto

LEMMA AccountsTypedNext == AccountsTyped /\ [A!Next]_accountVars => AccountsTyped'
<1> SUFFICES ASSUME TablesTyped, LocalsTyped, [A!Next]_accountVars PROVE AccountsTyped'
  BY DEF AccountsTyped
<1> USE DEF A!tables, A!locals, AccountsTyped
<1>1. ASSUME A!Tick PROVE AccountsTyped'
  BY <1>1 DEF A!Tick, TablesTyped, LocalsTyped, A!UserIds
<1>2. ASSUME NEW s \in Session, A!Step(s) PROVE AccountsTyped'
  <2>1. ASSUME NEW e \in Email, NEW p \in Password, A!LogIn(s, e, p) PROVE AccountsTyped'
    <3>1. LocalsTyped'
      BY <2>1, ReturnTyped DEF A!LogIn
    <3>2. TablesTyped'
      BY <2>1 DEF A!LogIn, TablesTyped, A!UserIds
    <3>3. QED BY <3>1, <3>2
  <2>2. ASSUME NEW a \in Account, NEW shape \in Shape, A!CheckAddress(s, a, shape)
        PROVE  AccountsTyped'
    <3>1. a \in Record /\ a.email \in Email
      BY AccountIsRecord
    <3>2. ASSUME A!Begin(s, a)
          PROVE  LocalsTyped'
      <4>1. /\ params' \in [Session -> Record \cup {A!Nobody}]
            /\ params'[s] \in Record /\ \A t \in Session \ {s} : params'[t] = params[t]
        BY <3>1, <3>2 DEF A!Begin, LocalsTyped
      <4>2. /\ pc' \in [Session -> Statement]
            /\ pc'[s] = "insert" /\ \A t \in Session \ {s} : pc'[t] = pc[t]
        BY <3>2 DEF A!Begin, LocalsTyped, Statement
      <4>3. UNCHANGED <<last, row>>
        BY <3>2 DEF A!Begin
      <4>4. QED BY <4>1, <4>2, <4>3 DEF LocalsTyped
    <3>3. LocalsTyped'
      BY <2>2, <3>2, ReturnTyped DEF A!CheckAddress
    <3>4. TablesTyped'
      BY <2>2, <3>1 DEF A!CheckAddress, A!Contest, TablesTyped, A!UserIds
    <3>5. QED BY <3>3, <3>4
  <2>3. CASE A!InsertUser(s)
    <3>1. UNCHANGED <<codes, nextCode, mails, now, contested>>
      BY <2>3 DEF A!InsertUser
    <3>2. ASSUME A!Return(s, "4"), UNCHANGED <<users, nextUser>> PROVE AccountsTyped'
      BY <3>1, <3>2, ReturnTyped DEF TablesTyped, A!UserIds
    <3>3. ASSUME NEW new \in Nat \ {0}, Inserted(s, new) PROVE AccountsTyped'
      <4>1. params[s] \in Record /\ last[s] \in Nat
        BY <2>3 DEF A!InsertUser, LocalsTyped
      <4>2. LocalsTyped'
        BY <3>3, <4>1, GotoTyped DEF Statement, Inserted
      <4>3. TablesTyped'
        BY <3>1, <3>3 DEF TablesTyped, Inserted
      <4>4. QED BY <4>2, <4>3
    <3>4. QED BY <2>3, <3>2, <3>3, InsertUserInserts
  <2>4. CASE A!InsertCode(s)
    <3>1. params[s] \in Record /\ last[s] \in Nat /\ nextCode \in Nat /\ now \in Nat
      BY <2>4 DEF A!InsertCode, LocalsTyped, TablesTyped
    <3>2. ASSUME A!Goto(s, "read") /\ UNCHANGED row /\ last' = [last EXCEPT ![s] = nextCode]
          PROVE  LocalsTyped'
      BY <3>1, <3>2, GotoTyped DEF Statement
    <3>3. LocalsTyped'
      BY <2>4, <3>2, ReturnTyped DEF A!InsertCode
    <3>4. TablesTyped'
      BY <2>4, <3>1 DEF A!InsertCode, TablesTyped, CodeRow, A!UserIds
    <3>5. QED BY <3>3, <3>4
  <2>5. CASE A!ReadCode(s)
    <3>1. params[s] \in Record
      BY <2>5 DEF A!ReadCode, LocalsTyped
    <3>2. ASSUME NEW c \in codes \cup {A!NoRow}, row' = [row EXCEPT ![s] = c],
                 A!Goto(s, "mail"), UNCHANGED last
          PROVE  LocalsTyped'
      <4>1. c \in CodeRow \cup {A!NoRow}
        BY DEF TablesTyped
      <4>2. QED BY <3>1, <3>2, <4>1, GotoTyped DEF Statement
    <3>3. LocalsTyped'
      BY <2>5, <3>2, ReturnTyped DEF A!ReadCode
    <3>4. TablesTyped'
      BY <2>5 DEF A!ReadCode, TablesTyped, A!UserIds
    <3>5. QED BY <3>3, <3>4
  <2>6. CASE A!SendMail(s)
    <3>1. params[s] \in Record /\ row[s] \in CodeRow \cup {A!NoRow}
      BY <2>6 DEF A!SendMail, LocalsTyped
    <3>2. LocalsTyped'
      BY <2>6, ReturnTyped DEF A!SendMail
    <3>3. TablesTyped'
      <4>1. A!Key(row[s]) \in [code : Session \cup {0}, user : Nat, ct : Nat]
        BY <3>1 DEF A!Key, A!NoRow, CodeRow
      <4>2. [to |-> params[s].email, key |-> A!Key(row[s])]
              \in [to : Email, key : [code : Session \cup {0}, user : Nat, ct : Nat]]
        BY <3>1, <4>1 DEF Record
      <4>3. QED BY <2>6, <4>2 DEF A!SendMail, TablesTyped, A!UserIds
    <3>4. QED BY <3>2, <3>3
  <2>7. ASSUME NEW k, A!CheckCode(s, k) PROVE AccountsTyped'
    <3>1. ASSUME NEW c \in codes, row' = [row EXCEPT ![s] = c], A!Goto(s, "activate"),
                 UNCHANGED last
          PROVE  LocalsTyped'
      BY <3>1 DEF LocalsTyped, TablesTyped, Statement, A!Goto
    <3>2. LocalsTyped'
      BY <2>7, <3>1, OpensOne, ReturnTyped DEF A!CheckCode
    <3>3. TablesTyped'
      BY <2>7 DEF A!CheckCode, TablesTyped, A!UserIds
    <3>4. QED BY <3>2, <3>3
  <2>8. CASE A!ActivateUser(s)
    <3>1. UNCHANGED <<nextUser, codes, nextCode, mails, now, contested>>
      BY <2>8 DEF A!ActivateUser
    <3>2. ASSUME A!Return(s, "could not activate"), UNCHANGED users PROVE AccountsTyped'
      BY <3>1, <3>2, ReturnTyped DEF TablesTyped, A!UserIds
    <3>3. ASSUME Activated(row[s].user), A!Goto(s, "delete"), UNCHANGED <<last, row>>
          PROVE  AccountsTyped'
      <4>1. row'[s] \in CodeRow
        BY <2>8, <3>3, Zenon DEF A!ActivateUser, LocalsTyped
      <4>2. LocalsTyped'
        BY <3>3, <4>1, GotoTyped DEF Statement
      <4>3. TablesTyped'
        BY <3>1, <3>3 DEF TablesTyped, Activated
      <4>4. QED BY <4>2, <4>3
    <3>4. QED BY <2>8, <3>2, <3>3, ActivateRow
  <2>9. CASE A!DeleteCode(s)
    <3>1. LocalsTyped'
      BY <2>9, ReturnTyped DEF A!DeleteCode
    <3>2. TablesTyped'
      BY <2>9 DEF A!DeleteCode, TablesTyped, A!UserIds
    <3>3. QED BY <3>1, <3>2
  <2>10. QED BY <1>2, <2>1, <2>2, <2>3, <2>4, <2>5, <2>6, <2>7, <2>8, <2>9 DEF A!Step
<1>3. CASE UNCHANGED accountVars
  BY <1>3 DEF accountVars, TablesTyped, LocalsTyped, A!UserIds
<1>4. QED BY <1>1, <1>2, <1>3 DEF A!Next
-----------------------------------------------------------------------------
(* Accounts: the strengthening.  A row of codes belongs to one user, who   *)
(* has no other; those of users who brought their ids along belong to 0,   *)
(* which is nobody.                                                        *)
RowsAreDistinct ==
  /\ \A c \in codes : c.id < nextCode /\ c.user \in A!UserIds \cup {0}
  /\ \A c, d \in codes : c.id = d.id \/ (c.user = d.user /\ c.user # 0) => c = d

(* LAST_INSERT_ID() of a request that has inserted a user: that user, whom *)
(* no other request has inserted and no code is for.                       *)
UsersAreNew ==
  /\ \A s \in Session : pc[s] \in {"idle", "insert"} => last[s] = 0
  /\ \A s \in Session : pc[s] = "code" /\ last[s] # 0 =>
       /\ last[s] \in A!UserIds
       /\ users[last[s]].email = params[s].email
       /\ \A c \in codes : c.user # last[s]
       /\ \A t \in Session \ {s} : pc[t] = "code" => last[t] # last[s]

(* The row c is for no one, or for the user that s has inserted.           *)
RowServes(s, c) ==
  c.user # 0 => c.user \in A!UserIds /\ users[c.user].email = params[s].email

(* A code in a mail is still there or has served: what it opens is active. *)
Served(user) == user # 0 => users[user].active

(* And of one that has inserted a code: that row, or one that has served.  *)
CodesAreNew ==
  /\ \A s \in Session : pc[s] = "read" =>
       last[s] < nextCode /\ \A c \in codes : c.id = last[s] => RowServes(s, c)
  /\ \A s \in Session : pc[s] = "mail" =>
       RowServes(s, row[s]) /\ (Served(row[s].user) \/ row[s] \in codes)

(* What an activation has read is a row, which serves before it is deleted. *)
CodesAreRows ==
  \A s \in Session : pc[s] \in {"activate", "delete"} =>
    /\ row[s].id < nextCode /\ row[s].user \in A!UserIds \cup {0}
    /\ \A c \in codes : c.id = row[s].id => c = row[s]
    /\ pc[s] = "delete" => Served(row[s].user)

MailsServe ==
  \A m \in mails :
    /\ m.key.user # 0 => m.key.user \in A!UserIds /\ users[m.key.user].email = m.to
    /\ Served(m.key.user) \/ \E c \in codes : A!Key(c) = m.key

CodesInv == RowsAreDistinct /\ UsersAreNew /\ CodesAreNew /\ CodesAreRows /\ MailsServe

(* Two requests that insert at once are for different addresses, unless    *)
(* the address is contested, and nobody has the address of either.         *)
AddressesInv ==
  /\ \A u, v \in A!UserIds :
       users[u].email = users[v].email /\ users[u].email \notin contested => u = v
  /\ \A s \in Session : pc[s] = "insert" /\ params[s].email \notin contested =>
       /\ \A u \in A!UserIds : users[u].email # params[s].email
       /\ \A t \in Session \ {s} : pc[t] = "insert" => params[t].email # params[s].email

(* A step of one request leaves the variables of the others.               *)
OthersWait(s) ==
  \A t \in Session \ {s} :
    pc'[t] = pc[t] /\ params'[t] = params[t] /\ last'[t] = last[t] /\ row'[t] = row[t]

LEMMA ReturnWaits ==
  ASSUME NEW s \in Session, NEW what, LocalsTyped, A!Return(s, what)
  PROVE  OthersWait(s) /\ pc'[s] = "idle" /\ last'[s] = 0
BY DEF LocalsTyped, A!Return, OthersWait

LEMMA GotoWaits ==
  ASSUME NEW s \in Session, NEW where, LocalsTyped, A!Goto(s, where),
         last' = last \/ \E n \in Nat : last' = [last EXCEPT ![s] = n],
         row' = row \/ \E c \in CodeRow \cup {A!NoRow} : row' = [row EXCEPT ![s] = c]
  PROVE  OthersWait(s) /\ pc'[s] = where /\ params' = params
BY DEF LocalsTyped, A!Goto, OthersWait

(* A step that leaves the tables and ends or begins a request.             *)
LEMMA QuietStep ==
  ASSUME AccountsTyped, CodesInv, NEW s \in Session, OthersWait(s),
         pc'[s] \in {"idle", "insert"}, last'[s] = 0, UNCHANGED <<users, codes, nextCode, mails>>
  PROVE  CodesInv'
<1> USE DEF OthersWait, CodesInv, A!UserIds, Served, RowServes
<1>1. RowsAreDistinct' /\ MailsServe'
  BY DEF RowsAreDistinct, MailsServe
<1>2. UsersAreNew'
  BY DEF UsersAreNew
<1>3. CodesAreNew'
  BY DEF CodesAreNew
<1>4. CodesAreRows'
  BY DEF CodesAreRows
<1>5. QED BY <1>1, <1>2, <1>3, <1>4

LEMMA InsertUserKeeps ==
  ASSUME AccountsTyped, CodesInv, NEW s \in Session, A!InsertUser(s)
  PROVE  CodesInv'
<1>1. pc[s] = "insert" /\ UNCHANGED <<codes, nextCode, mails>>
  BY DEF A!InsertUser
<1>2. CASE A!Return(s, "4") /\ UNCHANGED users
  BY <1>1, <1>2, ReturnWaits, QuietStep DEF AccountsTyped
<1>3. ASSUME NEW new \in Nat \ {0}, Inserted(s, new) PROVE CodesInv'
  <2>1. /\ new \notin A!UserIds /\ A!UserIds' = A!UserIds \cup {new}
        /\ \A u \in A!UserIds : users'[u] = users[u]
        /\ users'[new].email = params[s].email
    BY <1>3 DEF Inserted
  <2>2. /\ OthersWait(s) /\ pc'[s] = "code" /\ params' = params
        /\ last'[s] \in {0, new}
    <3>1. PICK n \in {last[s], new} : last' = [last EXCEPT ![s] = n]
      BY <1>3 DEF Inserted
    <3>2. n \in Nat /\ last[s] = 0
      BY <1>1 DEF AccountsTyped, LocalsTyped, CodesInv, UsersAreNew
    <3>3. OthersWait(s) /\ pc'[s] = "code" /\ params' = params
      BY <1>3, <3>1, <3>2, GotoWaits DEF Inserted, AccountsTyped
    <3>4. QED BY <3>1, <3>2, <3>3 DEF AccountsTyped, LocalsTyped
  <2> USE <1>1, <2>1, <2>2 DEF CodesInv, OthersWait
  <2>3. \A u : (u # 0 => u \in A!UserIds) /\ Served(u) => Served(u)'
    BY DEF Served
  <2>4. RowsAreDistinct'
    BY DEF RowsAreDistinct
  <2>5. MailsServe'
    BY <2>3 DEF MailsServe
  <2>6. UsersAreNew'
    BY DEF UsersAreNew, RowsAreDistinct
  <2>7. CodesAreNew'
    BY <2>3 DEF CodesAreNew, RowServes
  <2>8. CodesAreRows'
    BY <2>3 DEF CodesAreRows
  <2>9. QED BY <2>4, <2>5, <2>6, <2>7, <2>8
<1>4. QED BY <1>2, <1>3, InsertUserInserts

LEMMA InsertCodeKeeps ==
  ASSUME AccountsTyped, CodesInv, NEW s \in Session, A!InsertCode(s)
  PROVE  CodesInv'
<1> USE DEF AccountsTyped
<1>1. CASE A!Return(s, "7") /\ UNCHANGED <<codes, nextCode>>
  BY <1>1, ReturnWaits, QuietStep DEF A!InsertCode
<1>2. CASE ~(A!Return(s, "7") /\ UNCHANGED <<codes, nextCode>>)
  <2> DEFINE new == [id |-> nextCode, code |-> s, user |-> last[s], ct |-> now]
  <2>1. /\ pc[s] = "code" /\ codes' = codes \cup {new} /\ nextCode' = nextCode + 1
        /\ last' = [last EXCEPT ![s] = nextCode]
        /\ A!Goto(s, "read") /\ UNCHANGED <<row, users, mails>>
    BY <1>2 DEF A!InsertCode
  <2>2. nextCode \in Nat /\ new \in CodeRow /\ \A c \in codes : c.id \in Nat
    BY DEF TablesTyped, LocalsTyped, CodeRow
  <2>3. OthersWait(s) /\ pc'[s] = "read" /\ params' = params /\ last'[s] = nextCode
    <3>1. OthersWait(s) /\ pc'[s] = "read" /\ params' = params
      BY <2>1, <2>2, GotoWaits
    <3>2. QED BY <2>1, <3>1 DEF LocalsTyped
  <2>4. \A t \in Session : last[t] \in Nat /\ row[t] \in CodeRow \cup {A!NoRow}
    BY DEF LocalsTyped
  <2>5. new.id = nextCode /\ new.user = last[s]
    OBVIOUS
  <2> HIDE DEF new
  <2> USE <2>1, <2>2, <2>3, <2>4, <2>5 DEF CodesInv, OthersWait, A!UserIds, Served
  <2>6. RowsAreDistinct'
    BY DEF RowsAreDistinct, UsersAreNew
  <2>7. MailsServe'
    BY DEF MailsServe
  <2>8. UsersAreNew'
    BY DEF UsersAreNew
  <2>9. CodesAreNew'
    BY DEF CodesAreNew, UsersAreNew, RowsAreDistinct, RowServes
  <2>10. CodesAreRows'
    <3> SUFFICES ASSUME NEW t \in Session, pc'[t] \in {"activate", "delete"}
                 PROVE  /\ row'[t].id < nextCode' /\ row'[t].user \in A!UserIds \cup {0}
                        /\ \A c \in codes' : c.id = row'[t].id => c = row'[t]
                        /\ pc'[t] = "delete" /\ row'[t].user # 0 => users'[row'[t].user].active
      BY DEF CodesAreRows, Served
    <3>1. pc[t] = pc'[t] /\ row'[t] = row[t]
      OBVIOUS
    <3>2. row[t].id \in Nat /\ row[t].id < nextCode
      BY <3>1 DEF CodesAreRows, LocalsTyped, CodeRow
    <3>3. QED BY <3>1, <3>2 DEF CodesAreRows
  <2>11. QED BY <2>6, <2>7, <2>8, <2>9, <2>10
<1>3. QED BY <1>1, <1>2

LEMMA ReadCodeKeeps ==
  ASSUME AccountsTyped, CodesInv, NEW s \in Session, A!ReadCode(s)
  PROVE  CodesInv'
<1> USE DEF AccountsTyped
<1>1. CASE A!Return(s, "8")
  BY <1>1, ReturnWaits, QuietStep DEF A!ReadCode, A!tables
<1>2. CASE ~A!Return(s, "8")
  <2> DEFINE found == {c \in codes : c.id = last[s]}
  <2>1. PICK c \in IF found = {} THEN {A!NoRow} ELSE found :
          row' = [row EXCEPT ![s] = c] /\ A!Goto(s, "mail") /\ UNCHANGED last
    BY <1>2, Zenon DEF A!ReadCode
  <2>1a. c = A!NoRow \/ (c \in codes /\ c.id = last[s])
    OBVIOUS
  <2>2. pc[s] = "read" /\ UNCHANGED <<users, codes, nextCode, mails>>
    BY DEF A!ReadCode, A!tables
  <2>3. c \in CodeRow \cup {A!NoRow} /\ A!NoRow.user = 0
    BY DEF TablesTyped, A!NoRow
  <2>4. OthersWait(s) /\ pc'[s] = "mail" /\ params' = params /\ row'[s] = c
    <3>1. OthersWait(s) /\ pc'[s] = "mail" /\ params' = params
      BY <2>1, <2>3, GotoWaits
    <3>2. QED BY <2>1, <2>3, <3>1 DEF LocalsTyped
  <2> HIDE DEF found
  <2> USE <2>1, <2>1a, <2>2, <2>3, <2>4 DEF CodesInv, OthersWait, A!UserIds, Served, RowServes
  <2>5. RowsAreDistinct' /\ MailsServe'
    BY DEF RowsAreDistinct, MailsServe
  <2>6. UsersAreNew'
    BY DEF UsersAreNew
  <2>7. CodesAreNew'
    BY DEF CodesAreNew
  <2>8. CodesAreRows'
    BY DEF CodesAreRows
  <2>9. QED BY <2>5, <2>6, <2>7, <2>8
<1>3. QED BY <1>1, <1>2

LEMMA SendMailKeeps ==
  ASSUME AccountsTyped, CodesInv, NEW s \in Session, A!SendMail(s)
  PROVE  CodesInv'
<1> USE DEF AccountsTyped
<1>1. CASE A!Return(s, "9") /\ UNCHANGED mails
  BY <1>1, ReturnWaits, QuietStep DEF A!SendMail
<1>2. CASE ~(A!Return(s, "9") /\ UNCHANGED mails)
  <2> DEFINE new == [to |-> params[s].email, key |-> A!Key(row[s])]
  <2>1. /\ pc[s] = "mail" /\ mails' = mails \cup {new}
        /\ A!Return(s, "10") /\ UNCHANGED <<users, codes, nextCode>>
    BY <1>2 DEF A!SendMail
  <2>2. OthersWait(s) /\ pc'[s] = "idle" /\ last'[s] = 0
    BY <2>1, ReturnWaits
  <2>3. RowServes(s, row[s]) /\ (Served(row[s].user) \/ row[s] \in codes)
    BY <2>1 DEF CodesInv, CodesAreNew
  <2>4. new.to = params[s].email /\ new.key = A!Key(row[s]) /\ new.key.user = row[s].user
    BY DEF A!Key
  <2> HIDE DEF new
  <2> USE <2>1, <2>2, <2>3, <2>4 DEF CodesInv, OthersWait, A!UserIds, Served, RowServes
  <2>5. RowsAreDistinct'
    BY DEF RowsAreDistinct
  <2>6. MailsServe'
    BY DEF MailsServe
  <2>7. UsersAreNew'
    BY DEF UsersAreNew
  <2>8. CodesAreNew'
    BY DEF CodesAreNew
  <2>9. CodesAreRows'
    BY DEF CodesAreRows
  <2>10. QED BY <2>5, <2>6, <2>7, <2>8, <2>9
<1>3. QED BY <1>1, <1>2

LEMMA CheckCodeKeeps ==
  ASSUME AccountsTyped, CodesInv, NEW s \in Session, NEW k, A!CheckCode(s, k)
  PROVE  CodesInv'
<1> USE DEF AccountsTyped
<1> DEFINE c == CHOOSE d \in A!Opens(k) : TRUE
<1>1. CASE A!Return(s, "wrong or expired")
  BY <1>1, ReturnWaits, QuietStep DEF A!CheckCode, A!tables
<1>2. CASE ~A!Return(s, "wrong or expired")
  <2>1. /\ A!Cardinality(A!Opens(k)) = 1
        /\ row' = [row EXCEPT ![s] = c] /\ A!Goto(s, "activate") /\ UNCHANGED last
    BY <1>2 DEF A!CheckCode
  <2>2. c \in codes
    BY <2>1, OpensOne
  <2> HIDE DEF c
  <2>3. UNCHANGED <<users, codes, nextCode, mails>>
    BY DEF A!CheckCode, A!tables
  <2>4. c \in CodeRow
    BY <2>2 DEF TablesTyped
  <2>5. OthersWait(s) /\ pc'[s] = "activate" /\ params' = params /\ row'[s] = c
    <3>1. OthersWait(s) /\ pc'[s] = "activate" /\ params' = params
      BY <2>1, <2>4, GotoWaits
    <3>2. QED BY <2>1, <3>1 DEF LocalsTyped
  <2> USE <2>2, <2>3, <2>5 DEF CodesInv, OthersWait, A!UserIds, Served, RowServes
  <2>6. RowsAreDistinct' /\ MailsServe'
    BY DEF RowsAreDistinct, MailsServe
  <2>7. UsersAreNew'
    BY <2>1 DEF UsersAreNew
  <2>8. CodesAreNew'
    BY <2>1 DEF CodesAreNew
  <2>9. CodesAreRows'
    BY DEF CodesAreRows, RowsAreDistinct
  <2>10. QED BY <2>6, <2>7, <2>8, <2>9
<1>3. QED BY <1>1, <1>2

LEMMA ActivateUserKeeps ==
  ASSUME AccountsTyped, CodesInv, NEW s \in Session, A!ActivateUser(s)
  PROVE  CodesInv'
<1> USE DEF AccountsTyped
<1>1. pc[s] = "activate" /\ UNCHANGED <<codes, nextCode, mails>>
  BY DEF A!ActivateUser
<1>2. CASE A!Return(s, "could not activate") /\ UNCHANGED users
  BY <1>1, <1>2, ReturnWaits, QuietStep
<1>3. ASSUME Activated(row[s].user), A!Goto(s, "delete"), UNCHANGED <<last, row>>
      PROVE  CodesInv'
  <2>1. OthersWait(s) /\ pc'[s] = "delete" /\ params' = params /\ UNCHANGED <<last, row>>
    BY <1>3, GotoWaits
  <2>2. /\ A!UserIds' = A!UserIds
        /\ \A u \in A!UserIds : users'[u].email = users[u].email
    BY <1>3 DEF Activated
  <2>3. \A u \in A!UserIds \cup {0} : Served(u) \/ u = row[s].user => Served(u)'
    BY <1>3 DEF Activated, Served
  <2>4. row[s].user \in A!UserIds \cup {0}
    BY <1>1 DEF CodesInv, CodesAreRows
  <2> USE <1>1, <2>1, <2>2, <2>3, <2>4 DEF CodesInv, OthersWait
  <2>5. RowsAreDistinct'
    BY DEF RowsAreDistinct
  <2>6. MailsServe'
    BY DEF MailsServe
  <2>7. UsersAreNew'
    BY DEF UsersAreNew
  <2>8. CodesAreNew'
    BY DEF CodesAreNew, RowServes
  <2>9. CodesAreRows'
    BY DEF CodesAreRows
  <2>10. QED BY <2>5, <2>6, <2>7, <2>8, <2>9
<1>4. QED BY <1>2, <1>3, ActivateRow

LEMMA DeleteCodeKeeps ==
  ASSUME AccountsTyped, CodesInv, NEW s \in Session, A!DeleteCode(s)
  PROVE  CodesInv'
<1> USE DEF AccountsTyped
<1>1. OthersWait(s) /\ pc'[s] = "idle" /\ last'[s] = 0 /\ pc[s] = "delete"
  BY ReturnWaits DEF A!DeleteCode
<1>2. UNCHANGED <<users, nextCode, mails>>
  BY DEF A!DeleteCode
<1>3. codes' \subseteq codes /\ \A c \in codes : c.id # row[s].id => c \in codes'
  BY DEF A!DeleteCode
<1>4. \A c \in codes \ codes' : c = row[s] /\ Served(c.user)
  BY <1>1, <1>3 DEF CodesInv, CodesAreRows
<1> USE <1>1, <1>2, <1>3, <1>4 DEF CodesInv, OthersWait, A!UserIds, Served, RowServes
<1>5. RowsAreDistinct'
  BY DEF RowsAreDistinct
<1>6. MailsServe'
  <2> SUFFICES ASSUME NEW m \in mails
               PROVE  Served(m.key.user) \/ \E c \in codes' : A!Key(c) = m.key
    BY DEF MailsServe, A!Key
  <2>1. \A c : A!Key(c) = m.key => c.user = m.key.user
    BY DEF A!Key
  <2>2. QED BY <2>1 DEF MailsServe
<1>7. UsersAreNew'
  BY DEF UsersAreNew
<1>8. CodesAreNew'
  BY DEF CodesAreNew
<1>9. CodesAreRows'
  BY DEF CodesAreRows
<1>10. QED BY <1>5, <1>6, <1>7, <1>8, <1>9

(* The steps that end a request, or begin one, and the clock.              *)
LEMMA BeginWaits ==
  ASSUME NEW s \in Session, NEW a, LocalsTyped, A!Begin(s, a)
  PROVE  /\ OthersWait(s) /\ pc'[s] = "insert" /\ last'[s] = last[s]
         /\ params'[s] = a
BY DEF LocalsTyped, A!Begin, OthersWait

LEMMA CheckAddressKeeps ==
  ASSUME AccountsTyped, CodesInv, NEW s \in Session, NEW a, NEW shape,
         A!CheckAddress(s, a, shape)
  PROVE  CodesInv'
<1>1. last[s] = 0
  BY DEF A!CheckAddress, CodesInv, UsersAreNew
<1>2. OthersWait(s) /\ pc'[s] \in {"idle", "insert"} /\ last'[s] = 0
  BY <1>1, ReturnWaits, BeginWaits DEF A!CheckAddress, AccountsTyped
<1>3. QED BY <1>2, QuietStep DEF A!CheckAddress, A!tables

LEMMA LogInKeeps ==
  ASSUME AccountsTyped, CodesInv, NEW s \in Session, NEW e, NEW p, A!LogIn(s, e, p)
  PROVE  CodesInv'
<1>1. OthersWait(s) /\ pc'[s] = "idle" /\ last'[s] = 0
  BY ReturnWaits DEF A!LogIn, AccountsTyped
<1>2. QED BY <1>1, QuietStep DEF A!LogIn, A!tables

LEMMA ClockKeeps ==
  ASSUME CodesInv, UNCHANGED <<users, codes, nextCode, mails, pc, params, last, row>>
  PROVE  CodesInv'
BY DEF CodesInv, RowsAreDistinct, UsersAreNew, CodesAreNew, CodesAreRows, MailsServe, A!UserIds,
       Served, RowServes

LEMMA CodesInvInit == A!Init => CodesInv
  BY DEF A!Init, CodesInv, RowsAreDistinct, UsersAreNew, CodesAreNew, CodesAreRows, MailsServe,
         A!UserIds

LEMMA CodesInvNext == AccountsTyped /\ CodesInv /\ [A!Next]_accountVars => CodesInv'
<1> SUFFICES ASSUME AccountsTyped, CodesInv, [A!Next]_accountVars PROVE CodesInv'
  OBVIOUS
<1>1. CASE A!Tick
  BY <1>1, ClockKeeps DEF A!Tick, A!tables, A!locals
<1>2. ASSUME NEW s \in Session, A!Step(s) PROVE CodesInv'
  BY <1>2, LogInKeeps, CheckAddressKeeps, InsertUserKeeps, InsertCodeKeeps, ReadCodeKeeps,
     SendMailKeeps, CheckCodeKeeps, ActivateUserKeeps, DeleteCodeKeeps
     DEF A!Step
<1>3. CASE UNCHANGED accountVars
  BY <1>3, ClockKeeps DEF accountVars
<1>4. QED BY <1>1, <1>2, <1>3 DEF A!Next

(* An inactive user's code in a mail is in one row, and in no other.       *)
LEMMA OpensAlone ==
  ASSUME AccountsTyped, CodesInv, NEW m \in mails, m.key.user \in A!UserIds,
         ~users[m.key.user].active, now < m.key.ct + Hours
  PROVE  A!Cardinality(A!Opens(m.key)) = 1
<1>1. m.key.user # 0
  BY DEF AccountsTyped, TablesTyped
<1>2. PICK c \in codes : A!Key(c) = m.key
  BY <1>1 DEF CodesInv, MailsServe, Served
<1>3. \A d : A!Key(d) = m.key => d.user = m.key.user /\ d.ct = m.key.ct
  BY DEF A!Key
<1>4. A!Opens(m.key) = {c}
  BY <1>1, <1>2, <1>3 DEF A!Opens, CodesInv, RowsAreDistinct
<1>5. QED BY <1>4, FS_Singleton, SameCardinality
-----------------------------------------------------------------------------
(* Of what was at the statement that inserts a user, and of the users, a   *)
(* step that inserts no one and begins nothing adds nothing.               *)
LEMMA AddressesStay ==
  ASSUME AddressesInv, NEW s \in Session, OthersWait(s), pc'[s] # "insert",
         A!UserIds' = A!UserIds, \A u \in A!UserIds : users'[u].email = users[u].email,
         contested \subseteq contested'
  PROVE  AddressesInv'
BY DEF AddressesInv, OthersWait

LEMMA AddressesInvInit == A!Init => AddressesInv
  BY DEF A!Init, AddressesInv, A!UserIds

LEMMA AddressesInvNext == AccountsTyped /\ AddressesInv /\ [A!Next]_accountVars => AddressesInv'
<1> SUFFICES ASSUME AccountsTyped, AddressesInv, [A!Next]_accountVars PROVE AddressesInv'
  OBVIOUS
<1> USE DEF AccountsTyped
<1>1. CASE A!Tick
  BY <1>1 DEF A!Tick, A!tables, A!locals, AddressesInv, A!UserIds
<1>2. ASSUME NEW s \in Session, A!Step(s) PROVE AddressesInv'
  <2>1. ASSUME NEW e \in Email, NEW p \in Password, A!LogIn(s, e, p) PROVE AddressesInv'
    <3>1. OthersWait(s) /\ pc'[s] = "idle"
      BY <2>1, ReturnWaits DEF A!LogIn
    <3>2. QED BY <2>1, <3>1, AddressesStay DEF A!LogIn, A!tables, A!UserIds
  <2>2. ASSUME NEW a \in Account, NEW shape \in Shape, A!CheckAddress(s, a, shape)
        PROVE  AddressesInv'
    <3> DEFINE e == a.email
    <3>1. /\ UNCHANGED users /\ A!UserIds' = A!UserIds
          /\ contested' = IF \E t \in Session \ {s} : pc[t] = "insert" /\ params[t].email = e
                          THEN contested \cup {e} ELSE contested
      BY <2>2 DEF A!CheckAddress, A!tables, A!Contest, A!UserIds
    <3>2. CASE A!OfAddress(e) = {} /\ A!Begin(s, a)
      <4>1. OthersWait(s) /\ pc'[s] = "insert" /\ params'[s].email = e
        BY <3>2, BeginWaits
      <4>2. \A u \in A!UserIds : users[u].email # e
        BY <3>2 DEF A!OfAddress
      <4> HIDE DEF e
      <4>3. QED BY <3>1, <4>1, <4>2 DEF AddressesInv, OthersWait
    <3>3. ASSUME NEW what, A!Return(s, what) PROVE AddressesInv'
      <4>1. OthersWait(s) /\ pc'[s] = "idle"
        BY <3>3, ReturnWaits
      <4>2. QED BY <3>1, <4>1, AddressesStay
    <3>4. QED BY <2>2, <3>2, <3>3 DEF A!CheckAddress
  <2>3. CASE A!InsertUser(s)
    <3>1. ASSUME A!Return(s, "4"), UNCHANGED users PROVE AddressesInv'
      <4>1. OthersWait(s) /\ pc'[s] = "idle"
        BY <3>1, ReturnWaits
      <4>2. QED BY <2>3, <3>1, <4>1, AddressesStay DEF A!InsertUser, A!UserIds
    <3>2. ASSUME NEW new \in Nat \ {0}, Inserted(s, new) PROVE AddressesInv'
      <4>1. /\ A!UserIds' = A!UserIds \cup {new} /\ users'[new].email = params[s].email
            /\ \A u \in A!UserIds : users'[u] = users[u]
        BY <3>2 DEF Inserted
      <4>2. PICK n \in {last[s], new} : last' = [last EXCEPT ![s] = n]
        BY <3>2 DEF Inserted
      <4>3. n \in Nat
        BY DEF LocalsTyped
      <4>4. OthersWait(s) /\ pc'[s] = "code" /\ params' = params
        BY <3>2, <4>2, <4>3, GotoWaits DEF Inserted
      <4>5. UNCHANGED contested /\ pc[s] = "insert"
        BY <2>3 DEF A!InsertUser
      <4>6. QED BY <4>1, <4>4, <4>5 DEF AddressesInv, OthersWait
    <3>3. QED BY <2>3, <3>1, <3>2, InsertUserInserts
  <2>4. ASSUME A!InsertCode(s) \/ A!ReadCode(s) \/ A!SendMail(s) \/ A!DeleteCode(s)
        PROVE  AddressesInv'
    <3>1. UNCHANGED <<users, contested>>
      BY <2>4 DEF A!InsertCode, A!ReadCode, A!SendMail, A!DeleteCode, A!tables
    <3>2. OthersWait(s) /\ pc'[s] # "insert"
      <4>1. ASSUME A!InsertCode(s) PROVE OthersWait(s) /\ pc'[s] # "insert"
        <5>1. nextCode \in Nat
          BY DEF TablesTyped
        <5>2. QED BY <4>1, <5>1, ReturnWaits, GotoWaits DEF A!InsertCode
      <4>2. ASSUME A!ReadCode(s) PROVE OthersWait(s) /\ pc'[s] # "insert"
        <5>1. codes \subseteq CodeRow
          BY DEF TablesTyped
        <5>2. QED BY <4>2, <5>1, ReturnWaits, GotoWaits DEF A!ReadCode
      <4>3. ASSUME A!SendMail(s) \/ A!DeleteCode(s) PROVE OthersWait(s) /\ pc'[s] # "insert"
        BY <4>3, ReturnWaits DEF A!SendMail, A!DeleteCode
      <4>4. QED BY <2>4, <4>1, <4>2, <4>3
    <3>3. QED BY <3>1, <3>2, AddressesStay DEF A!UserIds
  <2>5. ASSUME NEW k, A!CheckCode(s, k) PROVE AddressesInv'
    <3>1. UNCHANGED <<users, contested>>
      BY <2>5 DEF A!CheckCode, A!tables
    <3>2. OthersWait(s) /\ pc'[s] # "insert"
      <4>1. codes \subseteq CodeRow
        BY DEF TablesTyped
      <4>2. ASSUME NEW c \in codes, row' = [row EXCEPT ![s] = c], A!Goto(s, "activate"),
                   UNCHANGED last
            PROVE  OthersWait(s) /\ pc'[s] # "insert"
        <5>1. c \in CodeRow /\ LocalsTyped
          BY <4>1
        <5>2. OthersWait(s) /\ pc'[s] = "activate" /\ params' = params
          BY <4>2, <5>1, GotoWaits
        <5>3. QED BY <5>2
      <4>3. QED BY <2>5, <4>2, OpensOne, ReturnWaits DEF A!CheckCode
    <3>3. QED BY <3>1, <3>2, AddressesStay DEF A!UserIds
  <2>6. CASE A!ActivateUser(s)
    <3>1. UNCHANGED contested
      BY <2>6 DEF A!ActivateUser
    <3>2. ASSUME A!Return(s, "could not activate"), UNCHANGED users PROVE AddressesInv'
      <4>1. OthersWait(s) /\ pc'[s] = "idle"
        BY <3>2, ReturnWaits
      <4>2. QED BY <3>1, <3>2, <4>1, AddressesStay DEF A!UserIds
    <3>3. ASSUME Activated(row[s].user), A!Goto(s, "delete"), UNCHANGED last, UNCHANGED row
          PROVE  AddressesInv'
      <4>1. OthersWait(s) /\ pc'[s] = "delete"
        BY <3>3, GotoWaits
      <4>2. QED BY <3>1, <3>3, <4>1, AddressesStay DEF Activated
    <3>4. QED BY <2>6, <3>2, <3>3, ActivateRow
  <2>7. QED BY <1>2, <2>1, <2>2, <2>3, <2>4, <2>5, <2>6 DEF A!Step
<1>3. CASE UNCHANGED accountVars
  BY <1>3 DEF accountVars, AddressesInv, A!UserIds
<1>4. QED BY <1>1, <1>2, <1>3 DEF A!Next
-----------------------------------------------------------------------------
(* The tables and the variables of the requests are what their types say.  *)
THEOREM AccountsType == A!Spec => []AccountsTyped
<1>1. AccountsTyped /\ [A!Next]_A!vars => AccountsTyped'
  BY AccountsTypedNext DEF A!vars, accountVars
<1>2. QED BY <1>1, AccountsTypedInit, PTL DEF A!Spec

(* A code that was mailed leads to no account but that of the address it  *)
(* went to, whatever accounts are created at the same time, and whatever   *)
(* columns and ids they bring along.                                       *)
THEOREM CodesServe == A!Spec => []CodesServeTheirAddress
<1>1. AccountsTyped /\ CodesInv /\ [A!Next]_A!vars => CodesInv'
  BY CodesInvNext DEF A!vars, accountVars
<1>2. AccountsTyped /\ CodesInv => CodesServeTheirAddress
  BY DEF AccountsTyped, TablesTyped, CodesInv, MailsServe, CodesServeTheirAddress,
         A!CodesServeTheirAddress
<1>3. QED BY <1>1, <1>2, CodesInvInit, AccountsType, PTL DEF A!Spec

(* Until it is too old, a link that was mailed for an account leads to one *)
(* that is active, or that it can activate: exactly one row has its code,  *)
(* whichever statement fails and whatever codes are tried.                 *)
THEOREM MailedCodes == A!Spec => []MailedCodesWork
<1>1. AccountsTyped /\ CodesInv /\ [A!Next]_A!vars => CodesInv'
  BY CodesInvNext DEF A!vars, accountVars
<1>2. AccountsTyped /\ CodesInv => MailedCodesWork
  BY OpensAlone DEF MailedCodesWork, A!MailedCodesWork
<1>3. QED BY <1>1, <1>2, CodesInvInit, AccountsType, PTL DEF A!Spec

(* An address that no two requests were checking at once has at most one   *)
(* account.                                                                *)
THEOREM OneAccount == A!Spec => []OneAccountPerAddress
<1>1. AccountsTyped /\ AddressesInv /\ [A!Next]_A!vars => AddressesInv'
  BY AddressesInvNext DEF A!vars, accountVars
<1>2. AddressesInv => OneAccountPerAddress
  <2> SUFFICES ASSUME AddressesInv, NEW e \in Email \ contested
               PROVE  A!Cardinality(A!OfAddress(e)) <= 1
    BY DEF OneAccountPerAddress, A!OneAccountPerAddress
  <2>1. \A u, v \in A!OfAddress(e) : u = v
    BY DEF AddressesInv, A!OfAddress
  <2>2. QED BY <2>1, AtMostOne, SameCardinality
<1>3. QED BY <1>1, <1>2, AddressesInvInit, AccountsType, PTL DEF A!Spec
-----------------------------------------------------------------------------
(* PcTracker: the table and what the computers know.                       *)
TrackerTyped ==
  /\ nextId \in Nat \ {0}
  /\ \A n \in DOMAIN rows : rows[n] \in T!Rows
  /\ phase \in [Computer -> {"new", "counted", "told"}]
  /\ password \in [Computer -> Password]
  /\ DOMAIN id = Computer
  /\ address \in [Computer -> Address]
  /\ DOMAIN reported = Computer
  /\ disturbed \in BOOLEAN

(* Left alone, the database gives the ids one after the other.  A computer *)
(* that has counted the rows is the only one and will get the id it        *)
(* expects; one that was told its number has that row to itself.           *)
RowsAreNumbered ==
  /\ DOMAIN rows = 1 .. nextId - 1
  /\ \A c \in Computer : phase[c] = "counted" =>
       id[c] = nextId /\ \A d \in Computer \ {c} : phase[d] # "counted"
  /\ \A c \in Computer : phase[c] = "told" =>
       /\ id[c] \in 1 .. nextId - 1
       /\ rows[id[c]].password = password[c] /\ rows[id[c]].ip = reported[c]
       /\ \A d \in Computer \ {c} : phase[d] = "told" => id[d] # id[c]

TrackerInv == TrackerTyped /\ (~disturbed => RowsAreNumbered)

(* The number that register.php works out is the next id.                  *)
LEMMA CountIsNextId ==
  ASSUME TrackerTyped, RowsAreNumbered
  PROVE  T!Cardinality(DOMAIN rows) + 1 = nextId
<1>1. nextId - 1 \in Nat /\ DOMAIN rows = 1 .. nextId - 1
  BY DEF TrackerTyped, RowsAreNumbered
<1>2. Cardinality(1 .. nextId - 1) = nextId - 1
  BY <1>1, FS_Interval
<1>3. QED BY <1>1, <1>2, SameCardinality DEF TrackerTyped

LEMMA TrackerInvInit == T!Init => TrackerInv
<1> SUFFICES ASSUME T!Init PROVE TrackerInv
  OBVIOUS
<1>1. nextId = 1 /\ rows = [n \in {} |-> 0] /\ 1 .. nextId - 1 = {}
  BY DEF T!Init
<1>2. DOMAIN rows = {}
  BY <1>1
<1>3. DOMAIN id = Computer /\ DOMAIN reported = Computer /\ disturbed \in BOOLEAN
  BY Zenon DEF T!Init
<1>4. TrackerTyped
  BY <1>1, <1>2, <1>3 DEF T!Init, TrackerTyped
<1>5. RowsAreNumbered
  BY <1>1, <1>2 DEF T!Init, RowsAreNumbered
<1>6. QED BY <1>4, <1>5 DEF TrackerInv

LEMMA TrackerInvNext == TrackerInv /\ [T!Next]_trackerVars => TrackerInv'
<1> SUFFICES ASSUME TrackerInv, [T!Next]_trackerVars PROVE TrackerInv'
  OBVIOUS
<1>1. ASSUME NEW c \in Computer, T!Count(c) PROVE TrackerInv'
  <2>1. TrackerTyped'
    BY <1>1 DEF T!Count, TrackerInv, TrackerTyped
  <2>2. ASSUME ~disturbed' PROVE RowsAreNumbered'
    <3>1. ~disturbed /\ RowsAreNumbered /\ \A d \in Computer : phase[d] # "counted"
      BY <1>1, <2>2 DEF T!Count, TrackerInv
    <3>2. id' = [id EXCEPT ![c] = nextId]
      BY <1>1, <3>1, CountIsNextId DEF T!Count, TrackerInv
    <3>3. QED BY <1>1, <3>1, <3>2 DEF T!Count, TrackerInv, TrackerTyped, RowsAreNumbered
  <2>3. QED BY <2>1, <2>2 DEF TrackerInv
<1>2. ASSUME NEW c \in Computer, T!Insert(c) PROVE TrackerInv'
  <2>1. ASSUME rows' = [n \in DOMAIN rows \cup {nextId} |->
                          IF n = nextId THEN [password |-> password[c], ip |-> address[c]]
                                        ELSE rows[n]],
               nextId' = nextId + 1, phase' = [phase EXCEPT ![c] = "told"],
               reported' = [reported EXCEPT ![c] = address[c]],
               UNCHANGED <<id, disturbed, password, address>>
        PROVE  TrackerInv'
    <3>1. /\ nextId \in Nat \ {0} /\ phase[c] = "counted"
          /\ [password |-> password[c], ip |-> address[c]] \in T!Rows
      BY <1>2 DEF T!Insert, TrackerInv, TrackerTyped, T!Rows
    <3>2. /\ DOMAIN rows' = DOMAIN rows \cup {nextId}
          /\ rows'[nextId].password = password[c] /\ rows'[nextId].ip = address[c]
          /\ rows'[nextId] \in T!Rows
          /\ \A n \in DOMAIN rows \ {nextId} : rows'[n] = rows[n]
      BY <2>1, <3>1
    <3>3. TrackerTyped'
      BY <2>1, <3>1, <3>2 DEF TrackerInv, TrackerTyped, T!Rows
    <3>4. ASSUME ~disturbed' PROVE RowsAreNumbered'
      <4>1. RowsAreNumbered
        BY <2>1, <3>4 DEF TrackerInv
      <4>2. DOMAIN rows' = 1 .. nextId' - 1
        BY <2>1, <3>1, <3>2, <4>1 DEF RowsAreNumbered
      <4>3. QED BY <2>1, <3>1, <3>2, <4>1, <4>2 DEF TrackerInv, TrackerTyped, RowsAreNumbered
    <3>5. QED BY <3>3, <3>4 DEF TrackerInv
  <2>2. ASSUME nextId' \in {nextId, nextId + 1}, disturbed' = (disturbed \/ nextId' # nextId),
               phase' = [phase EXCEPT ![c] = "new"], id' = [id EXCEPT ![c] = None],
               UNCHANGED <<rows, reported, password, address>>
        PROVE  TrackerInv'
    <3>1. TrackerTyped'
      BY <2>2 DEF TrackerInv, TrackerTyped, T!Rows
    <3>2. ASSUME ~disturbed' PROVE RowsAreNumbered'
      BY <2>2, <3>2 DEF TrackerInv, TrackerTyped, RowsAreNumbered
    <3>3. QED BY <3>1, <3>2 DEF TrackerInv
  <2>3. QED BY <1>2, <2>1, <2>2 DEF T!Insert
<1>3. ASSUME NEW c \in Computer, T!Move(c) PROVE TrackerInv'
  BY <1>3 DEF T!Move, TrackerInv, TrackerTyped, RowsAreNumbered, T!Rows
<1>4. ASSUME NEW c \in Computer, T!Track(c) PROVE TrackerInv'
  <2>1. /\ \A n \in DOMAIN rows : rows[n] \in T!Rows
        /\ \A r \in T!Rows :
             /\ [r EXCEPT !.ip = address[c]] \in T!Rows
             /\ [r EXCEPT !.ip = address[c]].password = r.password
             /\ [r EXCEPT !.ip = address[c]].ip = address[c]
    BY DEF TrackerInv, TrackerTyped, T!Rows
  <2>2. /\ rows' = [n \in DOMAIN rows |->
              IF n \in T!Matching(c) THEN [rows[n] EXCEPT !.ip = address[c]] ELSE rows[n]]
        /\ reported' = [reported EXCEPT ![c] = address[c]] /\ phase[c] = "told"
        /\ UNCHANGED <<nextId, phase, password, id, address, disturbed>>
    BY <1>4 DEF T!Track
  <2>3. /\ DOMAIN rows' = DOMAIN rows
        /\ \A n \in DOMAIN rows :
             /\ rows'[n] \in T!Rows /\ rows'[n].password = rows[n].password
             /\ n \in T!Matching(c) => rows'[n].ip = address[c]
             /\ n \notin T!Matching(c) => rows'[n] = rows[n]
    BY <2>1, <2>2
  <2>4. TrackerTyped'
    BY <2>2, <2>3 DEF TrackerInv, TrackerTyped, T!Rows
  <2>5. ASSUME ~disturbed' PROVE RowsAreNumbered'
    <3>1. RowsAreNumbered
      BY <2>2, <2>5 DEF TrackerInv
    <3>2. T!Matching(c) = {id[c]}
      BY <2>2, <3>1 DEF RowsAreNumbered, T!Matching
    <3>3. QED BY <2>2, <2>3, <3>1, <3>2 DEF TrackerInv, TrackerTyped, RowsAreNumbered
  <2>6. QED BY <2>4, <2>5 DEF TrackerInv
<1>5. ASSUME NEW c \in Computer, T!View(c) PROVE TrackerInv'
  BY <1>5 DEF T!View, TrackerInv, TrackerTyped, RowsAreNumbered, T!Rows
<1>6. CASE UNCHANGED trackerVars
  BY <1>6 DEF trackerVars, TrackerInv, TrackerTyped, RowsAreNumbered, T!Rows
<1>7. QED BY <1>1, <1>2, <1>3, <1>4, <1>5, <1>6 DEF T!Next

(* Number and password of a computer lead to the address that it reported  *)
(* last, as long as no two registrations overlapped and no failed one used *)
(* up an id.                                                               *)
THEOREM LatestAddress == T!Spec => []LatestAddressIsShown
<1>1. TrackerInv /\ [T!Next]_T!vars => TrackerInv'
  BY TrackerInvNext DEF T!vars, trackerVars
<1>2. TrackerInv => LatestAddressIsShown
  <2> SUFFICES ASSUME TrackerInv, ~disturbed, NEW c \in Computer, phase[c] = "told"
               PROVE  T!Matching(c) = {id[c]} /\ rows[id[c]].ip = reported[c]
    BY DEF LatestAddressIsShown, T!LatestAddressIsShown
  <2>1. QED BY DEF TrackerInv, RowsAreNumbered, T!Matching
<1>3. QED BY <1>1, <1>2, TrackerInvInit, PTL DEF T!Spec
-----------------------------------------------------------------------------
(* LongPolling: what is behind what in a sequence of messages and line     *)
(* ends, some of which are lost.                                           *)
Content == Message \cup {NL}

Precede(m, k, s) == \E i, j \in DOMAIN s : i < j /\ s[i] = m /\ s[j] = k

InOrder(q, lost, s) ==
  \A i, j \in DOMAIN q : i < j /\ q[i] \notin lost /\ q[j] \notin lost => Precede(q[i], q[j], s)

(* The elements of a concatenation, by place, ...                          *)
LEMMA PartsOfSeq ==
  ASSUME NEW C, NEW s \in Seq(C), NEW t \in Seq(C)
  PROVE  /\ s \o t \in Seq(C) /\ Len(s \o t) = Len(s) + Len(t)
         /\ \A i \in 1 .. Len(s) : (s \o t)[i] = s[i]
         /\ \A i \in 1 .. Len(t) : (s \o t)[Len(s) + i] = t[i]
OBVIOUS

(* ... and as sets.                                                        *)
LEMMA ElementsOfParts ==
  ASSUME NEW C, NEW s \in Seq(C), NEW t \in Seq(C)
  PROVE  ToSet(s \o t) = ToSet(s) \cup ToSet(t)
<1> DEFINE q == s \o t
<1>1. /\ q \in Seq(C) /\ Len(q) = Len(s) + Len(t)
      /\ \A i \in 1 .. Len(s) : q[i] = s[i]
      /\ \A i \in 1 .. Len(t) : q[Len(s) + i] = t[i]
  BY PartsOfSeq
<1> HIDE DEF q
<1>2. DOMAIN q = 1 .. Len(q) /\ DOMAIN s = 1 .. Len(s) /\ DOMAIN t = 1 .. Len(t)
      /\ Len(s) \in Nat /\ Len(t) \in Nat
  BY <1>1
<1>3. ASSUME NEW i \in DOMAIN q PROVE q[i] \in ToSet(s) \cup ToSet(t)
  <2>1. CASE i <= Len(s)
    BY <1>1, <1>2, <2>1 DEF ToSet
  <2>2. CASE i > Len(s)
    <3>1. i - Len(s) \in DOMAIN t /\ q[i] = t[i - Len(s)]
      BY <1>1, <1>2, <2>2
    <3>2. QED BY <3>1 DEF ToSet
  <2>3. QED BY <1>2, <2>1, <2>2
<1>4. ASSUME NEW i \in DOMAIN s PROVE s[i] \in ToSet(q)
  BY <1>1, <1>2 DEF ToSet
<1>5. ASSUME NEW i \in DOMAIN t PROVE t[i] \in ToSet(q)
  <2>1. Len(s) + i \in DOMAIN q /\ q[Len(s) + i] = t[i]
    BY <1>1, <1>2
  <2>2. QED BY <2>1 DEF ToSet
<1>6. QED BY <1>3, <1>4, <1>5 DEF ToSet, q

LEMMA ElementsOfThree ==
  ASSUME NEW C, NEW s \in Seq(C), NEW t \in Seq(C), NEW u \in Seq(C)
  PROVE  ToSet((s \o t) \o u) = ToSet(s \o t) \cup ToSet(u)
<1> DEFINE q == s \o t
<1>1. q \in Seq(C)
  OBVIOUS
<1> HIDE DEF q
<1>2. ToSet(q \o u) = ToSet(q) \cup ToSet(u)
  BY <1>1, ElementsOfParts
<1>3. QED BY <1>2 DEF q

(* Two stretches are in order together if each is, and all of the first    *)
(* is before all of the second.                                            *)
LEMMA OrderOfParts ==
  ASSUME NEW C, NEW s \in Seq(C), NEW t \in Seq(C), NEW lost, NEW w
  PROVE  InOrder(s \o t, lost, w) <=>
           /\ InOrder(s, lost, w) /\ InOrder(t, lost, w)
           /\ \A x \in ToSet(s) \ lost, y \in ToSet(t) \ lost : Precede(x, y, w)
<1> DEFINE q == s \o t
<1>1. /\ q \in Seq(C) /\ Len(q) = Len(s) + Len(t)
      /\ \A i \in 1 .. Len(s) : q[i] = s[i]
      /\ \A i \in 1 .. Len(t) : q[Len(s) + i] = t[i]
  BY PartsOfSeq
<1> HIDE DEF q
<1>2. DOMAIN q = 1 .. Len(q) /\ DOMAIN s = 1 .. Len(s) /\ DOMAIN t = 1 .. Len(t)
      /\ Len(s) \in Nat /\ Len(t) \in Nat
  BY <1>1
<1>3. ASSUME InOrder(q, lost, w)
      PROVE  /\ InOrder(s, lost, w) /\ InOrder(t, lost, w)
             /\ \A x \in ToSet(s) \ lost, y \in ToSet(t) \ lost : Precede(x, y, w)
  <2>1. ASSUME NEW i \in DOMAIN s, NEW j \in DOMAIN s, i < j, s[i] \notin lost, s[j] \notin lost
        PROVE  Precede(s[i], s[j], w)
    BY <1>1, <1>2, <1>3, <2>1 DEF InOrder
  <2>2. ASSUME NEW i \in DOMAIN t, NEW j \in DOMAIN t, i < j, t[i] \notin lost, t[j] \notin lost
        PROVE  Precede(t[i], t[j], w)
    <3>1. /\ Len(s) + i \in DOMAIN q /\ q[Len(s) + i] = t[i]
          /\ Len(s) + j \in DOMAIN q /\ q[Len(s) + j] = t[j]
          /\ Len(s) + i < Len(s) + j
      BY <1>1, <1>2, <2>2
    <3>2. QED BY <1>3, <2>2, <3>1 DEF InOrder
  <2>3. ASSUME NEW i \in DOMAIN s, NEW j \in DOMAIN t, s[i] \notin lost, t[j] \notin lost
        PROVE  Precede(s[i], t[j], w)
    <3>1. /\ i \in DOMAIN q /\ q[i] = s[i]
          /\ Len(s) + j \in DOMAIN q /\ q[Len(s) + j] = t[j]
          /\ i < Len(s) + j
      BY <1>1, <1>2
    <3>2. QED BY <1>3, <2>3, <3>1 DEF InOrder
  <2>4. QED BY <2>1, <2>2, <2>3 DEF InOrder, ToSet
<1>4. ASSUME InOrder(s, lost, w), InOrder(t, lost, w),
             \A x \in ToSet(s) \ lost, y \in ToSet(t) \ lost : Precede(x, y, w),
             NEW i \in DOMAIN q, NEW j \in DOMAIN q, i < j, q[i] \notin lost, q[j] \notin lost
      PROVE  Precede(q[i], q[j], w)
  <2>1. CASE j <= Len(s)
    <3>1. i \in DOMAIN s /\ j \in DOMAIN s /\ q[i] = s[i] /\ q[j] = s[j]
      BY <1>1, <1>2, <1>4, <2>1
    <3>2. QED BY <1>4, <3>1 DEF InOrder
  <2>2. CASE i > Len(s)
    <3>1. /\ i - Len(s) \in DOMAIN t /\ q[i] = t[i - Len(s)]
          /\ j - Len(s) \in DOMAIN t /\ q[j] = t[j - Len(s)]
          /\ i - Len(s) < j - Len(s)
      BY <1>1, <1>2, <1>4, <2>2
    <3>2. QED BY <1>4, <3>1 DEF InOrder
  <2>3. CASE i <= Len(s) /\ j > Len(s)
    <3>1. i \in DOMAIN s /\ q[i] = s[i] /\ j - Len(s) \in DOMAIN t /\ q[j] = t[j - Len(s)]
      BY <1>1, <1>2, <1>4, <2>3
    <3>2. QED BY <1>4, <3>1 DEF ToSet
  <2>4. QED BY <1>2, <2>1, <2>2, <2>3
<1>5. QED BY <1>3, <1>4 DEF InOrder, q

(* A sequence is what is up to a place, and what comes behind.             *)
LEMMA CutInTwo ==
  ASSUME NEW C, NEW s \in Seq(C), NEW n \in 0 .. Len(s)
  PROVE  /\ SubSeq(s, 1, n) \in Seq(C) /\ SubSeq(s, n + 1, Len(s)) \in Seq(C)
         /\ s = SubSeq(s, 1, n) \o SubSeq(s, n + 1, Len(s))
<1>1. SubSeq(s, 1, n) \in Seq(C) /\ SubSeq(s, n + 1, Len(s)) \in Seq(C)
  OBVIOUS
<1>2. SubSeq(s, 1, n) \o SubSeq(s, n + 1, Len(s)) = SubSeq(s, 1, Len(s))
  <2>1. 1 \in 1 .. Len(s) + 1 /\ n \in 1 - 1 .. Len(s) /\ Len(s) \in n .. Len(s)
    OBVIOUS
  <2>2. QED BY <2>1, ConcatAdjacentSubSeq
<1>3. SubSeq(s, 1, Len(s)) = s
  OBVIOUS
<1>4. QED BY <1>1, <1>2, <1>3

(* Induction over a set of numbers, by the sizes of the intervals that     *)
(* would be missing.                                                       *)
LEMMA SetInduction ==
  ASSUME NEW K \in SUBSET Nat, 0 \in K, \A n \in K : n + 1 \in K
  PROVE  K = Nat
<1> DEFINE U == {1 .. n : n \in Nat \ K}
<1> SUFFICES ASSUME Nat \ K # {} PROVE FALSE
  OBVIOUS
<1>1. U \subseteq FiniteSubsetsOf(Nat)
  <2>1. \A n \in Nat : IsFiniteSet(1 .. n) /\ 1 .. n \subseteq Nat
    BY FS_Interval
  <2>2. QED BY <2>1 DEF FiniteSubsetsOf
<1>2. PICK x \in U : \A y \in U : <<y, x>> \notin StrictSubsetOrdering(Nat)
  <2>1. U # {}
    OBVIOUS
  <2> HIDE DEF U
  <2>2. IsWellFoundedOn(StrictSubsetOrdering(Nat), FiniteSubsetsOf(Nat))
    BY FS_StrictSubsetOrderingWellFounded
  <2>3. QED BY <1>1, <2>1, <2>2, WFMin
<1>3. PICK n \in Nat \ K : x = 1 .. n
  OBVIOUS
<1>4. n # 0 /\ n - 1 \in Nat /\ n - 1 \notin K
  BY <1>3
<1>5. 1 .. n - 1 \in U
  BY <1>4
<1>6. <<1 .. n - 1, x>> \in StrictSubsetOrdering(Nat)
  <2>1. n \in x /\ n \notin 1 .. n - 1 /\ 1 .. n - 1 \subseteq x /\ x \subseteq Nat
    BY <1>3, <1>4
  <2>2. QED BY <2>1, <1>3, <1>4 DEF StrictSubsetOrdering
<1>7. QED BY <1>2, <1>5, <1>6

(* A line with an end has a first one.                                     *)
LEMMA LineEnds ==
  ASSUME NEW s \in Seq(Content), HasLineEnd(s)
  PROVE  /\ FirstLineLength(s) \in 1 .. Len(s) /\ s[FirstLineLength(s)] = NL
         /\ \A k \in 1 .. FirstLineLength(s) - 1 : s[k] # NL
<1> DEFINE First(n) == s[n] = NL /\ \A k \in 1 .. n - 1 : s[k] # NL
<1>1. PICK e \in 1 .. Len(s) : s[e] = NL
  BY DEF HasLineEnd, ToSet
<1>2. \E n \in 1 .. Len(s) : First(n)
  <2> SUFFICES ASSUME \A n \in 1 .. Len(s) : ~First(n) PROVE FALSE
    OBVIOUS
  <2> DEFINE K == {n \in Nat : \A k \in 1 .. n : k <= Len(s) => s[k] # NL}
  <2>1. 0 \in K
    OBVIOUS
  <2>2. ASSUME NEW n \in K PROVE n + 1 \in K
    <3>1. n \in Nat /\ \A k \in 1 .. n : k <= Len(s) => s[k] # NL
      OBVIOUS
    <3>2. n + 1 <= Len(s) => s[n + 1] # NL
      BY <3>1
    <3>3. QED BY <3>1, <3>2
  <2>3. K \in SUBSET Nat
    OBVIOUS
  <2> HIDE DEF K
  <2>4. K = Nat
    BY <2>1, <2>2, <2>3, SetInduction
  <2>5. e \in K /\ e \in 1 .. e /\ e <= Len(s)
    BY <2>4
  <2>6. QED BY <1>1, <2>5 DEF K
<1>3. QED BY <1>2 DEF FirstLineLength

(* head and sed cut a file behind its first line.                          *)
LEMMA FirstLineCut ==
  ASSUME NEW s \in Seq(Content)
  PROVE  /\ FirstLine(s) \in Seq(Message) /\ AfterFirstLine(s) \in Seq(Content)
         /\ \E mid \in Seq(Content) :
              /\ s = (FirstLine(s) \o mid) \o AfterFirstLine(s)
              /\ ToSet(mid) \subseteq {NL}
<1>1. CASE HasLineEnd(s)
  <2> DEFINE n == FirstLineLength(s)
  <2>1. n \in 1 .. Len(s) /\ s[n] = NL /\ \A k \in 1 .. n - 1 : s[k] # NL
    BY <1>1, LineEnds
  <2>2. FirstLine(s) = SubSeq(s, 1, n - 1) /\ AfterFirstLine(s) = SubSeq(s, n + 1, Len(s))
    BY <1>1 DEF FirstLine, AfterFirstLine
  <2> HIDE DEF n
  <2>3. SubSeq(s, 1, n - 1) \in Seq(Message)
    <3>1. \A k \in 1 .. n - 1 : s[k] \in Message
      BY <2>1 DEF Content
    <3>2. QED BY <2>1, <3>1
  <2>4. SubSeq(s, n + 1, Len(s)) \in Seq(Content)
    BY <2>1, CutInTwo
  <2>5. s = (SubSeq(s, 1, n - 1) \o <<NL>>) \o SubSeq(s, n + 1, Len(s))
    <3>1. s = SubSeq(s, 1, n) \o SubSeq(s, n + 1, Len(s))
      BY <2>1, CutInTwo
    <3>2. SubSeq(s, 1, n) = SubSeq(s, 1, n - 1) \o <<NL>>
      BY <2>1
    <3>3. QED BY <3>1, <3>2
  <2>6. <<NL>> \in Seq(Content) /\ ToSet(<<NL>>) \subseteq {NL}
    BY DEF ToSet, Content
  <2>7. QED BY <2>2, <2>3, <2>4, <2>5, <2>6
<1>2. CASE ~HasLineEnd(s)
  <2>1. FirstLine(s) = s /\ AfterFirstLine(s) = <<>>
    BY <1>2 DEF FirstLine, AfterFirstLine, FirstLineLength
  <2>2. s \in Seq(Message)
    <3>1. \A k \in 1 .. Len(s) : s[k] \in Message
      BY <1>2 DEF HasLineEnd, ToSet, Content
    <3>2. QED BY <3>1
  <2>3. \E mid \in Seq(Content) : s = (s \o mid) \o <<>> /\ ToSet(mid) \subseteq {NL}
    <3>1. <<>> \in Seq(Content) /\ ToSet(<<>>) \subseteq {NL}
      BY DEF ToSet
    <3>2. s = (s \o <<>>) \o <<>>
      OBVIOUS
    <3>3. QED BY <3>1, <3>2
  <2>4. AfterFirstLine(s) \in Seq(Content)
    BY <2>1
  <2>5. QED BY <2>1, <2>2, <2>3, <2>4
<1>3. QED BY <1>1, <1>2

(* What is appended to a file whose first line is complete comes after it. *)
LEMMA AppendedAfter ==
  ASSUME NEW s \in Seq(Content), NEW t \in Seq(Content), HasLineEnd(s)
  PROVE  AfterFirstLine(s \o t) = AfterFirstLine(s) \o t
<1> DEFINE n == FirstLineLength(s)
           q == s \o t
<1>1. n \in 1 .. Len(s) /\ s[n] = NL /\ \A k \in 1 .. n - 1 : s[k] # NL
  BY LineEnds
<1>2. /\ q \in Seq(Content) /\ Len(q) = Len(s) + Len(t)
      /\ \A i \in 1 .. Len(s) : q[i] = s[i]
      /\ \A i \in 1 .. Len(t) : q[Len(s) + i] = t[i]
  BY PartsOfSeq
<1> HIDE DEF n, q
<1>3. HasLineEnd(q)
  <2>1. n \in DOMAIN q /\ q[n] = NL
    BY <1>1, <1>2
  <2>2. QED BY <2>1 DEF HasLineEnd, ToSet
<1>4. FirstLineLength(q) = n
  <2>1. /\ FirstLineLength(q) \in 1 .. Len(q) /\ q[FirstLineLength(q)] = NL
        /\ \A k \in 1 .. FirstLineLength(q) - 1 : q[k] # NL
    BY <1>2, <1>3, LineEnds
  <2>2. ~(n < FirstLineLength(q))
    BY <1>1, <1>2, <2>1
  <2>3. ~(FirstLineLength(q) < n)
    BY <1>1, <1>2, <2>1
  <2>4. QED BY <1>1, <2>1, <2>2, <2>3
<1>5. /\ SubSeq(q, n + 1, Len(q)) \in Seq(Content)
      /\ Len(SubSeq(q, n + 1, Len(q))) = Len(q) - n
      /\ \A i \in 1 .. Len(q) - n : SubSeq(q, n + 1, Len(q))[i] = q[n + i]
  BY <1>1, <1>2
<1>6. /\ SubSeq(s, n + 1, Len(s)) \in Seq(Content)
      /\ Len(SubSeq(s, n + 1, Len(s))) = Len(s) - n
      /\ \A i \in 1 .. Len(s) - n : SubSeq(s, n + 1, Len(s))[i] = s[n + i]
  BY <1>1
<1> DEFINE a == SubSeq(s, n + 1, Len(s))
           b == SubSeq(q, n + 1, Len(q))
<1> HIDE DEF a, b
<1>7. /\ a \o t \in Seq(Content) /\ Len(a \o t) = Len(a) + Len(t)
      /\ \A i \in 1 .. Len(a) : (a \o t)[i] = a[i]
      /\ \A i \in 1 .. Len(t) : (a \o t)[Len(a) + i] = t[i]
  BY <1>6, PartsOfSeq DEF a
<1>8. \A i \in 1 .. Len(b) : b[i] = (a \o t)[i]
  <2> SUFFICES ASSUME NEW i \in 1 .. Len(b) PROVE b[i] = (a \o t)[i]
    OBVIOUS
  <2>1. i \in 1 .. Len(q) - n /\ b[i] = q[n + i]
    BY <1>5 DEF b
  <2> Len(a) = Len(s) - n /\ Len(a) \in Nat
    BY <1>1, <1>6 DEF a
  <2>2. CASE i <= Len(a)
    <3>1. i \in 1 .. Len(a) /\ n + i \in 1 .. Len(s)
      BY <1>1, <2>1, <2>2
    <3>2. a[i] = s[n + i] /\ q[n + i] = s[n + i]
      BY <1>2, <1>6, <3>1 DEF a
    <3>3. QED BY <1>7, <2>1, <3>1, <3>2
  <2>3. CASE i > Len(a)
    <3>1. i - Len(a) \in 1 .. Len(t)
      <4>1. Len(s) \in Nat /\ Len(t) \in Nat /\ n \in Nat /\ Len(q) = Len(s) + Len(t)
        BY <1>1, <1>2
      <4>2. i \in Nat /\ i > Len(a) /\ i <= (Len(s) + Len(t)) - n
        BY <2>1, <2>3, <4>1
      <4>3. QED BY <4>1, <4>2
    <3>2. i \in Int /\ n \in Int /\ Len(s) \in Int
      BY <1>1, <2>1
    <3>3. n + i = Len(s) + (i - Len(a)) /\ i = Len(a) + (i - Len(a))
      BY <3>2
    <3>4. q[n + i] = t[i - Len(a)] /\ (a \o t)[i] = t[i - Len(a)]
      <4> DEFINE k == i - Len(a)
      <4> HIDE DEF k
      <4>1. k \in 1 .. Len(t) /\ n + i = Len(s) + k /\ i = Len(a) + k
        BY <3>1, <3>3 DEF k
      <4>2. q[n + i] = t[k] /\ (a \o t)[i] = t[k]
        BY <1>2, <1>7, <4>1
      <4>3. QED BY <4>2 DEF k
    <3>5. QED BY <2>1, <3>4
  <2>4. QED BY <1>1, <1>2, <2>1, <2>2, <2>3
<1>9. b = a \o t
  <2>1. b \in Seq(Content) /\ Len(b) = Len(a \o t)
    BY <1>1, <1>2, <1>5, <1>6, <1>7 DEF a, b
  <2>2. QED BY <1>7, <1>8, <2>1, SeqEqual
<1>10. QED BY <1>1, <1>3, <1>4, <1>9 DEF AfterFirstLine, a, b, n, q

(* What server.php writes for a message.                                   *)
Posted(m) == {<<m>>, <<m, NL>>}

(* A post is one message, with or without a line end.                      *)
LEMMA PostedType ==
  ASSUME NEW m \in Message, NEW t \in Posted(m)
  PROVE  /\ t \in Seq(Content) /\ ToSet(t) \subseteq {m, NL} /\ m \in ToSet(t)
         /\ \A lost, w : NL \in lost => InOrder(t, lost, w)
<1>1. CASE t = <<m>>
  <2>1. t \in Seq(Content) /\ DOMAIN t = {1} /\ t[1] = m
    BY <1>1 DEF Content
  <2>2. QED BY <2>1 DEF ToSet, InOrder
<1>2. CASE t = <<m, NL>>
  <2>1. t \in Seq(Content) /\ DOMAIN t = {1, 2} /\ t[1] = m /\ t[2] = NL
    BY <1>2 DEF Content
  <2>2. QED BY <2>1 DEF ToSet, InOrder
<1>3. QED BY <1>1, <1>2 DEF Posted

(* What is appended to a file without a line end is part of its first      *)
(* line.                                                                   *)
LEMMA NothingAfter ==
  ASSUME NEW s \in Seq(Content), ~HasLineEnd(s), NEW m \in Message, NEW t \in Posted(m)
  PROVE  AfterFirstLine(s) = <<>> /\ AfterFirstLine(s \o t) = <<>>
<1> DEFINE q == s \o t
<1>1. /\ q \in Seq(Content) /\ Len(q) = Len(s) + Len(t)
      /\ \A i \in 1 .. Len(s) : q[i] = s[i]
      /\ \A i \in 1 .. Len(t) : q[Len(s) + i] = t[i]
  BY PostedType, PartsOfSeq
<1>2. \A i \in 1 .. Len(s) : s[i] # NL
  BY DEF HasLineEnd, ToSet
<1>3. m # NL
  BY PollingAssumption DEF Message
<1>4. Len(s) \in Nat
  OBVIOUS
<1> HIDE DEF q
<1>5. AfterFirstLine(s) = <<>>
  BY DEF AfterFirstLine, FirstLineLength
<1>6. FirstLineLength(q) = Len(q)
  <2>1. CASE ~HasLineEnd(q)
    BY <2>1 DEF FirstLineLength
  <2>2. CASE HasLineEnd(q)
    <3> DEFINE n == FirstLineLength(q)
    <3>1. n \in 1 .. Len(q) /\ q[n] = NL
      BY <1>1, <2>2, LineEnds
    <3> HIDE DEF n
    <3>2. n > Len(s)
      BY <1>1, <1>2, <1>4, <3>1
    <3>3. CASE t = <<m>>
      <4>1. n = Len(s) + 1 /\ Len(t) = 1 /\ t[1] = m
        BY <1>1, <1>4, <3>1, <3>2, <3>3
      <4>2. QED BY <1>1, <1>3, <3>1, <4>1 DEF n
    <3>4. CASE t = <<m, NL>>
      <4>1. Len(t) = 2 /\ t[1] = m
        BY <3>4
      <4>2. n # Len(s) + 1
        BY <1>1, <1>3, <3>1, <4>1
      <4>3. QED BY <1>1, <1>4, <3>1, <3>2, <4>1, <4>2 DEF n
    <3>5. QED BY <3>3, <3>4 DEF Posted
  <2>3. QED BY <2>1, <2>2
<1>7. AfterFirstLine(q) = <<>>
  BY <1>1, <1>6 DEF AfterFirstLine
<1>8. QED BY <1>5, <1>7 DEF q

(* The history grows at its end.                                           *)
LEMMA OneMoreSent ==
  ASSUME NEW s \in Seq(Message), NEW m \in Message
  PROVE  /\ Append(s, m) \in Seq(Message)
         /\ ToSet(Append(s, m)) = ToSet(s) \cup {m}
         /\ \A x, y : Precede(x, y, s) => Precede(x, y, Append(s, m))
         /\ \A x \in ToSet(s) : Precede(x, m, Append(s, m))
<1> DEFINE w == Append(s, m)
<1>1. /\ w \in Seq(Message) /\ Len(w) = Len(s) + 1 /\ w[Len(s) + 1] = m
      /\ \A i \in 1 .. Len(s) : w[i] = s[i]
  OBVIOUS
<1>2. DOMAIN w = 1 .. Len(s) + 1 /\ DOMAIN s = 1 .. Len(s) /\ Len(s) \in Nat
  OBVIOUS
<1> HIDE DEF w
<1>3. ToSet(w) = ToSet(s) \cup {m}
  BY <1>1, <1>2 DEF ToSet
<1>4. ASSUME NEW x, NEW y, Precede(x, y, s) PROVE Precede(x, y, w)
  BY <1>1, <1>2, <1>4 DEF Precede
<1>5. ASSUME NEW x \in ToSet(s) PROVE Precede(x, m, w)
  BY <1>1, <1>2 DEF Precede, ToSet
<1>6. QED BY <1>1, <1>3, <1>4, <1>5 DEF w

Good(q, s, r, w) ==
  InOrder(q, r \cup {NL}, s) /\ ToSet(q) \ (r \cup {NL}) = ToSet(s) \ (r \cup w)

NoRepeats(s) == \A i, j \in DOMAIN s : i # j => s[i] # s[j]

(* There is nothing in the queue that was not written.                     *)
LEMMA GoodHasSent ==
  ASSUME NEW q, NEW s, NEW r \in SUBSET ToSet(s), NEW w, Good(q, s, r, w)
  PROVE  ToSet(q) \subseteq ToSet(s) \cup {NL}
BY DEF Good

(* A message that is written gets to the end of the queue, or is lost.     *)
LEMMA GoodWhenWritten ==
  ASSUME NEW q \in Seq(Content), NEW s \in Seq(Message), NEW r \in SUBSET ToSet(s),
         NEW w \in SUBSET ToSet(s), Good(q, s, r, w),
         NEW m \in Message \ ToSet(s), NEW t \in Posted(m)
  PROVE  /\ Good(q \o t, Append(s, m), r, w)
         /\ Good(q \o t, Append(s, m), r \cup {m}, w)
         /\ Good(q, Append(s, m), r \cup {m}, w)
<1> DEFINE z == Append(s, m)
           L == r \cup {NL}
           M == (r \cup {m}) \cup {NL}
<1>1. /\ t \in Seq(Content) /\ ToSet(t) \subseteq {m, NL} /\ m \in ToSet(t)
      /\ InOrder(t, L, z) /\ InOrder(t, M, z)
  BY PostedType
<1>2. /\ ToSet(z) = ToSet(s) \cup {m}
      /\ \A x, y : Precede(x, y, s) => Precede(x, y, z)
      /\ \A x \in ToSet(s) : Precede(x, m, z)
  BY OneMoreSent
<1>3. m # NL
  BY PollingAssumption DEF Message
<1>4. ToSet(q) \subseteq ToSet(s) \cup {NL}
  BY GoodHasSent
<1>5. ToSet(q \o t) = ToSet(q) \cup ToSet(t)
  BY <1>1, ElementsOfParts
<1> HIDE DEF z
<1>6. InOrder(q, L, z) /\ InOrder(q, M, z)
  BY <1>2 DEF Good, InOrder
<1>7. InOrder(q \o t, L, z)
  <2>1. \A x \in ToSet(q) \ L, y \in ToSet(t) \ L : Precede(x, y, z)
    BY <1>1, <1>2, <1>4
  <2> HIDE DEF L
  <2>2. QED BY <1>1, <1>6, <2>1, OrderOfParts
<1>8. InOrder(q \o t, M, z)
  <2>1. \A x \in ToSet(q) \ M, y \in ToSet(t) \ M : Precede(x, y, z)
    BY <1>1
  <2> HIDE DEF M
  <2>2. QED BY <1>1, <1>6, <2>1, OrderOfParts
<1>9. /\ ToSet(q \o t) \ L = ToSet(z) \ (r \cup w)
      /\ ToSet(q \o t) \ M = ToSet(z) \ ((r \cup {m}) \cup w)
      /\ ToSet(q) \ M = ToSet(z) \ ((r \cup {m}) \cup w)
  BY <1>1, <1>2, <1>3, <1>4, <1>5 DEF Good
<1>10. QED BY <1>6, <1>7, <1>8, <1>9 DEF Good, z

(* sed leaves out the rest of the line that head has read, and what is     *)
(* lost with it.                                                           *)
LEMMA GoodWithout ==
  ASSUME NEW d \in Seq(Content), NEW l \in Seq(Content), NEW mid \in Seq(Content),
         NEW rest \in Seq(Content), NEW s, NEW r, NEW w,
         ToSet(mid) \subseteq r \cup {NL}, Good(d \o ((l \o mid) \o rest), s, r, w)
  PROVE  Good((d \o l) \o rest, s, r, w)
<1> DEFINE L == r \cup {NL}
<1>1. l \o mid \in Seq(Content) /\ (l \o mid) \o rest \in Seq(Content) /\ d \o l \in Seq(Content)
  BY ConcatProperties
<1>2. InOrder(d \o ((l \o mid) \o rest), L, s) /\ ToSet(mid) \subseteq L
  BY DEF Good
<1>3. /\ ToSet(l \o mid) = ToSet(l) \cup ToSet(mid)
      /\ ToSet((l \o mid) \o rest) = (ToSet(l) \cup ToSet(mid)) \cup ToSet(rest)
      /\ ToSet(d \o ((l \o mid) \o rest)) = ToSet(d) \cup ((ToSet(l) \cup ToSet(mid)) \cup ToSet(rest))
      /\ ToSet(d \o l) = ToSet(d) \cup ToSet(l)
      /\ ToSet((d \o l) \o rest) = (ToSet(d) \cup ToSet(l)) \cup ToSet(rest)
  <2>1. ToSet(l \o mid) = ToSet(l) \cup ToSet(mid) /\ ToSet(d \o l) = ToSet(d) \cup ToSet(l)
    BY ElementsOfParts
  <2>2. ToSet((l \o mid) \o rest) = ToSet(l \o mid) \cup ToSet(rest)
    BY ElementsOfThree
  <2>3. ToSet((d \o l) \o rest) = ToSet(d \o l) \cup ToSet(rest)
    BY ElementsOfThree
  <2>4. ToSet(d \o ((l \o mid) \o rest)) = ToSet(d) \cup ToSet((l \o mid) \o rest)
    <3> DEFINE x == (l \o mid) \o rest
    <3>1. x \in Seq(Content)
      BY <1>1
    <3> HIDE DEF x
    <3>2. ToSet(d \o x) = ToSet(d) \cup ToSet(x)
      BY <3>1, ElementsOfParts
    <3>3. QED BY <3>2 DEF x
  <2>5. QED BY <2>1, <2>2, <2>3, <2>4, Zenon
<1> HIDE DEF L
<1>4. /\ InOrder(d, L, s) /\ InOrder((l \o mid) \o rest, L, s)
      /\ \A x \in ToSet(d) \ L, y \in ToSet((l \o mid) \o rest) \ L : Precede(x, y, s)
  BY <1>1, <1>2, OrderOfParts
<1>5. /\ InOrder(l \o mid, L, s) /\ InOrder(rest, L, s)
      /\ \A x \in ToSet(l \o mid) \ L, y \in ToSet(rest) \ L : Precede(x, y, s)
  BY <1>1, <1>4, OrderOfParts
<1>6. InOrder(l, L, s)
  BY <1>5, OrderOfParts
<1>7. InOrder(d \o l, L, s)
  <2>1. \A x \in ToSet(d) \ L, y \in ToSet(l) \ L : Precede(x, y, s)
    BY <1>3, <1>4
  <2>2. QED BY <1>4, <1>6, <2>1, OrderOfParts
<1>8. InOrder((d \o l) \o rest, L, s)
  <2>1. \A x \in ToSet(d \o l) \ L, y \in ToSet(rest) \ L : Precede(x, y, s)
    BY <1>3, <1>4, <1>5
  <2>2. QED BY <1>1, <1>5, <1>7, <2>1, OrderOfParts
<1>9. ToSet((d \o l) \o rest) \ L = ToSet(d \o ((l \o mid) \o rest)) \ L
  BY <1>2, <1>3
<1>10. QED BY <1>8, <1>9 DEF Good, L

(* A line that is printed for nobody is gone, and nothing else is.         *)
LEMMA GoodWhenWasted ==
  ASSUME NEW d \in Seq(Content), NEW l \in Seq(Content), NEW rest \in Seq(Content),
         NEW s \in Seq(Message), NoRepeats(s), NEW r, NEW w,
         ToSet(l) \cap (r \cup {NL}) = {}, Good((d \o l) \o rest, s, r, w)
  PROVE  Good(d \o rest, s, r, w \cup ToSet(l))
<1> DEFINE L == r \cup {NL}
<1>1. d \o l \in Seq(Content)
  BY ConcatProperties
<1>2. InOrder((d \o l) \o rest, L, s)
  BY DEF Good
<1>3. /\ ToSet(d \o l) = ToSet(d) \cup ToSet(l)
      /\ ToSet((d \o l) \o rest) = (ToSet(d) \cup ToSet(l)) \cup ToSet(rest)
      /\ ToSet(d \o rest) = ToSet(d) \cup ToSet(rest)
  <2>1. ToSet(d \o l) = ToSet(d) \cup ToSet(l) /\ ToSet(d \o rest) = ToSet(d) \cup ToSet(rest)
    BY ElementsOfParts
  <2>2. ToSet((d \o l) \o rest) = ToSet(d \o l) \cup ToSet(rest)
    BY ElementsOfThree
  <2>3. QED BY <2>1, <2>2, Zenon
<1> HIDE DEF L
<1>4. /\ InOrder(d \o l, L, s) /\ InOrder(rest, L, s)
      /\ \A x \in ToSet(d \o l) \ L, y \in ToSet(rest) \ L : Precede(x, y, s)
  BY <1>1, <1>2, OrderOfParts
<1>5. /\ InOrder(d, L, s)
      /\ \A x \in ToSet(d) \ L, y \in ToSet(l) \ L : Precede(x, y, s)
  BY <1>4, OrderOfParts
<1>6. InOrder(d \o rest, L, s)
  <2>1. \A x \in ToSet(d) \ L, y \in ToSet(rest) \ L : Precede(x, y, s)
    BY <1>3, <1>4
  <2>2. QED BY <1>4, <1>5, <2>1, OrderOfParts
<1>7. \A x : ~Precede(x, x, s)
  BY DEF Precede, NoRepeats
<1>8. (ToSet(d) \ L) \cap ToSet(l) = {} /\ (ToSet(rest) \ L) \cap ToSet(l) = {}
  BY <1>3, <1>4, <1>5, <1>7 DEF L
<1>9. ToSet(d \o rest) \ L = ToSet(s) \ (r \cup (w \cup ToSet(l)))
  BY <1>3, <1>8 DEF Good, L
<1>10. QED BY <1>6, <1>9 DEF Good, L

-----------------------------------------------------------------------------
(* The polling, until two pages are at the file at once: the types, ...    *)
PollTyped ==
  /\ data \in Seq(Content) \cup {None}
  /\ tmp \in Seq(Content) \cup {None}
  /\ line \in [Page -> Seq(Message)]
  /\ out \in [Page -> {"tmp", "data", "gone", None}]
  /\ at \in [Page -> {"head", "open", "sed", "mv", "echo", "over"}]
  /\ file \in [Message -> {"new", "data", "gone", "done"}]
  /\ \A m \in Message : file[m] = "data" => data # None
  /\ sent \in Seq(Message) /\ delivered \in Seq(Message)
  /\ raced \subseteq ToSet(sent) /\ wasted \subseteq ToSet(sent)

(* ... whoever is at the file is there alone, and has what nobody else has. *)
OnePage == \A p, q \in Page : Busy(p) /\ Busy(q) => p = q
SentOnce == NoRepeats(sent) /\ \A m \in ToSet(sent) : file[m] = "done"

InHand ==
  /\ ToSet(delivered) \subseteq ToSet(sent) \ raced
  /\ \A p \in Page : Busy(p) => data # None /\ ToSet(line[p]) \subseteq ToSet(sent) \ raced

(* A message that was written during a rewrite is in the file only while   *)
(* that goes on, ...                                                       *)
FileIsWhole ==
  (\A p \in Page : at[p] \notin {"open", "sed", "mv"}) => ToSet(InFile) \cap raced = {}

(* ... in the rest of the line that head has read from, ...                *)
Looking(p) == at[p] \in {"open", "sed"}
RacedInLine ==
  \A p \in Page : Looking(p) =>
    /\ ToSet(AfterFirstLine(data)) \cap raced = {}
    /\ \E mid \in Seq(Content) : /\ data = (line[p] \o mid) \o AfterFirstLine(data)
                                 /\ ToSet(mid) \subseteq raced \cup {NL}

(* ... so that what sed writes is the queue behind what the page has.      *)
CopyIsQueue ==
  /\ \A p \in Page : at[p] = "sed" => tmp = <<>> /\ out[p] = "tmp"
  /\ \A p \in Page : at[p] = "mv" =>
       /\ tmp # None /\ ToSet(tmp) \subseteq (ToSet(sent) \cup {NL}) \ raced
       /\ Good((delivered \o line[p]) \o tmp, sent, raced, wasted)

Quiet ==
  /\ PollTyped /\ OnePage /\ SentOnce /\ InHand
  /\ Good(Queue, sent, raced, wasted)
  /\ FileIsWhole /\ RacedInLine /\ CopyIsQueue

PollInv == ~overlap => Quiet

HeldIn(a, l) == IF \E p \in Page : a[p] = "echo"
                THEN l[CHOOSE p \in Page : a[p] = "echo"] ELSE <<>>

(* The one page that is about to print is the one that has a line.         *)
LEMMA HeldBy ==
  ASSUME NEW a, NEW l
  PROVE  /\ (\A p \in Page : a[p] # "echo") => HeldIn(a, l) = <<>>
         /\ \A p \in Page :
              a[p] = "echo" /\ (\A q \in Page : a[q] = "echo" => q = p) => HeldIn(a, l) = l[p]
BY DEF HeldIn

LEMMA HeldNow == Held = HeldIn(at, line) /\ Held' = HeldIn(at', line')
BY DEF Held, HeldIn

(* Messages are content of a file; line ends are no messages.              *)
LEMMA MessageIsContent ==
  Seq(Message) \subseteq Seq(Content) /\ NL \notin Message /\ None \notin Seq(Content)
BY PollingAssumption DEF Message, Content

(* The parts of the queue.                                                 *)
LEMMA QuietQueue ==
  ASSUME Quiet
  PROVE  /\ delivered \in Seq(Content) /\ Held \in Seq(Content) /\ InFile \in Seq(Content)
         /\ \A p \in Page : line[p] \in Seq(Content)
         /\ delivered \o Held \in Seq(Content) /\ Queue \in Seq(Content)
         /\ \A p \in Page : at[p] = "echo" => Held = line[p]
         /\ (\A p \in Page : at[p] # "echo") => Held = <<>>
         /\ ToSet(InFile) \subseteq ToSet(sent) \cup {NL}
         /\ NL \notin raced
<1>1. \A p \in Page : at[p] = "echo" => Held = line[p]
  BY HeldNow, HeldBy DEF Quiet, OnePage, Busy
<1>2. (\A p \in Page : at[p] # "echo") => Held = <<>>
  BY HeldNow, HeldBy
<1>3. delivered \in Seq(Content) /\ \A p \in Page : line[p] \in Seq(Content)
  BY MessageIsContent DEF Quiet, PollTyped
<1>4. Held \in Seq(Content)
  <2>1. <<>> \in Seq(Content)
    OBVIOUS
  <2>2. QED BY <1>1, <1>2, <1>3, <2>1
<1>5. InFile \in Seq(Content)
  BY DEF Quiet, PollTyped, InFile
<1>6. delivered \o Held \in Seq(Content) /\ Queue \in Seq(Content)
  BY <1>3, <1>4, <1>5, ConcatProperties DEF Queue
<1>7. ToSet(InFile) \subseteq ToSet(Queue)
  <2>1. ToSet(Queue) = ToSet(delivered \o Held) \cup ToSet(InFile)
    BY <1>3, <1>4, <1>5, ElementsOfThree DEF Queue
  <2>2. QED BY <2>1
<1>8. ToSet(Queue) \subseteq ToSet(sent) \cup {NL}
  BY GoodHasSent DEF Quiet, PollTyped
<1>9. NL \notin raced
  <2>1. ToSet(sent) \subseteq Message
    BY DEF Quiet, PollTyped, ToSet
  <2>2. QED BY <2>1, MessageIsContent DEF Quiet, PollTyped
<1>10. QED BY <1>1, <1>2, <1>3, <1>4, <1>5, <1>6, <1>7, <1>8, <1>9

(* At the start there is nothing in the queue, and nobody at it.           *)
LEMMA PollInit == Init => PollInv
<1> SUFFICES ASSUME Init PROVE Quiet
  BY DEF PollInv
<1>1. ToSet(<<>>) = {} /\ DOMAIN <<>> = {} /\ <<>> \in Seq(Message)
  BY DEF ToSet
<1>2. PollTyped /\ OnePage /\ SentOnce /\ InHand
  BY <1>1 DEF Init, PollTyped, OnePage, SentOnce, InHand, Busy, NoRepeats
<1>3. Queue = <<>> /\ InFile = <<>>
  BY DEF Init, Queue, Held, InFile
<1>4. Good(Queue, sent, raced, wasted)
  BY <1>1, <1>3 DEF Init, Good, InOrder
<1>5. FileIsWhole /\ RacedInLine /\ CopyIsQueue
  BY <1>1, <1>3 DEF Init, FileIsWhole, RacedInLine, CopyIsQueue, Looking
<1>6. QED BY <1>2, <1>4, <1>5 DEF Quiet

(* What is appended to a whole is appended to its last part.               *)
LEMMA Regrouped ==
  ASSUME NEW a \in Seq(Content), NEW x \in Seq(Content), NEW t \in Seq(Content), NEW q, q = a \o x
  PROVE  q \o t = a \o (x \o t)
BY ConcatAssociative

(* Opening the file changes nothing that can be read in it.                *)
LEMMA QuietOpenData ==
  ASSUME Quiet, NEW m \in Message, OpenData(m)
  PROVE  Quiet'
<1>1. /\ file[m] = "new" /\ file' = [file EXCEPT ![m] = "data"]
      /\ data' = IF data = None THEN <<>> ELSE data
      /\ UNCHANGED <<tmp, at, line, out, sent, delivered, wasted, raced, overlap>>
  BY DEF OpenData, history
<1>2. PollTyped /\ OnePage /\ SentOnce /\ InHand
  BY DEF Quiet
<1>3. <<>> \in Seq(Content) /\ <<>> # None
  <2>1. <<>> \in Seq(Content)
    OBVIOUS
  <2>2. QED BY <2>1, MessageIsContent
<1>4. /\ data' \in Seq(Content) /\ data' # None
      /\ file' \in [Message -> {"new", "data", "gone", "done"}]
  BY <1>1, <1>2, <1>3, MessageIsContent DEF PollTyped
<1>5. PollTyped'
  BY <1>1, <1>2, <1>4 DEF PollTyped
<1>6. SentOnce'
  BY <1>1, <1>2 DEF SentOnce, PollTyped
<1>7. OnePage' /\ InHand'
  BY <1>1, <1>2, <1>4 DEF OnePage, InHand, Busy
<1>8. InFile' = InFile /\ Held' = Held
  BY <1>1, <1>3 DEF InFile, Held
<1>9. Queue' = Queue
  BY <1>1, <1>8 DEF Queue
<1>10. Good(Queue, sent, raced, wasted)' /\ FileIsWhole'
  BY <1>1, <1>8, <1>9 DEF Quiet, FileIsWhole, Good, InOrder, Precede
<1>11. \A p \in Page : Looking(p) => data' = data
  BY <1>1, <1>2 DEF InHand, Looking, Busy
<1>12. RacedInLine' /\ CopyIsQueue'
  BY <1>1, <1>11 DEF Quiet, RacedInLine, CopyIsQueue, Looking
<1>13. QED BY <1>5, <1>6, <1>7, <1>10, <1>12 DEF Quiet

(* What is written comes last, or is lost to the page that rewrites.       *)
LEMMA QuietWriteData ==
  ASSUME Quiet, ~overlap, NEW m \in Message, WriteData(m)
  PROVE  Quiet'
<1>1. PICK t \in Posted(m) : data' = IF file[m] = "data" THEN data \o t ELSE data
  BY DEF WriteData, Posted
<1>2. /\ file[m] \in {"data", "gone"} /\ file' = [file EXCEPT ![m] = "done"]
      /\ sent' = Append(sent, m)
      /\ raced' = IF WillBeLost(m) THEN raced \cup {m} ELSE raced
      /\ UNCHANGED <<tmp, at, line, out, delivered, wasted>>
  BY DEF WriteData
<1>3. PollTyped /\ OnePage /\ SentOnce /\ InHand /\ Good(Queue, sent, raced, wasted)
  BY DEF Quiet
<1>4. /\ m \notin ToSet(sent) /\ m # NL /\ m \notin raced
  BY <1>2, <1>3, MessageIsContent DEF SentOnce, PollTyped
<1>5. /\ sent' \in Seq(Message) /\ ToSet(sent') = ToSet(sent) \cup {m}
      /\ Len(sent') = Len(sent) + 1 /\ sent'[Len(sent) + 1] = m
      /\ \A i \in 1 .. Len(sent) : sent'[i] = sent[i]
  BY <1>2, <1>3, OneMoreSent DEF PollTyped
<1>6. /\ t \in Seq(Content) /\ ToSet(t) \subseteq {m, NL}
  BY PostedType
<1>7. /\ delivered \in Seq(Content) /\ Held \in Seq(Content) /\ InFile \in Seq(Content)
      /\ \A p \in Page : line[p] \in Seq(Content)
      /\ delivered \o Held \in Seq(Content) /\ Queue \in Seq(Content)
      /\ ToSet(InFile) \subseteq ToSet(sent) \cup {NL}
      /\ NL \notin raced
  BY QuietQueue
<1>8. PollTyped'
  <2>1. file[m] = "data" => data \in Seq(Content) /\ data \o t \in Seq(Content)
    BY <1>3, <1>6, ConcatProperties DEF PollTyped
  <2>2. data' \in Seq(Content) \cup {None} /\ (file[m] = "data" => data' # None)
    BY <1>1, <1>3, <2>1, MessageIsContent DEF PollTyped
  <2>3. /\ file' \in [Message -> {"new", "data", "gone", "done"}]
        /\ \A k \in Message : file'[k] = "data" => data' # None
    BY <1>1, <1>2, <1>3, <2>2 DEF PollTyped
  <2>4. raced' \subseteq ToSet(sent') /\ wasted' \subseteq ToSet(sent')
    BY <1>2, <1>3, <1>5 DEF PollTyped
  <2>5. QED BY <1>2, <1>3, <1>5, <2>2, <2>3, <2>4 DEF PollTyped
<1>9. OnePage'
  BY <1>2, <1>3 DEF OnePage, Busy
<1>10. SentOnce'
  <2>1. ASSUME NEW i \in DOMAIN sent', NEW j \in DOMAIN sent', i # j PROVE sent'[i] # sent'[j]
    <3>1. \A k \in 1 .. Len(sent) : sent[k] # m
      BY <1>3, <1>4 DEF PollTyped, ToSet
    <3>2. /\ DOMAIN sent' = 1 .. Len(sent) + 1 /\ DOMAIN sent = 1 .. Len(sent) /\ Len(sent) \in Nat
      BY <1>3, <1>5 DEF PollTyped
    <3>3. QED BY <1>3, <1>5, <2>1, <3>1, <3>2 DEF SentOnce, NoRepeats
  <2>2. \A k \in ToSet(sent') : file'[k] = "done"
    <3>1. ToSet(sent) \subseteq Message
      BY <1>3 DEF PollTyped, ToSet
    <3>2. QED BY <1>2, <1>3, <1>5, <3>1 DEF SentOnce, PollTyped
  <2>3. QED BY <2>1, <2>2 DEF SentOnce, NoRepeats
<1>11. InHand'
  <2>1. data # None => data' # None
    <3>1. data # None => data \o t \in Seq(Content)
      BY <1>3, <1>6, ConcatProperties DEF PollTyped
    <3>2. QED BY <1>1, <3>1, MessageIsContent
  <2>2. QED BY <1>2, <1>3, <1>4, <1>5, <2>1 DEF InHand, Busy
<1>12. /\ Good(Queue \o t, sent', raced', wasted)
       /\ WillBeLost(m) => Good(Queue, sent', raced', wasted)
  BY <1>2, <1>3, <1>4, <1>7, GoodWhenWritten DEF PollTyped
<1>13. Held' = Held
  BY <1>2 DEF Held
<1>14. ASSUME file[m] = "data"
       PROVE  data \in Seq(Content) /\ data' = data \o t /\ InFile = data /\ InFile' = data \o t
  <2>1. data \in Seq(Content)
    BY <1>3, <1>14 DEF PollTyped
  <2>2. data \o t \in Seq(Content)
    BY <1>6, <2>1, ConcatProperties
  <2>3. QED BY <1>1, <1>14, <2>1, <2>2, MessageIsContent DEF InFile
<1>15. file[m] = "gone" => data' = data /\ InFile' = InFile /\ WillBeLost(m)
  BY <1>1 DEF InFile, WillBeLost
<1>16. Good(Queue, sent, raced, wasted)'
  <2>1. CASE file[m] = "data"
    <3>1. Queue' = (delivered \o Held) \o (data \o t) /\ Queue = (delivered \o Held) \o data
      BY <1>2, <1>13, <1>14, <2>1 DEF Queue
    <3>2. Queue' = Queue \o t
      <4> DEFINE d == delivered \o Held
      <4>1. d \in Seq(Content) /\ Queue' = d \o (data \o t) /\ Queue = d \o data
        BY <1>7, <3>1
      <4> HIDE DEF d
      <4>2. QED BY <1>6, <1>14, <2>1, <4>1, Regrouped
    <3>3. QED BY <1>2, <1>12, <3>2
  <2>2. CASE file[m] = "gone"
    <3>1. Queue' = Queue
      BY <1>2, <1>13, <1>15, <2>2 DEF Queue
    <3>2. QED BY <1>2, <1>12, <1>15, <2>2, <3>1
  <2>3. QED BY <1>2, <2>1, <2>2
<1>17. ToSet(InFile') \subseteq ToSet(InFile) \cup ToSet(t)
  <2>1. CASE file[m] = "data"
    <3>1. data \in Seq(Content) /\ InFile = data /\ InFile' = data \o t
      BY <1>14, <2>1
    <3>2. ToSet(data \o t) = ToSet(data) \cup ToSet(t)
      BY <1>6, <3>1, ElementsOfParts
    <3>3. QED BY <3>1, <3>2
  <2>2. QED BY <1>2, <1>15, <2>1
<1>18. FileIsWhole'
  <2> SUFFICES ASSUME \A p \in Page : at[p] \notin {"open", "sed", "mv"}
               PROVE  ToSet(InFile') \cap raced' = {}
    BY <1>2 DEF FileIsWhole
  <2>1. ToSet(InFile) \cap raced = {}
    BY DEF Quiet, FileIsWhole
  <2>2. CASE file[m] = "data"
    <3>1. ~WillBeLost(m)
      BY <2>2 DEF WillBeLost
    <3>2. QED BY <1>2, <1>4, <1>6, <1>7, <1>17, <2>1, <3>1
  <2>3. CASE file[m] = "gone"
    BY <1>2, <1>4, <1>7, <1>15, <2>1, <2>3
  <2>4. QED BY <1>2, <2>2, <2>3
<1>19. RacedInLine'
  <2> SUFFICES ASSUME NEW p \in Page, Looking(p)
               PROVE  /\ ToSet(AfterFirstLine(data')) \cap raced' = {}
                      /\ \E mid \in Seq(Content) :
                           /\ data' = (line[p] \o mid) \o AfterFirstLine(data')
                           /\ ToSet(mid) \subseteq raced' \cup {NL}
    BY <1>2 DEF RacedInLine, Looking
  <2>1. data \in Seq(Content) /\ InFile = data
    BY <1>3 DEF PollTyped, InHand, Looking, Busy, InFile
  <2>2. AfterFirstLine(data) \in Seq(Content)
    BY <2>1, FirstLineCut
  <2>3. PICK mid \in Seq(Content) : /\ data = (line[p] \o mid) \o AfterFirstLine(data)
                                    /\ ToSet(mid) \subseteq raced \cup {NL}
    BY DEF Quiet, RacedInLine
  <2>4. ToSet(AfterFirstLine(data)) \cap raced = {}
    BY DEF Quiet, RacedInLine
  <2>5. line[p] \o mid \in Seq(Content)
    BY <1>7, ConcatProperties
  <2>6. ToSet(AfterFirstLine(data)) \subseteq ToSet(data)
    <3> DEFINE x == line[p] \o mid
               y == AfterFirstLine(data)
    <3>1. x \in Seq(Content) /\ y \in Seq(Content) /\ data = x \o y
      BY <2>2, <2>3, <2>5
    <3> HIDE DEF x, y
    <3>2. ToSet(y) \subseteq ToSet(data)
      BY <3>1, ElementsOfParts
    <3>3. QED BY <3>2 DEF y
  <2>7. CASE file[m] = "gone"
    BY <1>2, <1>4, <1>7, <1>15, <2>1, <2>3, <2>4, <2>6, <2>7
  <2>8. CASE file[m] = "data" /\ HasLineEnd(data)
    <3>1. data' = data \o t /\ AfterFirstLine(data') = AfterFirstLine(data) \o t
      BY <1>6, <1>14, <2>1, <2>8, AppendedAfter
    <3>2. ~WillBeLost(m)
      <4>1. \A q \in Page : at[q] # "mv"
        BY <1>3 DEF OnePage, Busy, Looking
      <4>2. QED BY <2>8, <4>1 DEF WillBeLost
    <3>3. data' = (line[p] \o mid) \o (AfterFirstLine(data) \o t)
      <4> DEFINE x == line[p] \o mid
                 y == AfterFirstLine(data)
      <4>1. x \in Seq(Content) /\ y \in Seq(Content) /\ data = x \o y
        BY <2>2, <2>3, <2>5
      <4> HIDE DEF x, y
      <4>2. data \o t = x \o (y \o t)
        BY <1>6, <4>1, Regrouped
      <4>3. QED BY <3>1, <4>2 DEF x, y
    <3>4. ToSet(AfterFirstLine(data')) = ToSet(AfterFirstLine(data)) \cup ToSet(t)
      BY <1>6, <2>2, <3>1, ElementsOfParts
    <3>5. QED BY <1>2, <1>4, <1>6, <1>7, <2>3, <2>4, <3>1, <3>2, <3>3, <3>4
  <2>9. CASE file[m] = "data" /\ ~HasLineEnd(data)
    <3>1. data' = data \o t /\ AfterFirstLine(data) = <<>> /\ AfterFirstLine(data') = <<>>
      BY <1>14, <2>1, <2>9, NothingAfter
    <3>2. raced' = raced \cup {m}
      BY <1>2, <2>9 DEF WillBeLost, Looking
    <3>3. mid \o t \in Seq(Content) /\ ToSet(mid \o t) = ToSet(mid) \cup ToSet(t)
      BY <1>6, ElementsOfParts, ConcatProperties
    <3>4. data = line[p] \o mid
      BY <2>3, <2>5, <3>1, ConcatEmptySeq
    <3>5. data' = line[p] \o (mid \o t)
      <4> DEFINE l == line[p]
      <4>1. l \in Seq(Content) /\ data = l \o mid
        BY <1>7, <3>4
      <4> HIDE DEF l
      <4>2. data \o t = l \o (mid \o t)
        BY <1>6, <4>1, Regrouped
      <4>3. QED BY <3>1, <4>2 DEF l
    <3>6. data' = (line[p] \o (mid \o t)) \o AfterFirstLine(data')
      <4>1. line[p] \o (mid \o t) \in Seq(Content)
        BY <1>7, <3>3, ConcatProperties
      <4>2. QED BY <3>1, <3>5, <4>1, ConcatEmptySeq
    <3>7. ToSet(AfterFirstLine(data')) = {}
      BY <3>1 DEF ToSet
    <3>8. ToSet(mid \o t) \subseteq raced' \cup {NL}
      BY <1>6, <2>3, <3>2, <3>3
    <3>9. QED BY <3>3, <3>6, <3>7, <3>8
  <2>10. QED BY <1>2, <2>7, <2>8, <2>9
<1>20. CopyIsQueue'
  <2> SUFFICES ASSUME NEW p \in Page, at[p] = "mv"
               PROVE  /\ tmp # None /\ ToSet(tmp) \subseteq (ToSet(sent') \cup {NL}) \ raced'
                      /\ Good((delivered \o line[p]) \o tmp, sent', raced', wasted)
    BY <1>2 DEF Quiet, CopyIsQueue
  <2>1. raced' = raced \cup {m}
    BY <1>2 DEF WillBeLost
  <2>2. /\ tmp # None /\ ToSet(tmp) \subseteq (ToSet(sent) \cup {NL}) \ raced
        /\ Good((delivered \o line[p]) \o tmp, sent, raced, wasted)
    BY DEF Quiet, CopyIsQueue
  <2>3. (delivered \o line[p]) \o tmp \in Seq(Content)
    BY <1>3, <1>7, <2>2, ConcatProperties DEF PollTyped
  <2>4. Good((delivered \o line[p]) \o tmp, sent', raced', wasted)
    <3> DEFINE q == (delivered \o line[p]) \o tmp
    <3>1. q \in Seq(Content) /\ Good(q, sent, raced, wasted)
      BY <2>2, <2>3
    <3> HIDE DEF q
    <3>2. Good(q, Append(sent, m), raced \cup {m}, wasted)
      BY <1>3, <1>4, <3>1, GoodWhenWritten DEF PollTyped
    <3>3. QED BY <1>2, <2>1, <3>2 DEF q
  <2>5. QED BY <1>4, <1>5, <2>1, <2>2, <2>4
<1>21. QED BY <1>8, <1>9, <1>10, <1>11, <1>16, <1>18, <1>19, <1>20 DEF Quiet

(* A step that leaves the files and the pages alone.                       *)
LEMMA QuietSame ==
  ASSUME Quiet, UNCHANGED <<data, tmp, file, at, line, out, sent, delivered, wasted, raced>>
  PROVE  Quiet'
<1>1. PollTyped' /\ OnePage' /\ SentOnce' /\ InHand'
  BY DEF Quiet, PollTyped, OnePage, SentOnce, InHand, Busy
<1>2. Queue' = Queue /\ InFile' = InFile
  BY DEF Queue, Held, InFile
<1>3. Good(Queue, sent, raced, wasted)' /\ FileIsWhole' /\ RacedInLine' /\ CopyIsQueue'
  BY <1>2 DEF Quiet, FileIsWhole, RacedInLine, CopyIsQueue, Looking
<1>4. QED BY <1>1, <1>3 DEF Quiet

(* head takes the first line in hand; it is still in the file.             *)
LEMMA QuietHead ==
  ASSUME Quiet, ~overlap', NEW p \in Page, Head_n_1(p)
  PROVE  Quiet'
<1>1. PollTyped /\ OnePage /\ SentOnce /\ InHand /\ Good(Queue, sent, raced, wasted)
  BY DEF Quiet
<1>2. /\ \A q \in Page : ~Busy(q)
      /\ UNCHANGED <<data, tmp, file, out, sent, delivered, wasted, raced>>
  BY DEF Head_n_1, Busy, history, postVars
<1>3. ToSet(InFile) \cap raced = {}
  BY <1>2 DEF Quiet, FileIsWhole, Busy
<1>4. ToSet(InFile) \subseteq ToSet(sent) \cup {NL} /\ NL \notin raced
  BY QuietQueue
<1>5. CASE data = None
  <2>1. UNCHANGED <<at, line>>
    BY <1>5 DEF Head_n_1
  <2>2. QED BY <1>2, <2>1, QuietSame
<1>6. CASE data # None
  <2>1. /\ line' = [line EXCEPT ![p] = FirstLine(data)] /\ at' = [at EXCEPT ![p] = "open"]
        /\ at[p] = "head"
    BY <1>6 DEF Head_n_1
  <2>2. data \in Seq(Content) /\ InFile = data /\ InFile' = data
    BY <1>1, <1>2, <1>6 DEF PollTyped, InFile
  <2>3. PICK mid \in Seq(Content) : /\ data = (FirstLine(data) \o mid) \o AfterFirstLine(data)
                                    /\ ToSet(mid) \subseteq {NL}
    BY <2>2, FirstLineCut
  <2>4. FirstLine(data) \in Seq(Message) /\ AfterFirstLine(data) \in Seq(Content)
    BY <2>2, FirstLineCut
  <2>5. ToSet(FirstLine(data)) \subseteq ToSet(data) /\ ToSet(AfterFirstLine(data)) \subseteq ToSet(data)
    <3> DEFINE l == FirstLine(data)
               r == AfterFirstLine(data)
    <3>1. l \in Seq(Content) /\ r \in Seq(Content) /\ l \o mid \in Seq(Content)
      BY <2>4, MessageIsContent, ConcatProperties
    <3>2. data = (l \o mid) \o r
      BY <2>3
    <3> HIDE DEF l, r
    <3>3. ToSet(l \o mid) = ToSet(l) \cup ToSet(mid)
      BY <3>1, ElementsOfParts
    <3>4. ToSet(data) = ToSet(l \o mid) \cup ToSet(r)
      BY <3>1, <3>2, ElementsOfThree
    <3>5. QED BY <3>3, <3>4 DEF l, r
  <2>6. NL \notin ToSet(FirstLine(data))
    BY <2>4, MessageIsContent DEF ToSet
  <2>7. PollTyped' /\ SentOnce'
    BY <1>1, <1>2, <2>1, <2>4 DEF PollTyped, SentOnce
  <2>8. OnePage'
    BY <1>1, <1>2, <2>1 DEF PollTyped, OnePage, Busy
  <2>9. line'[p] = FirstLine(data) /\ at'[p] = "open" /\ \A q \in Page : q # p => ~(Busy(q)')
    BY <1>1, <1>2, <2>1 DEF PollTyped, Busy
  <2>10. InHand'
    <3>1. ToSet(FirstLine(data)) \subseteq ToSet(sent) \ raced
      BY <1>3, <1>4, <2>2, <2>5, <2>6
    <3>2. ASSUME NEW q \in Page, Busy(q)'
          PROVE data' # None /\ ToSet(line'[q]) \subseteq ToSet(sent) \ raced
      BY <1>2, <1>6, <2>9, <3>1, <3>2
    <3>3. QED BY <1>1, <1>2, <3>2 DEF InHand
  <2>11. Held' = <<>> /\ Held = <<>>
    <3>1. (\A q \in Page : at[q] # "echo") /\ (\A q \in Page : at'[q] # "echo")
      BY <1>2, <2>9 DEF Busy
    <3>2. QED BY <3>1, HeldNow, HeldBy
  <2>12. Queue' = Queue
    BY <1>2, <2>2, <2>11 DEF Queue
  <2>13. Good(Queue, sent, raced, wasted)' /\ FileIsWhole'
    BY <1>1, <1>2, <1>3, <2>2, <2>9, <2>12 DEF FileIsWhole, Good, InOrder, Precede
  <2>14. RacedInLine'
    <3> SUFFICES ASSUME NEW q \in Page, Looking(q)'
                 PROVE  /\ ToSet(AfterFirstLine(data)) \cap raced = {}
                        /\ \E k \in Seq(Content) :
                             /\ data = (line'[q] \o k) \o AfterFirstLine(data)
                             /\ ToSet(k) \subseteq raced \cup {NL}
      BY <1>2 DEF RacedInLine
    <3>1. q = p
      BY <2>9 DEF Looking, Busy
    <3>2. data = (line'[q] \o mid) \o AfterFirstLine(data) /\ ToSet(mid) \subseteq raced \cup {NL}
      BY <2>3, <2>9, <3>1
    <3>3. QED BY <1>3, <2>2, <2>5, <3>2
  <2>15. CopyIsQueue'
    BY <2>9 DEF CopyIsQueue, Busy
  <2>16. QED BY <2>7, <2>8, <2>10, <2>13, <2>14, <2>15 DEF Quiet
<1>7. QED BY <1>5, <1>6

(* The copy is empty before sed writes it.                                 *)
LEMMA QuietOpenTmp ==
  ASSUME Quiet, NEW p \in Page, OpenTmp(p)
  PROVE  Quiet'
<1>1. PollTyped /\ OnePage /\ SentOnce /\ InHand /\ Good(Queue, sent, raced, wasted)
  BY DEF Quiet
<1>2. /\ at[p] = "open" /\ tmp' = <<>> /\ at' = [at EXCEPT ![p] = "sed"] /\ Busy(p)
      /\ UNCHANGED <<data, file, line, sent, delivered, wasted, raced>>
  BY DEF OpenTmp, history, postVars, Busy
<1>3. at'[p] = "sed" /\ \A q \in Page : q # p => at'[q] = at[q] /\ ~Busy(q) /\ ~(Busy(q)')
  BY <1>1, <1>2 DEF PollTyped, OnePage, Busy
<1>4. PollTyped' /\ SentOnce'
  <2>1. <<>> \in Seq(Content)
    OBVIOUS
  <2>2. out' \in [Page -> {"tmp", "data", "gone", None}]
    BY <1>1 DEF OpenTmp, PollTyped
  <2>3. QED BY <1>1, <1>2, <2>1, <2>2 DEF PollTyped, SentOnce
<1>5. OnePage' /\ InHand'
  BY <1>1, <1>2, <1>3 DEF OnePage, InHand
<1>6. Held = <<>> /\ Held' = <<>>
  <2>1. (\A q \in Page : at[q] # "echo") /\ (\A q \in Page : at'[q] # "echo")
    BY <1>2, <1>3 DEF Busy
  <2>2. QED BY <2>1, HeldNow, HeldBy
<1>7. Queue' = Queue /\ InFile' = InFile
  BY <1>2, <1>6 DEF Queue, InFile
<1>8. Good(Queue, sent, raced, wasted)' /\ FileIsWhole'
  BY <1>1, <1>2, <1>3, <1>7 DEF FileIsWhole, Good, InOrder, Precede
<1>9. RacedInLine'
  <2>1. Looking(p) /\ \A q \in Page : Looking(q)' => q = p
    BY <1>2, <1>3 DEF Looking, Busy
  <2>2. data' = data /\ raced' = raced /\ line' = line
    BY <1>2
  <2>3. QED BY <2>1, <2>2 DEF Quiet, RacedInLine
<1>10. out'[p] = "tmp"
  BY <1>1 DEF OpenTmp, PollTyped
<1>11. CopyIsQueue'
  BY <1>2, <1>3, <1>10 DEF CopyIsQueue, Busy
<1>12. QED BY <1>4, <1>5, <1>8, <1>9, <1>11 DEF Quiet

(* The copy is the file without its first line.                            *)
LEMMA QuietSed ==
  ASSUME Quiet, NEW p \in Page, Sed_1d(p)
  PROVE  Quiet'
<1>1. PollTyped /\ OnePage /\ SentOnce /\ InHand /\ Good(Queue, sent, raced, wasted)
  BY DEF Quiet
<1>2. at[p] = "sed" /\ tmp = <<>> /\ out[p] = "tmp" /\ Busy(p) /\ Looking(p)
  BY DEF Sed_1d, Quiet, CopyIsQueue, Busy, Looking
<1>3. data \in Seq(Content) /\ InFile = data /\ AfterFirstLine(data) \in Seq(Content)
  BY <1>1, <1>2, FirstLineCut DEF PollTyped, InHand, InFile
<1>4. /\ data' = data /\ tmp' = AfterFirstLine(data) /\ at' = [at EXCEPT ![p] = "mv"]
      /\ UNCHANGED <<file, line, out, sent, delivered, wasted, raced>>
  <2>1. Over(AfterFirstLine(data), <<>>) = AfterFirstLine(data)
    <3> DEFINE r == AfterFirstLine(data)
    <3>1. r \in Seq(Content) /\ Len(r) \in Nat
      BY <1>3
    <3> HIDE DEF r
    <3>2. SubSeq(<<>>, Len(r) + 1, Len(<<>>)) = <<>>
      BY <3>1
    <3>3. Over(r, <<>>) = r
      BY <3>1, <3>2, ConcatEmptySeq DEF Over
    <3>4. QED BY <3>3 DEF r
  <2>2. QED BY <1>2, <2>1 DEF Sed_1d, history, postVars
<1>5. at'[p] = "mv" /\ \A q \in Page : q # p => at'[q] = at[q] /\ ~Busy(q) /\ ~(Busy(q)')
  BY <1>1, <1>2, <1>4 DEF PollTyped, OnePage, Busy
<1>6. PollTyped' /\ SentOnce'
  BY <1>1, <1>3, <1>4 DEF PollTyped, SentOnce
<1>7. OnePage' /\ InHand'
  BY <1>1, <1>2, <1>4, <1>5 DEF OnePage, InHand
<1>8. Held = <<>> /\ Held' = <<>>
  <2>1. (\A q \in Page : at[q] # "echo") /\ (\A q \in Page : at'[q] # "echo")
    BY <1>2, <1>5 DEF Busy
  <2>2. QED BY <2>1, HeldNow, HeldBy
<1>9. Queue' = Queue /\ InFile' = InFile
  BY <1>4, <1>8 DEF Queue, InFile
<1>10. Good(Queue, sent, raced, wasted)' /\ FileIsWhole'
  BY <1>1, <1>4, <1>5, <1>9 DEF FileIsWhole
<1>11. RacedInLine'
  BY <1>5 DEF RacedInLine, Looking, Busy
<1>12. PICK mid \in Seq(Content) : /\ data = (line[p] \o mid) \o AfterFirstLine(data)
                                   /\ ToSet(mid) \subseteq raced \cup {NL}
  BY <1>2 DEF Quiet, RacedInLine
<1>13. delivered \in Seq(Content) /\ line[p] \in Seq(Content)
  BY QuietQueue
<1>14. ToSet(AfterFirstLine(data)) \subseteq (ToSet(sent) \cup {NL}) \ raced
  <2> DEFINE x == line[p] \o mid
             r == AfterFirstLine(data)
  <2>1. x \in Seq(Content) /\ r \in Seq(Content) /\ data = x \o r
    BY <1>3, <1>12, <1>13, ConcatProperties
  <2> HIDE DEF x, r
  <2>2. ToSet(data) = ToSet(x) \cup ToSet(r)
    BY <2>1, ElementsOfParts
  <2>3. ToSet(data) \subseteq ToSet(sent) \cup {NL}
    BY <1>3, QuietQueue
  <2>4. ToSet(AfterFirstLine(data)) \cap raced = {}
    BY <1>2 DEF Quiet, RacedInLine
  <2>5. QED BY <2>2, <2>3, <2>4 DEF r
<1>15. Good((delivered \o line[p]) \o AfterFirstLine(data), sent, raced, wasted)
  <2>1. Queue = delivered \o ((line[p] \o mid) \o AfterFirstLine(data))
    <3>1. Queue = delivered \o data
      BY <1>3, <1>8, <1>13, ConcatEmptySeq DEF Queue
    <3>2. QED BY <1>12, <3>1
  <2>2. QED BY <1>1, <1>3, <1>12, <1>13, <2>1, GoodWithout
<1>16. CopyIsQueue'
  <2>1. tmp' # None
    BY <1>3, <1>4, MessageIsContent
  <2>2. QED BY <1>4, <1>5, <1>14, <1>15, <2>1 DEF CopyIsQueue, Busy
<1>17. QED BY <1>6, <1>7, <1>10, <1>11, <1>16 DEF Quiet

(* The copy takes the place of the file: the line is only in hand now.     *)
LEMMA QuietMv ==
  ASSUME Quiet, NEW p \in Page, Mv(p)
  PROVE  Quiet'
<1>1. PollTyped /\ OnePage /\ SentOnce /\ InHand /\ Good(Queue, sent, raced, wasted)
  BY DEF Quiet
<1>2. /\ at[p] = "mv" /\ Busy(p)
      /\ tmp # None /\ ToSet(tmp) \subseteq (ToSet(sent) \cup {NL}) \ raced
      /\ Good((delivered \o line[p]) \o tmp, sent, raced, wasted)
  BY DEF Mv, Quiet, CopyIsQueue, Busy
<1>3. /\ data' = tmp /\ tmp' = None /\ at' = [at EXCEPT ![p] = "echo"]
      /\ file' = [m \in Message |-> Renamed(file[m])]
      /\ out' = [q \in Page |-> IF q = p THEN None ELSE Renamed(out[q])]
      /\ UNCHANGED <<line, sent, delivered, wasted, raced>>
  BY <1>2 DEF Mv, history
<1>4. tmp \in Seq(Content) /\ InFile' = tmp
  BY <1>1, <1>2, <1>3 DEF PollTyped, InFile
<1>5. at'[p] = "echo" /\ \A q \in Page : q # p => at'[q] = at[q] /\ ~Busy(q) /\ ~(Busy(q)')
  BY <1>1, <1>2, <1>3 DEF PollTyped, OnePage, Busy
<1>6. PollTyped'
  <2>1. \A f \in {"new", "data", "gone", "done"} : Renamed(f) \in {"new", "data", "gone", "done"}
    BY DEF Renamed
  <2>2. file' \in [Message -> {"new", "data", "gone", "done"}]
    BY <1>1, <1>3, <2>1 DEF PollTyped
  <2>3. \A f \in {"tmp", "data", "gone", None} : Renamed(f) \in {"tmp", "data", "gone", None}
    BY DEF Renamed
  <2>4. out' \in [Page -> {"tmp", "data", "gone", None}]
    BY <1>1, <1>3, <2>3 DEF PollTyped
  <2>5. QED BY <1>1, <1>2, <1>3, <1>4, <2>2, <2>4 DEF PollTyped
<1>7. SentOnce'
  <2>1. ToSet(sent) \subseteq Message
    BY <1>1 DEF PollTyped, ToSet
  <2>2. Renamed("done") = "done"
    BY DEF Renamed
  <2>3. QED BY <1>1, <1>3, <2>1, <2>2 DEF SentOnce
<1>8. OnePage' /\ InHand'
  BY <1>1, <1>2, <1>3, <1>5 DEF OnePage, InHand
<1>9. Held' = line[p]
  <2>1. \A q \in Page : at'[q] = "echo" => q = p
    BY <1>5 DEF Busy
  <2>2. HeldIn(at', line') = line'[p]
    BY <1>5, <2>1, HeldBy
  <2>3. QED BY <1>3, <2>2, HeldNow
<1>10. Good(Queue, sent, raced, wasted)'
  <2>1. Queue' = (delivered \o line[p]) \o tmp
    BY <1>3, <1>4, <1>9 DEF Queue
  <2>2. QED BY <1>2, <1>3, <2>1
<1>11. FileIsWhole'
  BY <1>2, <1>3, <1>4 DEF FileIsWhole
<1>12. RacedInLine' /\ CopyIsQueue'
  BY <1>5 DEF RacedInLine, CopyIsQueue, Looking, Busy
<1>13. QED BY <1>6, <1>7, <1>8, <1>10, <1>11, <1>12 DEF Quiet

(* The line in hand is shown, or wasted.                                   *)
LEMMA QuietEcho ==
  ASSUME Quiet, ~overlap, NEW p \in Page, Echo(p)
  PROVE  Quiet'
<1>1. PollTyped /\ OnePage /\ SentOnce /\ InHand /\ Good(Queue, sent, raced, wasted)
  BY DEF Quiet
<1>2. /\ at[p] = "echo" /\ Busy(p)
      /\ line' = [line EXCEPT ![p] = <<>>]
      /\ \/ /\ wasted' = wasted \cup ToSet(line[p]) /\ at' = [at EXCEPT ![p] = "over"]
            /\ delivered' = delivered
         \/ /\ delivered' = delivered \o line[p] /\ at' = [at EXCEPT ![p] = "head"]
            /\ wasted' = wasted
      /\ UNCHANGED <<data, tmp, file, out, sent, raced>>
  BY DEF Echo, Busy, postVars
<1>3. \A q \in Page : ~(Busy(q)') /\ (q # p => ~Busy(q)) /\ at'[q] \in {"head", "over"}
  BY <1>1, <1>2 DEF PollTyped, OnePage, Busy
<1>4. /\ ToSet(line[p]) \subseteq ToSet(sent) \ raced /\ line[p] \in Seq(Message)
      /\ ToSet(delivered) \subseteq ToSet(sent) \ raced
  BY <1>1, <1>2 DEF InHand, PollTyped
<1>5. /\ delivered \in Seq(Content) /\ line[p] \in Seq(Content) /\ InFile \in Seq(Content)
      /\ Held = line[p] /\ delivered \o line[p] \in Seq(Content)
  BY <1>2, QuietQueue
<1>6. /\ delivered \o line[p] \in Seq(Message)
      /\ ToSet(delivered \o line[p]) = ToSet(delivered) \cup ToSet(line[p])
  BY <1>1, <1>4, ConcatProperties, ElementsOfParts DEF PollTyped
<1>7. PollTyped' /\ SentOnce'
  <2>1. <<>> \in Seq(Message)
    OBVIOUS
  <2>2. QED BY <1>1, <1>2, <1>4, <1>6, <2>1 DEF PollTyped, SentOnce
<1>8. OnePage' /\ InHand'
  BY <1>2, <1>3, <1>4, <1>6 DEF OnePage, InHand
<1>9. Held' = <<>> /\ InFile' = InFile
  <2>1. \A q \in Page : at'[q] # "echo"
    BY <1>3
  <2>2. QED BY <1>2, <2>1, HeldNow, HeldBy DEF InFile
<1>10. Queue = (delivered \o line[p]) \o InFile
  BY <1>5 DEF Queue
<1>11. Good(Queue, sent, raced, wasted)'
  <2>1. CASE delivered' = delivered /\ wasted' = wasted \cup ToSet(line[p])
    <3>1. Queue' = delivered \o InFile
      BY <1>5, <1>9, <2>1, ConcatEmptySeq DEF Queue
    <3>2. ToSet(line[p]) \cap (raced \cup {NL}) = {}
      BY <1>4, MessageIsContent DEF ToSet
    <3>3. Good(delivered \o InFile, sent, raced, wasted \cup ToSet(line[p]))
      BY <1>1, <1>5, <1>10, <3>2, GoodWhenWasted DEF SentOnce, PollTyped
    <3>4. QED BY <1>2, <2>1, <3>1, <3>3
  <2>2. CASE delivered' = delivered \o line[p] /\ wasted' = wasted
    <3>1. Queue' = (delivered \o line[p]) \o InFile
      BY <1>5, <1>9, <2>2, ConcatEmptySeq DEF Queue
    <3>2. QED BY <1>1, <1>2, <1>10, <2>2, <3>1
  <2>3. QED BY <1>2, <2>1, <2>2
<1>12. FileIsWhole'
  <2>1. ToSet(InFile) \cap raced = {}
    <3>1. \A q \in Page : at[q] \notin {"open", "sed", "mv"}
      BY <1>2, <1>3 DEF Busy
    <3>2. QED BY <3>1 DEF Quiet, FileIsWhole
  <2>2. QED BY <1>2, <1>9, <2>1 DEF FileIsWhole
<1>13. RacedInLine' /\ CopyIsQueue'
  BY <1>3 DEF RacedInLine, CopyIsQueue, Looking
<1>14. QED BY <1>7, <1>8, <1>11, <1>12, <1>13 DEF Quiet

(* Every step keeps the invariant, until two pages overlap.                *)
LEMMA PollInvNext == PollInv /\ [Next]_vars => PollInv'
<1> SUFFICES ASSUME PollInv, [Next]_vars, ~overlap' PROVE Quiet'
  BY DEF PollInv
<1>1. ASSUME NEW m \in Message, OpenData(m) PROVE Quiet'
  BY <1>1, QuietOpenData DEF OpenData, history, PollInv
<1>2. ASSUME NEW m \in Message, WriteData(m) PROVE Quiet'
  BY <1>2, QuietWriteData DEF WriteData, PollInv
<1>3. ASSUME NEW p \in Page, Head_n_1(p) PROVE Quiet'
  BY <1>3, QuietHead DEF Head_n_1, history, PollInv
<1>4. ASSUME NEW p \in Page, OpenTmp(p) PROVE Quiet'
  BY <1>4, QuietOpenTmp DEF OpenTmp, history, PollInv
<1>5. ASSUME NEW p \in Page, Sed_1d(p) PROVE Quiet'
  BY <1>5, QuietSed DEF Sed_1d, history, PollInv
<1>6. ASSUME NEW p \in Page, Mv(p) PROVE Quiet'
  BY <1>6, QuietMv DEF Mv, history, PollInv
<1>7. ASSUME NEW p \in Page, Echo(p) PROVE Quiet'
  BY <1>7, QuietEcho DEF Echo, PollInv
<1>8. ASSUME NEW p \in Page, Leave(p) PROVE Quiet'
  BY <1>8, QuietSame DEF Leave, history, postVars, PollInv
<1>9. CASE UNCHANGED vars
  BY <1>9, QuietSame DEF vars, PollInv
<1>10. QED
  BY <1>1, <1>2, <1>3, <1>4, <1>5, <1>6, <1>7, <1>8, <1>9 DEF Next, Poll

(* The invariant says more than the property.                              *)
LEMMA PollInvQueue == PollInv => QueueOfTheOthers
<1> SUFFICES ASSUME Quiet
             PROVE  /\ \A i, j \in DOMAIN Queue :
                         i < j /\ Queue[i] \notin raced \cup {NL} /\ Queue[j] \notin raced \cup {NL}
                           => WrittenBefore(Queue[i], Queue[j])
                    /\ ToSet(Queue) \ (raced \cup {NL}) = ToSet(sent) \ (raced \cup wasted)
                    /\ ToSet(delivered \o Held) \cap raced = {}
  BY DEF PollInv, QueueOfTheOthers
<1>1. ToSet(delivered) \cap raced = {} /\ ToSet(Held) \cap raced = {}
  <2>1. CASE \E p \in Page : at[p] = "echo"
    <3>1. PICK p \in Page : at[p] = "echo"
      BY <2>1
    <3>2. QED BY <3>1, QuietQueue DEF Quiet, InHand, Busy
  <2>2. CASE \A p \in Page : at[p] # "echo"
    BY <2>2, QuietQueue DEF Quiet, InHand, ToSet
  <2>3. QED BY <2>1, <2>2
<1>2. ToSet(delivered \o Held) = ToSet(delivered) \cup ToSet(Held)
  BY QuietQueue, ElementsOfParts
<1>3. QED BY <1>1, <1>2 DEF Quiet, Good, InOrder, Precede, WrittenBefore

(* While pages do not overlap, messages come out once, in the order they   *)
(* were written, and only those written during a rewrite (or taken for a   *)
(* page that is gone) are lost.                                            *)
THEOREM QueueAlways == Spec => []QueueOfTheOthers
BY PollInit, PollInvNext, PollInvQueue, PTL DEF Spec
-----------------------------------------------------------------------------
(* The visit of one site leaves the others alone.  (Of the long polling,   *)
(* safety only: its fairness is that of the server's steps.)               *)
LEMMA SitesApart == MCSpec => A!Spec /\ T!Spec /\ Init /\ [][Next]_vars
<1>1. MCInit => A!Init /\ T!Init /\ Init
  BY DEF MCInit
<1>2. [MCNext]_allVars => [A!Next]_A!vars /\ [T!Next]_T!vars /\ [Next]_vars
  BY DEF MCNext, allVars, accountVars, trackerVars, A!vars, T!vars
<1>3. QED BY <1>1, <1>2, PTL DEF MCSpec, A!Spec, T!Spec

(* What holds of each site holds on the server that has them next to each  *)
(* other, which is what the run checks.                                    *)
THEOREM SitesOnTheServer ==
  MCSpec => [](/\ CodesServeTheirAddress /\ MailedCodesWork /\ OneAccountPerAddress
               /\ LatestAddressIsShown /\ QueueOfTheOthers)
<1>1. Init /\ [][Next]_vars => []QueueOfTheOthers
  BY PollInit, PollInvNext, PollInvQueue, PTL
<1>2. QED BY <1>1, SitesApart, CodesServe, MailedCodes, OneAccount, LatestAddress, PTL
=============================================================================
