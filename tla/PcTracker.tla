------------------------------- MODULE PcTracker -------------------------------
(***************************************************************************)
(* php/PCTracker: a computer is registered with a password and told a      *)
(* number; from then on it reports its address under number and password,  *)
(* and whoever knows both can look it up.  The number it is told is the    *)
(* count of rows before its own is inserted, plus one; the id of the row   *)
(* is given by the database.                                               *)
(***************************************************************************)
EXTENDS Integers, FiniteSets

CONSTANTS
  Computer, Password, Address,
  None,     \* no number yet
  MaxRows   \* bound: ids given

TrackerAssumption == MaxRows \in Nat /\ None \notin Nat

VARIABLES
  rows,       \* of ProjectsPCTracker, by id
  nextId,     \* its AUTO_INCREMENT
  phase,      \* of a computer: "new", "counted" or "told"
  password,   \* the one it was registered with
  id,         \* $id of its registration, then the number it was told
  address,    \* its address
  reported,   \* history: the address of its last report that went through
  answer,     \* what view.php showed for it last
  disturbed   \* history: two registrations overlapped, or an id was lost

vars == <<rows, nextId, phase, password, id, address, reported, answer, disturbed>>

Rows == [password : Password, ip : Address]

Init ==
  /\ rows = [n \in {} |-> 0]
  /\ nextId = 1
  /\ phase = [c \in Computer |-> "new"]
  /\ password \in [Computer -> Password]
  /\ id = [c \in Computer |-> None]
  /\ address \in [Computer -> Address]
  /\ reported = [c \in Computer |-> None]
  /\ answer = [c \in Computer |-> None]
  /\ disturbed = FALSE

(* Mutant of Count: the number of rows itself. *)
CountOnly(c) ==
  /\ phase[c] = "new"
  /\ phase' = [phase EXCEPT ![c] = "counted"]
  /\ id' = [id EXCEPT ![c] = Cardinality(DOMAIN rows)]
  /\ disturbed' = (disturbed \/ \E d \in Computer : phase[d] = "counted")
  /\ UNCHANGED <<rows, nextId, password, address, reported, answer>>

(* register.php: select count(id), plus one.  (If it fails, "error 1" is   *)
(* all that happens.)                                                      *)
Count(c) ==
  /\ phase[c] = "new"
  /\ phase' = [phase EXCEPT ![c] = "counted"]
  /\ id' = [id EXCEPT ![c] = Cardinality(DOMAIN rows) + 1]
  /\ disturbed' = (disturbed \/ \E d \in Computer : phase[d] = "counted")
  /\ UNCHANGED <<rows, nextId, password, address, reported, answer>>

(* insert: the page shows the number.  If it fails it may have used up an  *)
(* id nevertheless; "error 2", and somebody may try again.                 *)
Insert(c) ==
  /\ phase[c] = "counted"
  /\ nextId <= MaxRows
  /\ \/ /\ rows' = [n \in DOMAIN rows \cup {nextId} |->
                      IF n = nextId THEN [password |-> password[c], ip |-> address[c]]
                                    ELSE rows[n]]
        /\ nextId' = nextId + 1
        /\ phase' = [phase EXCEPT ![c] = "told"]
        /\ reported' = [reported EXCEPT ![c] = address[c]]
        /\ UNCHANGED <<id, disturbed>>
     \/ /\ nextId' \in {nextId, nextId + 1}
        /\ disturbed' = (disturbed \/ nextId' # nextId)
        /\ phase' = [phase EXCEPT ![c] = "new"]
        /\ id' = [id EXCEPT ![c] = None]
        /\ UNCHANGED <<rows, reported>>
  /\ UNCHANGED <<password, address, answer>>

(* The provider gives the computer another address. *)
Move(c) ==
  /\ address' \in {[address EXCEPT ![c] = a] : a \in Address \ {address[c]}}
  /\ UNCHANGED <<rows, nextId, phase, password, id, reported, answer, disturbed>>

(* Rows with the number and the password of a computer. *)
Matching(c) == {n \in DOMAIN rows : n = id[c] /\ rows[n].password = password[c]}

(* track.php: update ... where id and password.  (If it fails nothing is   *)
(* said of it.)                                                            *)
Track(c) ==
  /\ phase[c] = "told"
  /\ rows' = [n \in DOMAIN rows |->
                IF n \in Matching(c) THEN [rows[n] EXCEPT !.ip = address[c]] ELSE rows[n]]
  /\ reported' = [reported EXCEPT ![c] = address[c]]
  /\ UNCHANGED <<nextId, phase, password, id, address, answer, disturbed>>

(* view.php: the address, if one row has the number and the password.      *)
View(c) ==
  /\ phase[c] = "told"
  /\ answer' = [answer EXCEPT ![c] =
       IF Matching(c) = {} THEN "wrong" ELSE rows[id[c]].ip]
  /\ UNCHANGED <<rows, nextId, phase, password, id, address, reported, disturbed>>

Next == \E c \in Computer : Count(c) \/ Insert(c) \/ Move(c) \/ Track(c) \/ View(c)

Spec == Init /\ [][Next]_vars
-----------------------------------------------------------------------------
(* "When you want to see a computer's IP all you have to do is open this   *)
(* page": number and password lead to the address that very computer       *)
(* reported last, though others may have the same password, as long as no  *)
(* two registrations overlapped and no failed one used up an id.           *)
LatestAddressIsShown ==
  ~disturbed => \A c \in Computer : phase[c] = "told" =>
    /\ Matching(c) = {id[c]}
    /\ rows[id[c]].ip = reported[c]
=============================================================================
