------------------------------ MODULE MC_WebSites ------------------------------
(* The PHP sites, for TLC.  They share nothing but the server: which one   *)
(* is visited is chosen at the start, and the other two are left alone.    *)
EXTENDS LongPolling

CONSTANTS Session, Email, Password, Account, Shape, Hours, MaxUsers, MaxTime,
          Computer, Address, MaxRows

VARIABLES
  site,
  users, nextUser, codes, nextCode, mails, now, pc, params, last, row, connected, contested,
  rows, nextId, phase, password, id, address, reported, answer, disturbed

A == INSTANCE Accounts WITH at <- pc
T == INSTANCE PcTracker

(* Accounts as anybody creates them, active at once, or of a given id. *)
MCAccount ==
  {a \in [email : Email, password : Password, active : BOOLEAN, id : {0, 1}] :
     a.active => a.id = 0}

(* Only the accounts know the two sets: the pages and their liveness, of   *)
(* another site, are left alone by a permutation of either.                *)
Symmetry == Permutations(Session) \cup Permutations(Email)

ASSUME SitesAssumption == A!AccountsAssumption /\ T!TrackerAssumption

accountVars == <<users, nextUser, codes, nextCode, mails, now, pc, params, last, row,
                 connected, contested>>
trackerVars == <<rows, nextId, phase, password, id, address, reported, answer, disturbed>>
allVars == <<site, vars, accountVars, trackerVars>>

NoPolling == ends = [m \in Message |-> TRUE]
NoTracker ==
  /\ password = [c \in Computer |-> CHOOSE p \in Password : TRUE]
  /\ address = [c \in Computer |-> CHOOSE a \in Address : TRUE]

MCInit ==
  /\ \/ site = "polling" /\ NoTracker
     \/ site = "accounts" /\ NoPolling /\ NoTracker
     \/ site = "tracker" /\ NoPolling
  /\ Init /\ A!Init /\ T!Init

MCNext ==
  \/ site = "polling" /\ Next /\ UNCHANGED <<site, accountVars, trackerVars>>
  \/ site = "accounts" /\ A!Next /\ UNCHANGED <<site, vars, trackerVars>>
  \/ site = "tracker" /\ T!Next /\ UNCHANGED <<site, vars, accountVars>>

Poll_(p) == site = "polling" /\ Poll(p) /\ UNCHANGED <<site, accountVars, trackerVars>>

MCSpec == MCInit /\ [][MCNext]_allVars /\ \A p \in Page : WF_allVars(Poll_(p))

CodesServeTheirAddress == A!CodesServeTheirAddress
OneAccountPerAddress == A!OneAccountPerAddress
MailedCodesWork == A!MailedCodesWork
LatestAddressIsShown == T!LatestAddressIsShown
=============================================================================
