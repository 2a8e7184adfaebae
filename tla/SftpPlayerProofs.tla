--------------------------- MODULE SftpPlayerProofs ---------------------------
(* The list and the players of SftpPlayer, for folders of any size, any    *)
(* heights of the terminal and any number of interruptions.                *)
EXTENDS SftpPlayer, TLAPS

ListTyped ==
  /\ files \in Listings
  /\ cursor \in Nat /\ offset \in Nat
  /\ height \in Heights
  /\ marked \subseteq Nat

(* The cursor is in the window.  This, not the row on the screen, is what  *)
(* EnsureVisible establishes and what the next key starts from.            *)
InWindow == offset <= cursor /\ cursor < offset + Body(height)

ListInv == ListTyped /\ NoIndexError /\ InWindow

LEMMA BodyIsPositive == \A h \in Nat : Body(h) \in Nat /\ Body(h) > 0
  BY DEF Body

(* EnsureVisible moves the window no further than the cursor. *)
LEMMA EnsureVisibleWorks ==
  ASSUME NEW c \in Nat, NEW o \in Nat, NEW b \in Nat, b > 0
  PROVE  /\ EnsureVisible(c, o, b) \in Nat
         /\ EnsureVisible(c, o, b) <= c
         /\ c < EnsureVisible(c, o, b) + b
  BY DEF EnsureVisible

(* Every redraw puts the cursor into the window. *)
LEMMA DrawWorks ==
  ASSUME NEW o \in Nat, cursor' \in Nat, height' \in Heights, Draw(o)
  PROVE  offset' \in Nat /\ InWindow'
<1>1. height' \in Nat
  BY PlayerAssumption
<1>2. Body(height') \in Nat /\ Body(height') > 0
  BY <1>1, BodyIsPositive
<1>3. QED BY <1>2, EnsureVisibleWorks DEF Draw, InWindow

LEMMA ListingsHaveLengths ==
  \A s \in Listings : Len(s) \in Nat /\ (s = <<>> <=> Len(s) = 0)
  BY PlayerAssumption

LEMMA InitList == Init => ListInv
<1> SUFFICES ASSUME Init PROVE ListInv
  OBVIOUS
<1>1. ListTyped
  BY DEF Init, ListTyped
<1>2. NoIndexError
  BY ListingsHaveLengths DEF Init, NoIndexError
<1>3. height \in Nat
  BY PlayerAssumption DEF Init
<1>4. InWindow
  BY <1>3, BodyIsPositive DEF Init, InWindow
<1>5. QED BY <1>1, <1>2, <1>4 DEF ListInv

(* A key that moves the cursor to a position that is on the list. *)
LEMMA MoveKeeps ==
  ASSUME ListInv, NEW c \in Nat, MoveTo(c),
         files # <<>> => c < Len(files),
         files = <<>> => c = 0
  PROVE  ListInv'
<1> USE DEF ListInv
<1>1. cursor' = c /\ files' = files /\ marked' = marked /\ height' = height
  BY DEF MoveTo
<1>2. offset' \in Nat /\ InWindow'
  BY <1>1, DrawWorks DEF MoveTo, ListTyped
<1>3. ListTyped'
  BY <1>1, <1>2 DEF ListTyped
<1>4. NoIndexError'
  BY <1>1 DEF NoIndexError
<1>5. QED BY <1>2, <1>3, <1>4

LEMMA ListUnchanged == ListInv /\ UNCHANGED listVars => ListInv'
  BY DEF ListInv, ListTyped, NoIndexError, InWindow, listVars, Body

LEMMA ListInductive == ListInv /\ [Next]_vars => ListInv'
<1> SUFFICES ASSUME ListInv, [Next]_vars PROVE ListInv'
  OBVIOUS
<1>a. /\ files \in Listings /\ Len(files) \in Nat
      /\ files = <<>> <=> Len(files) = 0
      /\ cursor \in Nat /\ offset \in Nat /\ height \in Nat
      /\ Body(height) \in Nat /\ Body(height) > 0
      /\ files # <<>> => cursor < Len(files)
      /\ files = <<>> => cursor = 0
  BY ListingsHaveLengths, BodyIsPositive, PlayerAssumption
     DEF ListInv, ListTyped, NoIndexError
<1>1. CASE Up
  <2>1. PICK c : c = Larger(0, cursor - 1)
    OBVIOUS
  <2>2. c \in Nat /\ (files # <<>> => c < Len(files))
    BY <1>a, <2>1 DEF Larger
  <2>3. QED BY <1>1, <2>1, <2>2, MoveKeeps DEF Up
<1>2. CASE Down
  <2>1. PICK c : c = Smaller(LastTrack, cursor + 1)
    OBVIOUS
  <2>2. files # <<>> => c \in Nat /\ c < Len(files)
    BY <1>a, <2>1 DEF Smaller, LastTrack
  <2>3. QED BY <1>2, <2>1, <2>2, MoveKeeps DEF Down
<1>3. CASE PageUp
  <2>1. PICK c : c = Larger(0, cursor - Body(height))
    OBVIOUS
  <2>2. c \in Nat /\ c <= cursor
    BY <1>a, <2>1 DEF Larger
  <2>3. QED BY <1>3, <1>a, <2>1, <2>2, MoveKeeps DEF PageUp
<1>4. CASE PageDown
  <2>1. PICK c : c = Smaller(LastTrack, cursor + Body(height))
    OBVIOUS
  <2>2. files # <<>> => c \in Nat /\ c < Len(files)
    BY <1>a, <2>1 DEF Smaller, LastTrack
  <2>3. QED BY <1>4, <2>1, <2>2, MoveKeeps DEF PageDown
<1>5. CASE Home
  BY <1>5, <1>a, MoveKeeps DEF Home
<1>6. CASE End
  <2>1. files # <<>> => LastTrack \in Nat /\ LastTrack < Len(files)
    BY <1>a DEF LastTrack
  <2>2. QED BY <1>6, <2>1, MoveKeeps DEF End
<1>7. CASE Space
  <2>1. files' = files /\ height' = height /\ files # <<>>
    BY <1>7 DEF Space
  <2>2. cursor' = Smaller(LastTrack, cursor + 1)
    BY <1>7 DEF Space
  <2>3. cursor' \in Nat /\ cursor' < Len(files)
    BY <1>a, <2>1, <2>2 DEF Smaller, LastTrack
  <2>4. offset' \in Nat /\ InWindow'
    BY <1>7, <2>1, <2>3, DrawWorks DEF Space, ListInv, ListTyped
  <2>5. marked' \subseteq marked \cup {cursor}
    BY <1>7 DEF Space
  <2>6. ListTyped'
    BY <2>1, <2>3, <2>4, <2>5 DEF ListInv, ListTyped
  <2>7. NoIndexError'
    BY <1>a, <2>1, <2>3, <2>5 DEF ListInv, NoIndexError
  <2>8. QED BY <2>4, <2>6, <2>7 DEF ListInv
<1>8. CASE Refresh
  <2>1. files' \in Listings /\ height' = height /\ marked' = {}
    BY <1>8 DEF Refresh
  <2>2. Len(files') \in Nat /\ (files' = <<>> <=> Len(files') = 0)
    BY <2>1, ListingsHaveLengths
  <2>3. cursor' = Smaller(cursor, Larger(0, Len(files') - 1))
    BY <1>8 DEF Refresh
  <2>4. /\ cursor' \in Nat
        /\ Len(files') > 0 => cursor' < Len(files')
        /\ Len(files') = 0 => cursor' = 0
    BY <1>a, <2>2, <2>3 DEF Smaller, Larger
  <2>5. offset' \in Nat /\ InWindow'
    BY <1>8, <2>1, <2>4, DrawWorks DEF Refresh, ListInv, ListTyped
  <2>6. ListTyped'
    BY <2>1, <2>4, <2>5 DEF ListInv, ListTyped
  <2>7. NoIndexError'
    BY <2>1, <2>2, <2>4 DEF NoIndexError
  <2>8. QED BY <2>5, <2>6, <2>7 DEF ListInv
<1>9. CASE Resize
  <2>1. /\ files' = files /\ cursor' = cursor /\ marked' = marked
        /\ height' \in Heights
    BY <1>9 DEF Resize
  <2>2. offset' \in Nat /\ InWindow'
    BY <1>9, <1>a, <2>1, DrawWorks DEF Resize
  <2>3. QED BY <2>1, <2>2 DEF ListInv, ListTyped, NoIndexError
<1>10. CASE Enter \/ PlayMarked \/ Quit
  BY <1>10, ListUnchanged DEF Enter, PlayMarked, Play, Quit
<1>11. CASE Step
  BY <1>11, ListUnchanged
     DEF Step, StartPlayer, StartFails, EnterTry, Getch, Poll, Term, SendTerm, StopKill,
         FinalKill, IgnoreEsc
<1>12. CASE ControlC \/ HangUp \/ TypeEsc \/ PlayerEnds
  BY <1>12, ListUnchanged DEF ControlC, HangUp, TypeEsc, PlayerEnds
<1>13. CASE UNCHANGED vars
  BY <1>13, ListUnchanged DEF vars
<1>14. QED BY <1>1, <1>2, <1>3, <1>4, <1>5, <1>6, <1>7, <1>8, <1>9, <1>10, <1>11,
              <1>12, <1>13 DEF Next, Key

(* The last line of the window is above the status line, even where the    *)
(* body has the one line it cannot do without.                             *)
LEMMA InWindowIsOnScreen == ListInv => CursorIsShown
<1> SUFFICES ASSUME ListInv PROVE CursorIsShown
  OBVIOUS
<1>1. cursor \in Nat /\ offset \in Nat /\ height \in Nat
  BY PlayerAssumption DEF ListInv, ListTyped
<1>2. offset <= cursor /\ cursor < offset + Body(height)
  BY DEF ListInv, InWindow
<1>3. height > 3 => Body(height) <= height - 3
  BY <1>1 DEF Body
<1>4. QED BY <1>1, <1>2, <1>3, BodyIsPositive DEF CursorIsShown

(* The cursor and the marks are positions of tracks, for every folder. *)
THEOREM IndexAlways == Spec => []NoIndexError
<1>1. Spec => []ListInv
  BY InitList, ListInductive, PTL DEF Spec
<1>2. ListInv => NoIndexError
  BY DEF ListInv
<1>3. QED BY <1>1, <1>2, PTL

(* The cursor stays between header and status line at every height. *)
THEOREM ShownAlways == Spec => []CursorIsShown
<1>1. Spec => []ListInv
  BY InitList, ListInductive, PTL DEF Spec
<1>2. QED BY <1>1, InWindowIsOnScreen, PTL

(* Only a new listing replaces the list, and it takes the marks away. *)
THEOREM MarksAlways == Spec => MarksKeepTheirTrack
<1> DEFINE Kept == \A i \in marked \cap marked' :
                      i < Len(files') /\ files'[i + 1] = files[i + 1]
<1>1. ListInv /\ [Next]_vars => [Kept]_vars
  <2> SUFFICES ASSUME ListInv, Next PROVE Kept
    OBVIOUS
  <2>1. CASE Refresh
    BY <2>1 DEF Refresh
  <2>2. CASE ~Refresh
    <3>1. files' = files
      BY <2>2 DEF Next, Key, Up, Down, PageUp, PageDown, Home, End, MoveTo, Space,
          Enter, PlayMarked, Play, Quit, Resize, Step, StartPlayer, StartFails, EnterTry,
          Getch, Poll, Term, SendTerm, StopKill, FinalKill, IgnoreEsc, ControlC, HangUp,
          TypeEsc, PlayerEnds, listVars
    <3>2. QED BY <3>1 DEF ListInv, NoIndexError
  <2>3. QED BY <2>1, <2>2
<1>2. QED BY <1>1, InitList, ListInductive, PTL DEF Spec, MarksKeepTheirTrack
-----------------------------------------------------------------------------
(* What is known of the player at each place: none that heeds SIGTERM is   *)
(* left after the finally block has sent it.                               *)
PlayerInv ==
  /\ proc \in {"none", "dead"} \cup Alive
  /\ ui = "final kill" => proc # "alive"
  /\ ui \in {"list", "start"} => proc \notin Alive
  /\ NoPlayerIsLeft

LEMMA PlayerInductive == PlayerInv /\ [Next]_vars => PlayerInv'
<1> SUFFICES ASSUME PlayerInv, [Next]_vars PROVE PlayerInv'
  OBVIOUS
<1> USE DEF PlayerInv, NoPlayerIsLeft, Alive
<1>1. CASE Key
  BY <1>1 DEF Key, Up, Down, PageUp, PageDown, Home, End, MoveTo, Space, Refresh, Enter,
      PlayMarked, Play, Quit, ReadsKey, playVars, histVars
<1>2. CASE Resize
  BY <1>2 DEF Resize, playVars, histVars
<1>3. CASE Step
  <2>1. CASE StartPlayer \/ EnterTry \/ Getch \/ Poll \/ IgnoreEsc
    BY <2>1 DEF StartPlayer, EnterTry, Getch, Poll, IgnoreEsc, playVars, histVars
  <2>2. CASE StartFails
    BY <2>2 DEF StartFails, Over
  <2>3. CASE Term \/ StopKill
    BY <2>3 DEF Term, SendTerm, StopKill, Killed, histVars
  <2>4. CASE FinalKill
    BY <2>4 DEF FinalKill, LeaveBehind, Killed, Over
  <2>5. QED BY <1>3, <2>1, <2>2, <2>3, <2>4 DEF Step
<1>4. CASE ControlC
  BY <1>4 DEF ControlC, DropPlayer, LeaveBehind, InTry, histVars
<1>5. CASE HangUp
  BY <1>5 DEF HangUp, DropPlayer, LeaveBehind
<1>6. CASE TypeEsc \/ PlayerEnds
  BY <1>6 DEF TypeEsc, PlayerEnds, playVars, histVars
<1>7. CASE UNCHANGED vars
  BY <1>7 DEF vars, playVars, histVars
<1>8. QED BY <1>1, <1>2, <1>3, <1>4, <1>5, <1>6, <1>7 DEF Next

(* No signal ends the players that are left, unless the program was torn   *)
(* off without its finally block.                                          *)
THEOREM LeftAlways == Spec => []NoPlayerIsLeft
<1>1. Init => PlayerInv
  BY DEF Init, PlayerInv, NoPlayerIsLeft, Alive
<1>2. PlayerInv => NoPlayerIsLeft
  BY DEF PlayerInv
<1>3. QED BY <1>1, <1>2, PlayerInductive, PTL DEF Spec
=============================================================================
