------------------------------ MODULE SftpPlayer ------------------------------
(***************************************************************************)
(* python/sftp_mp3.py: a list of tracks with a cursor, a window and marks, *)
(* and one player process at a time.  The user interface is one thread:    *)
(* between two reads of the keyboard it runs on alone, while the player    *)
(* may end, the user may type, and Control-C or a hang-up may interrupt it *)
(* at any point.  Tracks count, their names do not, and keys other than    *)
(* Esc change nothing while a track is played.                             *)
(***************************************************************************)
EXTENDS Integers, Sequences, FiniteSets

CONSTANTS
  Track,         \* names of tracks
  Listings,      \* what the remote folder may hold: sequences of tracks
  Heights,       \* heights of the terminal
  MaxInterrupts  \* bound: times the user presses Control-C

ASSUME PlayerAssumption ==
  /\ Listings \subseteq Seq(Track)
  /\ Heights \subseteq Nat
  /\ MaxInterrupts \in Nat

VARIABLES
  files, cursor, offset, marked,  \* the fields of PlayerUI
  height,      \* of the terminal, as curses knows it
  ui,          \* where the user interface is
  names,       \* how many tracks are still to be played, this one included
  stopped,     \* whether Esc stopped this track
  proc,        \* the player of this track; "deaf" ignores SIGTERM, "stuck"
               \* ignores every signal
  esc,         \* whether an Esc has been typed and not read
  interrupts,  \* times Control-C was pressed
  leaving,     \* whether an exception is on its way out of the program
  behind,      \* history: players that run though their track is over
  abrupt,      \* history: whether nothing could be done about them
  misfired     \* history: whether a player could not be started

listVars == <<files, cursor, offset, marked, height>>
histVars == <<behind, abrupt, misfired>>
playVars == <<names, stopped, proc, leaving, histVars>>
vars == <<listVars, playVars, ui, esc, interrupts>>

Alive == {"alive", "deaf", "stuck"}
InTry == {"getch", "poll", "stop term", "stop kill"}
InFinally == {"final term", "final kill"}
Modal == {"start", "window"} \cup InTry \cup InFinally
-----------------------------------------------------------------------------
(* _layout: the rows between header and footer. *)
Body(h) == IF h > 5 THEN h - 4 ELSE 1

Smaller(a, b) == IF a < b THEN a ELSE b

Larger(a, b) == IF a > b THEN a ELSE b

LastTrack == Len(files) - 1

(* Mutant of EnsureVisible: the lower edge is forgotten. *)
EnsureAlmostVisible(c, o, body) == IF c < o THEN c ELSE o

(* _ensure_visible. *)
EnsureVisible(c, o, body) ==
  IF c < o THEN c ELSE IF c >= o + body THEN c - body + 1 ELSE o

(* draw(), called with the offset that is set before it. *)
Draw(o) == offset' = EnsureVisible(cursor', o, Body(height'))

Init ==
  /\ files \in Listings
  /\ cursor = 0 /\ offset = 0 /\ marked = {}
  /\ height \in Heights
  /\ ui = "list" /\ names = 0 /\ stopped = FALSE /\ proc = "none"
  /\ esc = FALSE /\ interrupts = 0 /\ leaving = FALSE
  /\ behind = {} /\ abrupt = FALSE /\ misfired = FALSE
-----------------------------------------------------------------------------
(* run(): one key, and the redraw at the head of the loop.                 *)
ReadsKey == ui = "list" /\ ~esc

MoveTo(c) ==
  /\ ReadsKey
  /\ cursor' = c
  /\ UNCHANGED <<files, marked, height, playVars, ui, esc, interrupts>>
  /\ Draw(offset)

Up == files # <<>> /\ MoveTo(Larger(0, cursor - 1))
Down == files # <<>> /\ MoveTo(Smaller(LastTrack, cursor + 1))
PageUp == MoveTo(Larger(0, cursor - Body(height)))
PageDown == files # <<>> /\ MoveTo(Smaller(LastTrack, cursor + Body(height)))
Home == MoveTo(0)
End == files # <<>> /\ MoveTo(LastTrack)

Space ==
  /\ ReadsKey
  /\ files # <<>>
  /\ marked' = IF cursor \in marked THEN marked \ {cursor} ELSE marked \cup {cursor}
  /\ cursor' = Smaller(LastTrack, cursor + 1)
  /\ UNCHANGED <<files, height, playVars, ui, esc, interrupts>>
  /\ Draw(offset)

(* Mutant of Refresh: the marks stay. *)
RefreshKeepsMarks ==
  /\ ReadsKey
  /\ files' \in Listings
  /\ cursor' = Smaller(cursor, Larger(0, Len(files') - 1))
  /\ UNCHANGED <<marked, height, playVars, ui, esc, interrupts>>
  /\ Draw(0)

(* r: list the folder again; when that fails everything stays.             *)
Refresh ==
  /\ ReadsKey
  /\ files' \in Listings
  /\ marked' = {}
  /\ cursor' = Smaller(cursor, Larger(0, Len(files') - 1))
  /\ UNCHANGED <<height, playVars, ui, esc, interrupts>>
  /\ Draw(0)

(* KEY_RESIZE, in the list or in the modal; both draw again. *)
Resize ==
  /\ ui \in {"list", "getch"}
  /\ height' \in Heights
  /\ ui' = IF ui = "list" THEN "list" ELSE "poll"
  /\ UNCHANGED <<files, cursor, marked, playVars, esc, interrupts>>
  /\ Draw(offset)

(* Enter plays one track, a the marked ones or all.                        *)
Play(n) ==
  /\ ReadsKey
  /\ n > 0
  /\ names' = n
  /\ ui' = "start"
  /\ UNCHANGED <<listVars, stopped, proc, leaving, histVars, esc, interrupts>>

Enter == files # <<>> /\ Play(1)
PlayMarked == Play(IF marked # {} THEN Cardinality(marked) ELSE Len(files))

(* q. *)
Quit == ReadsKey /\ ui' = "ended" /\ UNCHANGED <<listVars, playVars, esc, interrupts>>

(* An Esc read by the list does nothing. *)
IgnoreEsc ==
  /\ ui = "list" /\ esc
  /\ esc' = FALSE
  /\ UNCHANGED <<listVars, playVars, ui, interrupts>>
-----------------------------------------------------------------------------
(* Mutant of Over: Esc ends the track, and not the rest of them. *)
OverOne(esc_typed) ==
  /\ names' = names - 1
  /\ ui' = IF names = 1 THEN "list" ELSE "start"

(* The end of a track in _play_names: the next one, or back to the list.   *)
Over(esc_typed) ==
  /\ names' = IF esc_typed THEN 0 ELSE names - 1
  /\ ui' = IF esc_typed \/ names = 1 THEN "list" ELSE "start"

(* Popen starts the player ... *)
StartPlayer ==
  /\ ui = "start"
  /\ proc' \in Alive
  /\ stopped' = FALSE
  /\ ui' = "window"
  /\ UNCHANGED <<listVars, names, leaving, histVars, esc, interrupts>>

(* ... or fails: a message, until a key is typed or 1.5 seconds have       *)
(* passed, and on to the next track.  The key is not looked at.            *)
StartFails ==
  /\ ui = "start"
  /\ misfired' = TRUE
  /\ esc' = FALSE
  /\ Over(FALSE)
  /\ UNCHANGED <<listVars, stopped, proc, leaving, behind, abrupt, interrupts>>

(* What lies between Popen and the try. *)
EnterTry ==
  /\ ui = "window"
  /\ ui' = "getch"
  /\ UNCHANGED <<listVars, playVars, esc, interrupts>>

(* A turn of the loop: the output is shown, a key is read ...              *)
Getch ==
  /\ ui = "getch"
  /\ esc' = FALSE
  /\ stopped' = esc
  /\ ui' = IF esc THEN "stop term" ELSE "poll"
  /\ UNCHANGED <<listVars, names, proc, leaving, histVars, interrupts>>

(* ... and the player may turn out to have ended. *)
Poll ==
  /\ ui = "poll"
  /\ ui' = IF proc = "dead" THEN "final term" ELSE "getch"
  /\ UNCHANGED <<listVars, playVars, esc, interrupts>>

(* _kill_proc, after an Esc and once more in the finally block: SIGTERM,   *)
(* and SIGKILL two seconds later if the player is still there.             *)
SendTerm(from, to) ==
  /\ ui = from
  /\ ui' = to
  /\ proc' = IF proc = "alive" THEN "dead" ELSE proc
  /\ UNCHANGED <<listVars, names, stopped, leaving, histVars, esc, interrupts>>

Term == SendTerm("stop term", "stop kill") \/ SendTerm("final term", "final kill")

(* Mutant of Killed: no SIGKILL follows. *)
KilledByTerm == proc

(* What SIGKILL leaves of the player. *)
Killed == IF proc = "deaf" THEN "dead" ELSE proc

StopKill ==
  /\ ui = "stop kill"
  /\ ui' = "final term"
  /\ proc' = Killed
  /\ UNCHANGED <<listVars, names, stopped, leaving, histVars, esc, interrupts>>

(* A player that runs on when it is out of sight. *)
LeaveBehind(p) == behind' = behind \cup ({p} \cap Alive)

(* The end of the finally block: an exception goes on, or the track is over. *)
FinalKill ==
  /\ ui = "final kill"
  /\ LeaveBehind(Killed)
  /\ proc' = "none"
  /\ IF leaving THEN ui' = "ended" /\ UNCHANGED names ELSE Over(stopped)
  /\ UNCHANGED <<listVars, stopped, leaving, abrupt, misfired, esc, interrupts>>
-----------------------------------------------------------------------------
(* The program ends where it is, and its player may go on. *)
DropPlayer ==
  /\ ui' = "ended"
  /\ LeaveBehind(proc)
  /\ abrupt' = (abrupt \/ proc \in Alive)
  /\ UNCHANGED <<names, stopped, proc, leaving, misfired>>

(* KeyboardInterrupt: inside the try the finally block comes first; one    *)
(* that arrives before the try or in the finally block ends that, too.     *)
ControlC ==
  /\ interrupts < MaxInterrupts
  /\ interrupts' = interrupts + 1
  /\ IF ui \in InTry
     THEN /\ ui' = "final term"
          /\ leaving' = TRUE
          /\ UNCHANGED <<names, stopped, proc, histVars>>
     ELSE ui # "ended" /\ DropPlayer
  /\ UNCHANGED <<listVars, esc>>

(* SIGHUP or SIGTERM: no handler is set. *)
HangUp == ui # "ended" /\ DropPlayer /\ UNCHANGED <<listVars, esc, interrupts>>

(* The user types Esc while a track is played. *)
TypeEsc ==
  /\ ui \in Modal
  /\ esc' = TRUE
  /\ UNCHANGED <<listVars, playVars, ui, interrupts>>

(* The player ends: the track is over, or something went wrong. *)
PlayerEnds ==
  /\ ui # "ended" /\ proc \in Alive
  /\ proc' = "dead"
  /\ UNCHANGED <<listVars, names, stopped, leaving, histVars, ui, esc, interrupts>>

Key == \/ Up \/ Down \/ PageUp \/ PageDown \/ Home \/ End \/ Space \/ Refresh
       \/ Enter \/ PlayMarked \/ Quit
Step == \/ StartPlayer \/ StartFails \/ EnterTry \/ Getch \/ Poll \/ Term
        \/ StopKill \/ FinalKill \/ IgnoreEsc

Next == Key \/ Resize \/ Step \/ ControlC \/ HangUp \/ TypeEsc \/ PlayerEnds

Spec == Init /\ [][Next]_vars

(* The thread of the interface runs, and the terminal is not resized in    *)
(* every turn of the loop; nobody has to type, no track ends.              *)
FairSpec == Spec /\ WF_vars(Step) /\ SF_vars(Getch)
-----------------------------------------------------------------------------
(* Enter and a never index past the list: the cursor and the marks are     *)
(* positions of tracks, whatever the folder held when it was read again.   *)
NoIndexError ==
  /\ files # <<>> => cursor < Len(files)
  /\ files = <<>> => cursor = 0
  /\ \A i \in marked : i < Len(files)

(* The line of the cursor is on the screen, below the two header lines and *)
(* above the status line that is drawn last, after every key, refresh and  *)
(* change of the terminal's height (three lines have no room for it).      *)
CursorIsShown ==
  LET row == 2 + cursor - offset
  IN 2 <= row /\ (height > 3 => row < height - 1)

(* While a mark stays, its position holds the track the user marked. *)
MarksKeepTheirTrack ==
  [][\A i \in marked \cap marked' :
       i < Len(files') /\ files'[i + 1] = files[i + 1]]_vars

(* A player that no window shows any more is one that no signal ends, as   *)
(* long as the program is not torn off at a point without a finally block. *)
NoPlayerIsLeft == ~abrupt => behind \subseteq {"stuck"}

(* "Esc stop player (while modal open)": an Esc typed while tracks are     *)
(* played brings the list back, however long they would last and even if   *)
(* this track ends before the key is read, when the next one starts.  A    *)
(* failing start reads the key and drops it.                               *)
EscStops ==
  []~misfired => [](esc /\ ui \in Modal => <>(ui \in {"list", "ended"}))
=============================================================================
