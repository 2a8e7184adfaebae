------------------------------ MODULE LongPolling ------------------------------
(***************************************************************************)
(* php/long_polling: server.php appends what is posted to a file;          *)
(* dataInterface.php runs for every page that is open and takes the first  *)
(* line out of the file, twice a second, with one command line:            *)
(*   head -n 1 data && sed 1d data > data.tmp && mv data.tmp data          *)
(* Requests run at the same time, and nothing is locked.                   *)
(*                                                                         *)
(* A file is a sequence of messages and line ends.  Whoever has it open    *)
(* keeps it when its name is given to another: an open file is known by    *)
(* the name it has now ("data", "tmp"), or is "gone" if it has none left.  *)
(* Files are small: one command reads or writes them in one step.          *)
(* Messages are not blank, and all of one length, so that writing over a   *)
(* file goes by elements of the sequence.                                  *)
(***************************************************************************)
EXTENDS Integers, Sequences, FiniteSets, SequencesExt

CONSTANTS
  Posts,    \* bound: requests of server.php, numbered as they open the file
  Page,     \* one for each request of dataInterface.php
  None,     \* what is not there: a file, or an open one
  NL        \* the line end

ASSUME PollingAssumption ==
  /\ Posts \in Nat
  /\ NL \notin 1 .. Posts
  /\ None \notin Seq(1 .. Posts \cup {NL})

VARIABLES
  data, tmp,   \* contents of the two files, or None
  ends,        \* which posts end with a line end
  file,        \* what a post has open; "new" before that, "done" after
  at,          \* where the loop of a page is
  line,        \* the line that it got from head
  out,         \* what its sed writes to
  open,        \* pages that are still shown in a browser
  sent,        \* history: messages in the order they were written; this
               \* and what follows is kept until two pages overlap
  delivered,   \* history: messages in the order they were shown
  wasted,      \* history: messages printed for a page that was gone
  raced,       \* history: messages written while a page rewrote the file
  overlap      \* history: two pages were between head and echo at once

Message == 1 .. Posts

vars == <<data, tmp, ends, file, at, line, out, open,
          sent, delivered, wasted, raced, overlap>>
history == <<sent, delivered, wasted, raced, overlap>>
postVars == <<ends, file>>

HasLineEnd(s) == NL \in ToSet(s)

(* How much of a file `head -n 1` prints and `sed 1d` leaves out.          *)
FirstLineLength(s) ==
  IF HasLineEnd(s) THEN CHOOSE n \in 1 .. Len(s) : s[n] = NL /\ \A k \in 1 .. n - 1 : s[k] # NL
                   ELSE Len(s)

(* What exec() returns of it: the line without its end.                    *)
FirstLine(s) == SubSeq(s, 1, IF HasLineEnd(s) THEN FirstLineLength(s) - 1 ELSE Len(s))
AfterFirstLine(s) == SubSeq(s, FirstLineLength(s) + 1, Len(s))

Init ==
  /\ data = None /\ tmp = None
  /\ ends \in [Message -> BOOLEAN]
  /\ file = [m \in Message |-> "new"]
  /\ at = [p \in Page |-> "head"]
  /\ line = [p \in Page |-> <<>>]
  /\ out = [p \in Page |-> None]
  /\ open = Page
  /\ sent = <<>> /\ delivered = <<>> /\ wasted = {} /\ raced = {} /\ overlap = FALSE
-----------------------------------------------------------------------------
(* file_put_contents(DATA_FILE, ..., FILE_APPEND) opens the file, creating *)
(* it if need be, ...                                                      *)
OpenData(m) ==
  /\ file[m] = "new" /\ \A k \in 1 .. m - 1 : file[k] # "new"
  /\ data' = IF data = None THEN <<>> ELSE data
  /\ file' = [file EXCEPT ![m] = "data"]
  /\ UNCHANGED <<tmp, ends, at, line, out, open, history>>

(* What becomes of a message written now: the file it goes to may not have *)
(* the name any more; a page that moves its copy into place has left it    *)
(* out; and one that will remove the first line removes it with that line, *)
(* if no line end is between.                                              *)
WillBeLost(m) ==
  \/ file[m] = "gone"
  \/ \E p \in Page : at[p] = "mv"
  \/ \E p \in Page : at[p] \in {"open", "sed"} /\ ~HasLineEnd(data)

(* ... and writes what was posted, as it is, at the end.                   *)
WriteData(m) ==
  /\ file[m] \in {"data", "gone"}
  /\ LET posted == IF ends[m] THEN <<m, NL>> ELSE <<m>>
     IN data' = IF file[m] = "data" THEN data \o posted ELSE data
  /\ file' = [file EXCEPT ![m] = "done"]
  /\ IF overlap
     THEN UNCHANGED <<sent, raced>>
     ELSE /\ sent' = Append(sent, m)
          /\ raced' = IF WillBeLost(m) THEN raced \cup {m} ELSE raced
  /\ UNCHANGED <<tmp, ends, at, line, out, open, delivered, wasted, overlap>>
-----------------------------------------------------------------------------
Busy(p) == at[p] \notin {"head", "over"}

(* Mutant of Head_n_1: it waits until the line is complete. *)
HeadOfWholeLine(p) ==
  /\ at[p] = "head"
  /\ IF data = None \/ ~HasLineEnd(IF data = None THEN <<>> ELSE data)
     THEN UNCHANGED <<at, line>>
     ELSE /\ line' = [line EXCEPT ![p] = FirstLine(data)]
          /\ at' = [at EXCEPT ![p] = "open"]
  /\ IF \E q \in Page \ {p} : Busy(q)
     THEN /\ overlap' = TRUE
          /\ sent' = <<>> /\ delivered' = <<>> /\ wasted' = {} /\ raced' = {}
     ELSE UNCHANGED history
  /\ UNCHANGED <<data, tmp, postVars, out, open>>

(* head -n 1: without a file it fails, and the commands behind it do not   *)
(* run.                                                                    *)
Head_n_1(p) ==
  /\ at[p] = "head"
  /\ IF data = None
     THEN UNCHANGED <<at, line>>
     ELSE /\ line' = [line EXCEPT ![p] = FirstLine(data)]
          /\ at' = [at EXCEPT ![p] = "open"]
  /\ IF \E q \in Page \ {p} : Busy(q)
     THEN /\ overlap' = TRUE
          /\ sent' = <<>> /\ delivered' = <<>> /\ wasted' = {} /\ raced' = {}
     ELSE UNCHANGED history
  /\ UNCHANGED <<data, tmp, postVars, out, open>>

(* > data.tmp: the shell empties the file, or creates it.                  *)
OpenTmp(p) ==
  /\ at[p] = "open"
  /\ tmp' = <<>>
  /\ out' = [out EXCEPT ![p] = "tmp"]
  /\ at' = [at EXCEPT ![p] = "sed"]
  /\ UNCHANGED <<data, postVars, line, open, history>>

(* The sequence s written at the start of a file that has the content old. *)
Over(s, old) == s \o SubSeq(old, Len(s) + 1, Len(old))

(* Mutant of Sed_1d: the first line stays. *)
Sed_2d(p) ==
  /\ at[p] = "sed"
  /\ data' = IF out[p] = "data" THEN Over(data, data) ELSE data
  /\ tmp' = IF out[p] = "tmp" THEN Over(data, tmp) ELSE tmp
  /\ at' = [at EXCEPT ![p] = "mv"]
  /\ UNCHANGED <<postVars, line, out, open, history>>

(* sed 1d: the rest is written over what the open file has by now, which   *)
(* may have become the data file itself.                                   *)
Sed_1d(p) ==
  /\ at[p] = "sed"
  /\ LET rest == AfterFirstLine(data)
     IN /\ data' = IF out[p] = "data" THEN Over(rest, data) ELSE data
        /\ tmp' = IF out[p] = "tmp" THEN Over(rest, tmp) ELSE tmp
  /\ at' = [at EXCEPT ![p] = "mv"]
  /\ UNCHANGED <<postVars, line, out, open, history>>

(* What an open file is called once data.tmp has the name data. *)
Renamed(f) == CASE f = "data" -> "gone" [] f = "tmp" -> "data" [] OTHER -> f

(* mv: it fails if another page has moved the file already. *)
Mv(p) ==
  /\ at[p] = "mv"
  /\ IF tmp = None
     THEN /\ out' = [out EXCEPT ![p] = None]
          /\ UNCHANGED <<data, tmp, file>>
     ELSE /\ data' = tmp /\ tmp' = None
          /\ file' = [m \in Message |-> Renamed(file[m])]
          /\ out' = [q \in Page |-> IF q = p THEN None ELSE Renamed(out[q])]
  /\ at' = [at EXCEPT ![p] = "echo"]
  /\ UNCHANGED <<ends, line, open, history>>

(* echo, unless the line was empty.  PHP notices that the page is gone     *)
(* when it prints for it, and ends the loop then; until that it goes on    *)
(* polling.                                                                *)
Echo(p) ==
  /\ at[p] = "echo"
  /\ IF line[p] # <<>> /\ p \notin open
     THEN /\ wasted' = IF overlap THEN {} ELSE wasted \cup ToSet(line[p])
          /\ at' = [at EXCEPT ![p] = "over"]
          /\ UNCHANGED delivered
     ELSE /\ delivered' = IF overlap THEN <<>> ELSE delivered \o line[p]
          /\ at' = [at EXCEPT ![p] = "head"]
          /\ UNCHANGED wasted
  /\ line' = [line EXCEPT ![p] = <<>>]
  /\ UNCHANGED <<data, tmp, postVars, out, open, sent, raced, overlap>>

(* The browser leaves the page, or loads it again as another request.      *)
Leave(p) ==
  /\ open' = open \ {p}
  /\ p \in open
  /\ UNCHANGED <<data, tmp, postVars, at, line, out, history>>

Poll(p) == Head_n_1(p) \/ OpenTmp(p) \/ Sed_1d(p) \/ Mv(p) \/ Echo(p)

Next ==
  \/ \E m \in Message : OpenData(m) \/ WriteData(m)
  \/ \E p \in Page : Poll(p) \/ Leave(p)

Fairness == \A p \in Page : WF_vars(Poll(p))

Spec == Init /\ [][Next]_vars /\ Fairness
-----------------------------------------------------------------------------
(* What a page has in its hand only: the file has been replaced already.   *)
Held == IF \E p \in Page : at[p] = "echo"
        THEN line[CHOOSE p \in Page : at[p] = "echo"] ELSE <<>>
InFile == IF data = None THEN <<>> ELSE data
Queue == delivered \o Held \o InFile

WrittenBefore(m, k) == \E i, j \in DOMAIN sent : i < j /\ sent[i] = m /\ sent[j] = k

(* As long as pages do not poll at the same moment, the file is a queue:   *)
(* messages come out once and in the order they were written, whichever    *)
(* page gets them, and none is lost but those that were written while a    *)
(* page was rewriting the file (and those taken for a page that is gone).  *)
(* Those are lost without exception.                                       *)
QueueOfTheOthers ==
  ~overlap =>
    /\ \A i, j \in DOMAIN Queue :
         i < j /\ Queue[i] \notin raced \cup {NL} /\ Queue[j] \notin raced \cup {NL}
           => WrittenBefore(Queue[i], Queue[j])
    /\ ToSet(Queue) \ (raced \cup {NL}) = ToSet(sent) \ (raced \cup wasted)
    /\ ToSet(delivered \o Held) \cap raced = {}

(* Every such message is shown some day, as long as a page polls.          *)
MessagesAreShown ==
  \A m \in Message :
    file[m] = "done" ~> \/ m \in ToSet(delivered) \cup wasted \cup raced
                     \/ overlap
                     \/ \A p \in Page : at[p] = "over"
=============================================================================
