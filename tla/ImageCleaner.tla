---------------------------- MODULE ImageCleaner ----------------------------
(***************************************************************************)
(* python/container_image_cleaner.py: a menu of container images in a      *)
(* curses window.  An image is known by its row in the list and by whether *)
(* it is ticked.  A key and the redraw that follows it are one action,     *)
(* since the program does nothing between them.                            *)
(***************************************************************************)
EXTENDS Integers, Sequences, FiniteSetsExt

CONSTANTS
  MaxImages,   \* bound: rows of the list
  Heights      \* heights the terminal may have

CleanerAssumption == MaxImages \in Nat /\ Heights \subseteq Nat \ {0}

VARIABLES
  mode,         \* "menu", "confirm", "removing", "summary", "quit", or
                \* "failed", when an exception or sys.exit ended the program
  images,       \* per row, whether it is ticked
  current_row,  \* the highlighted row, counted from 0
  scroll_top,   \* the first row shown
  h,            \* lines of the terminal, as read when the menu was drawn
  remaining,    \* ticked images for which rmi has not been called
  success,      \* images removed so far
  errors        \* images whose removal failed

cleanerVars == <<mode, images, current_row, scroll_top, h, remaining, success, errors>>
-----------------------------------------------------------------------------
max_visible(lines) == lines - 6

(* Mutant of Adjusted: the last line of the window is forgotten. *)
AdjustedLate(row, top, lines) ==
  IF row < top THEN row
  ELSE IF row > top + max_visible(lines) THEN row - max_visible(lines) + 1
  ELSE top

(* The scroll window follows the highlighted row. *)
Adjusted(row, top, lines) ==
  IF row < top THEN row
  ELSE IF row >= top + max_visible(lines) THEN row - max_visible(lines) + 1
  ELSE top

(* images[top : top + max_visible_items], as Python slices: an end below   *)
(* zero counts from the end of the list.  The positions of what it takes.  *)
Shown(n, top, lines) ==
  LET end == top + max_visible(lines)
  IN  top .. (IF end < 0 THEN n + end ELSE Min({n, end})) - 1

HasBar(n, lines) == n > max_visible(lines)

(* int(a / b * c) of floats: where the exact value is an integer, rounding *)
(* may have come out below it.                                             *)
Truncated(a, b, c) ==
  {(a * c) \div b} \cup (IF (a * c) % b = 0 /\ a * c > 0 THEN {(a * c) \div b - 1} ELSE {})

(* The lines of the slider of the scroll bar, counted from the first row.  *)
Bars(n, top, lines) ==
  LET m == max_visible(lines)
      Height(x) == Max({1, x})
      Start(x, height) == IF x + height > m THEN m - height ELSE x
  IN  {LET s == Start(y, Height(x)) IN s .. s + Height(x) - 1 :
         x \in Truncated(m, n, m), y \in Truncated(top, n, m)}

(* addstr raises an error outside the window, and the division by the      *)
(* length of the list if it is empty.                                      *)
Drawable(n, top, lines) ==
  /\ lines > 3
  /\ n = 0 => lines > 5
  /\ 4 + Cardinality(Shown(n, top, lines)) <= lines
  /\ HasBar(n, lines) =>
       n > 0 /\ \A bar \in Bars(n, top, lines) : \A i \in bar : 4 + i \in 0 .. lines - 1

(* The next turn of the loop: read the size, move the window, draw. *)
Redraw(list, row, top, lines) ==
  LET new == Adjusted(row, top, lines)
  IN  /\ images' = list
      /\ current_row' = row
      /\ scroll_top' = new
      /\ h' = lines
      /\ mode' = IF Drawable(Len(list), new, lines) THEN "menu" ELSE "failed"

(* What get_images() may find: other programs pull and remove images too. *)
Inventory == UNION {[1 .. n -> {FALSE}] : n \in 0 .. MaxImages}
-----------------------------------------------------------------------------
Init ==
  /\ images \in Inventory
  /\ current_row = 0
  /\ h \in Heights
  /\ scroll_top = Adjusted(0, 0, h)
  /\ mode = IF Drawable(Len(images), scroll_top, h) THEN "menu" ELSE "failed"
  /\ remaining = 0 /\ success = 0 /\ errors = 0

counters == <<remaining, success, errors>>

KeyUp ==
  /\ mode = "menu" /\ current_row > 0
  /\ Redraw(images, current_row - 1, scroll_top, h)
  /\ UNCHANGED counters

KeyDown ==
  /\ mode = "menu" /\ current_row < Len(images) - 1
  /\ Redraw(images, current_row + 1, scroll_top, h)
  /\ UNCHANGED counters

Space ==
  /\ mode = "menu" /\ images # <<>>
  /\ Redraw([images EXCEPT ![current_row + 1] = ~@], current_row, scroll_top, h)
  /\ UNCHANGED counters

(* KEY_RESIZE, to which the menu answers as to any key without a meaning,  *)
(* by drawing itself anew; so does the confirmation, as to any key but y.  *)
OtherKey ==
  /\ mode \in {"menu", "confirm"}
  /\ \E lines \in Heights : Redraw(images, current_row, scroll_top, lines)
  /\ UNCHANGED counters

Ticked == {i \in 1 .. Len(images) : images[i]}

Enter ==
  /\ mode = "menu" /\ Ticked # {}
  /\ mode' = "confirm"
  /\ UNCHANGED <<images, current_row, scroll_top, h, counters>>

Confirm ==
  /\ mode = "confirm"
  /\ mode' = IF h > 2 THEN "removing" ELSE "failed"
  /\ remaining' = Cardinality(Ticked) /\ success' = 0 /\ errors' = 0
  /\ UNCHANGED <<images, current_row, scroll_top, h>>

(* podman rmi: it may refuse, or find that the image is gone by now. *)
Rmi ==
  /\ mode = "removing" /\ remaining > 0
  /\ remaining' = remaining - 1
  /\ \/ success' = success + 1 /\ UNCHANGED errors
     \/ errors' = errors + 1 /\ UNCHANGED success
  /\ UNCHANGED <<mode, images, current_row, scroll_top, h>>

(* The row of the summary's last line: an error is shown while there is    *)
(* room for one, the line that asks for a key always.                      *)
LastRow ==
  LET first == IF success > 0 THEN 4 ELSE 2
  IN  1 + (IF errors = 0 THEN first
           ELSE Max({first + 1, Min({first + 1 + errors, h - 2})}))

Summary ==
  /\ mode = "removing" /\ remaining = 0
  /\ mode' = IF LastRow < h THEN "summary" ELSE "failed"
  /\ UNCHANGED <<images, current_row, scroll_top, h, counters>>

(* Any key: the list is fetched anew, in a terminal of any size by now, or *)
(* fetching it fails and ends the program.                                 *)
Reload ==
  /\ mode = "summary"
  /\ \/ \E list \in Inventory, lines \in Heights : Redraw(list, 0, 0, lines)
     \/ mode' = "failed" /\ UNCHANGED <<images, current_row, scroll_top, h>>
  /\ remaining' = 0 /\ success' = 0 /\ errors' = 0

Quit ==
  /\ mode = "menu"
  /\ mode' = "quit"
  /\ UNCHANGED <<images, current_row, scroll_top, h, counters>>

Next ==
  \/ KeyUp \/ KeyDown \/ Space \/ OtherKey \/ Enter \/ Confirm
  \/ Rmi \/ Summary \/ Reload \/ Quit

Spec == Init /\ [][Next]_cleanerVars
-----------------------------------------------------------------------------
(* In a terminal that has room for one row of the list, the highlighted    *)
(* row is shown and the slider lies on the track beside the rows, also     *)
(* right after the terminal was too small: "Adjust scrolling window        *)
(* position", "Cap limits cleanly".                                        *)
MenuFits ==
  mode = "menu" /\ h >= 7 =>
    /\ images # <<>> => current_row \in Shown(Len(images), scroll_top, h)
    /\ HasBar(Len(images), h) =>
         \A bar \in Bars(Len(images), scroll_top, h) : bar \subseteq 0 .. max_visible(h) - 1
=============================================================================
