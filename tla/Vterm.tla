------------------------------- MODULE Vterm -------------------------------
(***************************************************************************)
(* The virtual terminals: kernel/drivers/tty/virtterm.c, what keyboard.c   *)
(* does with them, and the video memory screen.c writes.                   *)
(*                                                                         *)
(* A terminal keeps its last rows in a ring of SCROLL_BUFSIZE characters:  *)
(* head to tail are the rows it has, top is where the screen begins.  One  *)
(* terminal is shown.  Its characters are written to the screen one by one *)
(* where that is enough, and the whole screen is redrawn where it is not.  *)
(* Writers block the keyboard's interrupt (vt_block_io), so that each call *)
(* is one step.                                                            *)
(***************************************************************************)
EXTENDS Integers, Sequences, SequencesExt

CONSTANTS
  Term,             (* vt_terms                                            *)
  FirstTerm,        (* the one shown at first                              *)
  DISPLAY_WIDTH, DISPLAY_HEIGHT,
  Screens,          (* the ring holds this many screens: 5                 *)
  Char,             (* the printable characters written                    *)
  Blank,            (* the character 0                                     *)
  ScanCode,         (* what the keyboard sends                             *)
  KeyOf             (* scan code of a function key -> the terminal         *)

ASSUME VtermAssumption ==
  /\ FirstTerm \in Term
  /\ DISPLAY_WIDTH \in Nat \ {0} /\ DISPLAY_HEIGHT \in Nat \ {0}
  /\ Screens \in Nat \ {0, 1}
  /\ Blank \notin Char /\ {"BS", "CR", "NL"} \cap Char = {}
  /\ \A sc \in DOMAIN KeyOf : KeyOf[sc] \in Term

DISPLAY_SIZE == DISPLAY_WIDTH * DISPLAY_HEIGHT
SCROLL_BUFSIZE == Screens * DISPLAY_SIZE

VARIABLES
  vt,               (* terminal -> [vt_head, vt_tail, vt_top, vt_cursor,   *)
                    (*   vt_buf]                                           *)
  vt_curterm,       (* the terminal shown                                  *)
  screen,           (* the video memory, and where its cursor is           *)
  ctrl              (* the control key is held down                        *)

vtermVars == <<vt, vt_curterm, screen, ctrl>>
-----------------------------------------------------------------------------
(* Places in the ring                                                       *)
Place == 0 .. (SCROLL_BUFSIZE - 1)
Cell == 0 .. (DISPLAY_SIZE - 1)

circ_dist(to, from) == (to - from + SCROLL_BUFSIZE) % SCROLL_BUFSIZE

next_row(i) == ((i \div DISPLAY_WIDTH + 1) * DISPLAY_WIDTH) % SCROLL_BUFSIZE

buf_add(ptr, amt) == (ptr + amt + SCROLL_BUFSIZE) % SCROLL_BUFSIZE

RowOf(i) == (i \div DISPLAY_WIDTH) * DISPLAY_WIDTH

(* The tail starts a row behind the head: they are never the same.          *)
NewTerm == [vt_head |-> 0, vt_tail |-> DISPLAY_WIDTH, vt_top |-> 0, vt_cursor |-> 0,
            vt_buf |-> [i \in Place |-> Blank]]
-----------------------------------------------------------------------------
(* What vt_redraw shows of a terminal: a screen from top, as far as the     *)
(* tail.  When top lies behind the tail the rows go round the end.          *)
Shown(v) ==
  [i \in Cell |->
     IF i < circ_dist(v.vt_tail, v.vt_top) THEN v.vt_buf[buf_add(v.vt_top, i)] ELSE Blank]

Cursor(v) == circ_dist(v.vt_cursor, v.vt_top)

vt_redraw(v) == screen' = [cells |-> Shown(v), cursor |-> Cursor(v)]

Acquired(v, tail) == {i \in Place : circ_dist(i, v.vt_tail) < circ_dist(tail, v.vt_tail)}

advance_tail_keeps_head(v, cursor) ==
  LET tail == next_row(cursor) IN
    [v EXCEPT !.vt_buf = [i \in Place |-> IF i \in Acquired(v, tail) THEN Blank ELSE @[i]],
              !.vt_tail = tail]

(* Blanking from the new row on, as if the ring did not wrap there.         *)
advance_tail_blanks_on(v, cursor) ==
  LET tail == next_row(cursor) IN
    [v EXCEPT !.vt_head = IF circ_dist(v.vt_tail, @) >= circ_dist(v.vt_tail, tail)
                          THEN next_row(tail) ELSE @,
              !.vt_buf = [i \in Place |-> IF i >= v.vt_tail THEN Blank ELSE @[i]],
              !.vt_tail = tail]

(* The rows the tail goes over are blanked; when it meets the head, the     *)
(* oldest rows are given up.                                                *)
advance_tail(v, cursor) ==
  LET tail == next_row(cursor) IN
    [v EXCEPT !.vt_head = IF circ_dist(v.vt_tail, @) >= circ_dist(v.vt_tail, tail)
                          THEN next_row(tail) ELSE @,
              !.vt_buf = [i \in Place |-> IF i \in Acquired(v, tail) THEN Blank ELSE @[i]],
              !.vt_tail = tail]

handle_tail(v, cursor) ==
  [(IF circ_dist(cursor, v.vt_cursor) >= circ_dist(v.vt_tail, v.vt_cursor)
    THEN advance_tail(v, cursor) ELSE v) EXCEPT !.vt_cursor = cursor]

vt_handle_char(v, c) ==
  CASE c = "BS" ->
         [v EXCEPT !.vt_cursor = IF @ # v.vt_head THEN buf_add(@, -1) ELSE @]
    [] c = "CR" -> [v EXCEPT !.vt_cursor = RowOf(@)]
    [] c = "NL" -> handle_tail(v, next_row(v.vt_cursor))
    [] OTHER    -> handle_tail([v EXCEPT !.vt_buf[v.vt_cursor] = c], buf_add(v.vt_cursor, 1))

OnScreen(v) == Cursor(v) < DISPLAY_SIZE

(* The screen is moved so that the cursor is on its last row - the cursor   *)
(* as the character before this one has left it.                            *)
follow(v) ==
  IF OnScreen(v) THEN v
  ELSE [v EXCEPT !.vt_top = buf_add(next_row(v.vt_cursor), -DISPLAY_SIZE)]

vt_provide_char(t, c) ==
  LET before == vt[t]
      after == vt_handle_char(follow(before), c)
  IN  /\ vt' = [vt EXCEPT ![t] = after]
      /\ IF t # vt_curterm THEN UNCHANGED screen
         ELSE IF after.vt_top # before.vt_top THEN vt_redraw(after)
         ELSE screen' = [cells |-> IF c \notin Char THEN screen.cells
                                   ELSE [screen.cells EXCEPT ![Cursor(before)] = c],
                         cursor |-> Cursor(after)]
      /\ UNCHANGED <<vt_curterm, ctrl>>

(* Scrolled past the head or the last row, the screen stops there.          *)
Scrolled(v, lines, up) ==
  LET by == lines * DISPLAY_WIDTH IN
    [v EXCEPT !.vt_top =
       IF up
       THEN IF circ_dist(@, v.vt_head) < by THEN v.vt_head ELSE buf_add(@, -by)
       ELSE IF circ_dist(v.vt_tail, @) < by + DISPLAY_WIDTH
            THEN buf_add(v.vt_tail, -DISPLAY_WIDTH) ELSE buf_add(@, by)]

vt_scroll(lines, up) ==
  LET after == Scrolled(vt[vt_curterm], lines, up) IN
    /\ vt' = [vt EXCEPT ![vt_curterm] = after]
    /\ vt_redraw(after)
    /\ UNCHANGED vt_curterm

vt_switch_keeps_screen(term) ==
  /\ vt_curterm' = term /\ UNCHANGED <<vt, screen>>

vt_switch(term) ==
  /\ vt_curterm' = term
  /\ vt_redraw(vt[term])
  /\ UNCHANGED vt
-----------------------------------------------------------------------------
(* keyboard_intr_handler, for the keys that have a state here: shift only   *)
(* changes the character, which goes to the driver of the terminal.         *)
CTRL == 29
Break(sc) == sc >= 128
Make(sc) == sc % 128
FunctionKey == 59 .. 68
Backspace == 14
Enter == 28

press_ctrl(sc) ==
  /\ Make(sc) = CTRL
  /\ ctrl' = ~Break(sc)
  /\ UNCHANGED <<vt, vt_curterm, screen>>

(* Whatever keys are held, a function key shows its terminal, if there is one. *)
press_function(sc) ==
  /\ ~Break(sc) /\ sc \in FunctionKey
  /\ IF sc \in DOMAIN KeyOf THEN vt_switch(KeyOf[sc])
     ELSE UNCHANGED <<vt, vt_curterm, screen>>
  /\ UNCHANGED ctrl

(* With control held, backspace scrolls up and enter down.                  *)
press_scroll(sc) ==
  /\ ~Break(sc) /\ ctrl /\ sc \in {Backspace, Enter}
  /\ vt_scroll(DISPLAY_HEIGHT, sc = Backspace)
  /\ UNCHANGED ctrl

keyboard_intr_handler(sc) == press_ctrl(sc) \/ press_function(sc) \/ press_scroll(sc)
-----------------------------------------------------------------------------
VtermInit ==
  /\ vt = [t \in Term |-> NewTerm]
  /\ vt_curterm = FirstTerm
  /\ screen = [cells |-> Shown(NewTerm), cursor |-> 0]
  /\ ctrl = FALSE

VtermNext ==
  \/ \E t \in Term, c \in Char \cup {"BS", "CR", "NL"} : vt_provide_char(t, c)
  \/ \E sc \in ScanCode : keyboard_intr_handler(sc)

VtermSpec == VtermInit /\ [][VtermNext]_vtermVars
-----------------------------------------------------------------------------
Within(v, i) == circ_dist(i, v.vt_head) < circ_dist(v.vt_tail, v.vt_head)

(* However the text goes round the ring, head, tail and top are at the start *)
(* of a row and the cursor is between head and tail: vt_handle_char writes  *)
(* at the cursor and compares distances from it.                            *)
VtermSound ==
  \A t \in Term :
    LET v == vt[t] IN
      /\ {v.vt_head, v.vt_tail, v.vt_top, v.vt_cursor} \subseteq Place
      /\ \A i \in {v.vt_head, v.vt_tail, v.vt_top} : i % DISPLAY_WIDTH = 0
      /\ v.vt_buf \in [Place -> Char \cup {Blank}]
      /\ Within(v, v.vt_cursor)

(* Backspaces can bring the cursor over the top of the screen.  Once the    *)
(* text fills all but a screen of the ring, such a cursor can be so far     *)
(* before the top that vt_provide_char finds it a little behind it.         *)
CursorFollowsTop(v) ==
  \/ circ_dist(v.vt_top, v.vt_head) <= circ_dist(v.vt_cursor, v.vt_head)
  \/ circ_dist(v.vt_tail, v.vt_head) + DISPLAY_SIZE <= SCROLL_BUFSIZE

(* Drawing only what vt_provide_char takes to have changed, the screen is   *)
(* what vt_redraw would make it, as long as it begins in the text and the   *)
(* code can tell a cursor that is on it.                                    *)
ScreenIsShown ==
  LET v == vt[vt_curterm] IN
    Within(v, v.vt_top) /\ CursorFollowsTop(v) =>
      screen = [cells |-> Shown(v), cursor |-> Cursor(v)]

(* A step changes no character of the text but the one at the cursor: what  *)
(* has not been given up at the head is there to be scrolled to.            *)
TextStays ==
  [][\A t \in Term, i \in Place :
       /\ Within(vt[t], i) /\ Within(vt'[t], i)
       /\ i # vt[t].vt_cursor
       => vt'[t].vt_buf[i] = vt[t].vt_buf[i]]_vtermVars
=============================================================================
