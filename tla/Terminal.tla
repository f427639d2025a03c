------------------------------ MODULE Terminal ------------------------------
(***************************************************************************)
(* The text screen of src/drivers/fb.c: put_char, scroll and clear.  The   *)
(* screen is a grid of character cells (draw_char fills the whole cell);   *)
(* pixels, glyphs and the frame buffer's pitch are left out.               *)
(*                                                                         *)
(* paper and row are history variables: what the same characters leave on  *)
(* a roll of paper that has no last line and never scrolls.  The screen    *)
(* must be the window on its last rows.                                    *)
(***************************************************************************)
EXTENDS Integers, Sequences

CONSTANTS cols, rows,   \* size of the screen in characters
          TAB           \* 4

ASSUME TerminalConstants == cols \in Nat \ {0} /\ rows \in Nat \ {0} /\ TAB \in Nat \ {0}

VARIABLES cursor_x, cursor_y,
          screen,       \* <<column, line>> -> a cell
          paper, row    \* the same text without scrolling, and its last line

display == <<cursor_x, cursor_y, screen, paper, row>>

Grid == (0..cols - 1) \X (0..rows - 1)
Blank == [ch |-> " ", fg |-> "none"]

\* clear, after init_fb has set cols and rows
DisplayInit ==
  /\ cursor_x = 0 /\ cursor_y = 0
  /\ screen = [p \in Grid |-> Blank]
  /\ paper = <<[x \in 0..cols - 1 |-> Blank]>>
  /\ row = 1

-----------------------------------------------------------------------------
(* put_char *)

TabStop(x) == ((x + TAB) \div TAB) * TAB

\* cursor_x after the switch
Column(c, x) ==
  CASE c \in {"LF", "CR"} -> 0
    [] c = "HT" -> TabStop(x)
    [] c = "BS" -> IF x > 0 THEN x - 1 ELSE 0
    [] OTHER -> x + 1

Glyph(c) == c \notin {"LF", "CR", "HT", "BS"}

\* The lines that a character moves the cursor down: '\n', and the wrap.
Down(c, x) == (IF c = "LF" THEN 1 ELSE 0) + (IF Column(c, x) >= cols THEN 1 ELSE 0)

scrollKeepsLast(s) ==
  [p \in Grid |-> IF p[2] < rows - 1 THEN s[<<p[1], p[2] + 1>>] ELSE s[p]]

scroll(s) == [p \in Grid |-> IF p[2] < rows - 1 THEN s[<<p[1], p[2] + 1>>] ELSE Blank]

\* Between two characters the cursor is on the screen.
CursorOnScreen == <<cursor_x, cursor_y>> \in Grid

\* draw_char tests nothing: what it draws from outside the grid is not shown
\* as the character it is.
Drawn(c, fg) ==
  IF Glyph(c) /\ CursorOnScreen
  THEN [screen EXCEPT ![<<cursor_x, cursor_y>>] = [ch |-> c, fg |-> fg]]
  ELSE screen

\* The history: write on the paper, feed new lines, never scroll.
Typed(c, fg) ==
  IF Glyph(c) /\ CursorOnScreen
  THEN [paper EXCEPT ![row][cursor_x] = [ch |-> c, fg |-> fg]] ELSE paper

Feed(p, n) == p \o [i \in 1..n |-> [x \in 0..cols - 1 |-> Blank]]

put_char(c, fg) ==
  LET x == Column(c, cursor_x)
      y == cursor_y + Down(c, cursor_x)
  IN  /\ cursor_x' = IF x >= cols THEN 0 ELSE x
      /\ cursor_y' = IF y >= rows THEN rows - 1 ELSE y
      /\ screen' = IF y >= rows THEN scroll(Drawn(c, fg)) ELSE Drawn(c, fg)
      /\ paper' = Feed(Typed(c, fg), Down(c, cursor_x))
      /\ row' = row + Down(c, cursor_x)

-----------------------------------------------------------------------------
(* Properties *)

(***************************************************************************)
(* Wrapping and scrolling lose and duplicate nothing: the cursor is on the *)
(* screen, so that draw_char never writes outside the frame buffer, and    *)
(* the screen shows the last rows lines of the text, as it would stand on  *)
(* an endless roll.                                                        *)
(***************************************************************************)
ShowsLastLines ==
  LET top == row - 1 - cursor_y   \* lines that have left the screen
  IN  /\ CursorOnScreen
      /\ row = Len(paper)
      /\ top = IF row > rows THEN row - rows ELSE 0
      /\ \A p \in Grid :
           screen[p] = IF p[2] <= cursor_y THEN paper[top + p[2] + 1][p[1]] ELSE Blank
=============================================================================
