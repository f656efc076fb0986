------------------------------ MODULE Terminal ------------------------------
(***************************************************************************)
(* The graphical terminal, terminal/guiterm.c: a screen of cells with a    *)
(* cursor that only newlines move down, a window of it that is shown, and  *)
(* the line being typed, which the keys put into input_buf and on the      *)
(* screen at once.                                                         *)
(*                                                                         *)
(* `screen' is the part of guiterm_t that output changes, so that the      *)
(* functions on it compose; a key and a print are one action each, since   *)
(* nothing interrupts them.  Colours and drawing are left out, the prompt  *)
(* and the banner are shortened (PROMPT, BANNER).                          *)
(*                                                                         *)
(* shell_process_cmd (shell/shell.c) cuts the buffer it is given into      *)
(* words; its commands are empty functions.                                *)
(***************************************************************************)
EXTENDS Integers, Sequences, SequencesExt

CONSTANTS TERM_COLS, TERM_ROWS, TERM_MAX_SCROLL,   \* 120, 35, 1000
          TAB_STOP,                                \* 8
          INPUT_MAX,                               \* 511
          TERM_HISTORY,                            \* 256
          PROMPT, BANNER,
          Letter, SPACE, NL, CR, TAB, BS, NUL,
          Texts,        \* what other parts of the system print
          Deltas        \* the steps of the scroll wheel

TerminalAssumption == /\ {TERM_COLS, TERM_ROWS, TERM_MAX_SCROLL, TAB_STOP} \subseteq Nat \ {0}
                      /\ TERM_COLS % TAB_STOP = 0
                      /\ {INPUT_MAX, TERM_HISTORY} \subseteq Nat
                      /\ Deltas \subseteq Int
                      /\ \A s \in {PROMPT, BANNER} \cup Texts : s \in Seq(ToSet(s))
                      /\ {NL, CR, TAB, BS, NUL} \cap (Letter \cup {SPACE}) = {}
                      /\ NL \notin {CR, TAB, BS} /\ CR \notin {TAB, BS} /\ TAB # BS

VARIABLES screen,     \* cells, cursor_row, cursor_col, scroll_offset, total_rows
          input_buf,
          history,
          prompted,   \* where the last prompt ended, as row * TERM_COLS + column
          whole       \* nothing but typing has moved the cursor since, no
                      \* backspace came at the start of a row, and the screen
                      \* has not run out of rows

vars == <<screen, input_buf, history, prompted, whole>>

Rows == 0 .. TERM_MAX_SCROLL - 1
Cols == 0 .. TERM_COLS - 1
Printable == Letter \cup {SPACE}

Least(a, b) == IF a < b THEN a ELSE b
Most(a, b) == IF a < b THEN b ELSE a

-----------------------------------------------------------------------------
Blank == [r \in Rows |-> [c \in Cols |-> NUL]]

guiterm_clear(t) == [cells |-> Blank, cursor_row |-> 0, cursor_col |-> 0,
                     scroll_offset |-> 0, total_rows |-> 0]

(* Mutant: the window follows one row late.                                *)
FollowedLate(offset, row) == IF row > offset + TERM_ROWS THEN row - TERM_ROWS + 1 ELSE offset

(* The first row shown, with the cursor in a new row.                      *)
Followed(offset, row) == IF row >= offset + TERM_ROWS THEN row - TERM_ROWS + 1 ELSE offset

guiterm_newline(t) ==
  LET row == Least(t.cursor_row + 1, TERM_MAX_SCROLL - 1)
  IN [t EXCEPT !.cursor_col = 0, !.cursor_row = row,
               !.total_rows = Most(@, row),
               !.scroll_offset = Followed(@, row)]

NextTab(col) == (col \div TAB_STOP + 1) * TAB_STOP

(* A cell is written in the columns of the screen only: after a tab to its *)
(* edge nothing is, until the next newline.                                *)
Written(t, c) ==
  LET w == [t EXCEPT !.cells[t.cursor_row][t.cursor_col] = c, !.cursor_col = @ + 1]
  IN IF w.cursor_col >= TERM_COLS THEN guiterm_newline(w) ELSE w

guiterm_putchar(t, c) ==
  CASE c = NL  -> guiterm_newline(t)
    [] c = CR  -> [t EXCEPT !.cursor_col = 0]
    [] c = TAB -> [t EXCEPT !.cursor_col = NextTab(@)]
    [] c = BS  -> [t EXCEPT !.cursor_col = Most(@ - 1, 0)]
    [] OTHER   -> IF t.cursor_col < TERM_COLS THEN Written(t, c) ELSE t

guiterm_print(t, s) ==
  LET after[i \in 0 .. Len(s)] == IF i = 0 THEN t ELSE guiterm_putchar(after[i - 1], s[i])
  IN  after[Len(s)]

guiterm_scroll(t, delta) ==
  [t EXCEPT !.scroll_offset = Least(Most(@ + delta, 0), Most(t.total_rows - TERM_ROWS, 0))]

Place(t) == t.cursor_row * TERM_COLS + t.cursor_col

Init == /\ screen = guiterm_print(guiterm_print(guiterm_clear(0), BANNER), PROMPT)
        /\ input_buf = << >>
        /\ history = << >>
        /\ prompted = Place(screen)
        /\ whole = TRUE

-----------------------------------------------------------------------------
(* The line is copied into the history before the shell cuts it up.        *)
Remembered(line) == IF line # << >> /\ Len(history) < TERM_HISTORY
                    THEN Append(history, line) ELSE history

KeyEnter == /\ screen' = guiterm_print(guiterm_putchar(screen, NL), PROMPT)
            /\ history' = Remembered(input_buf)
            /\ input_buf' = << >>
            /\ prompted' = Place(screen')
            /\ whole' = TRUE

(* Mutant: the character goes, the cursor stays.                           *)
ErasedInBufferOnly(t) == t

Erased(t) == guiterm_putchar(t, BS)

KeyBackspace == /\ input_buf # << >>
                /\ input_buf' = Front(input_buf)
                /\ screen' = Erased(screen)
                /\ whole' = (whole /\ screen.cursor_col > 0)
                /\ UNCHANGED <<history, prompted>>

KeyPrintable(c) == /\ Len(input_buf) < INPUT_MAX
                   /\ input_buf' = Append(input_buf, c)
                   /\ screen' = guiterm_putchar(screen, c)
                   /\ whole' = (whole /\ Place(screen') = Place(screen) + 1)
                   /\ UNCHANGED <<history, prompted>>

guiterm_handle_key == \/ KeyEnter
                      \/ KeyBackspace
                      \/ \E c \in Printable : KeyPrintable(c)

(* Any part of the system prints, at the cursor of the line being typed.   *)
terminal_print(s) == /\ screen' = guiterm_print(screen, s)
                     /\ whole' = FALSE
                     /\ UNCHANGED <<input_buf, history, prompted>>

Wheel(delta) == /\ screen' = guiterm_scroll(screen, delta)
                /\ UNCHANGED <<input_buf, history, prompted, whole>>

Clear == /\ screen' = guiterm_clear(screen)
         /\ whole' = FALSE
         /\ UNCHANGED <<input_buf, history, prompted>>

Next == \/ guiterm_handle_key
        \/ \E s \in Texts : terminal_print(s)
        \/ \E delta \in Deltas : Wheel(delta)
        \/ Clear

Spec == Init /\ [][Next]_vars

-----------------------------------------------------------------------------
(* The cell at a place, in reading order.                                  *)
CellAt(place) == screen.cells[place \div TERM_COLS][place % TERM_COLS]

(* Between the prompt and the cursor stands what the shell will get: the   *)
(* characters of input_buf, each in its cell, over the ends of rows too,   *)
(* also after some were erased and others typed.  Nothing is said of the   *)
(* cells from the cursor on: a backspace (line 33) clears none, so that    *)
(* the characters erased are still drawn there until others are typed over *)
(* them, and only the cursor tells them from the line.  And it stops being *)
(* so when others print meanwhile, when a backspace comes at the start of  *)
(* a row, where the cursor stays, and in the last row of the screen.       *)
InputBeforeCursor ==
  whole => /\ Place(screen) = prompted + Len(input_buf)
           /\ \A k \in DOMAIN input_buf : CellAt(prompted + k - 1) = input_buf[k]

(* Whatever prints into a new row brings the row on the window, wherever   *)
(* the window was scrolled to; and it never shows rows there are not.      *)
OutputIsInView ==
  [][screen'.cursor_row > screen.cursor_row
       => /\ screen'.scroll_offset <= screen'.cursor_row
          /\ screen'.cursor_row < screen'.scroll_offset + TERM_ROWS]_vars
=============================================================================
