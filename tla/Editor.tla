------------------------------- MODULE Editor -------------------------------
(***************************************************************************)
(* The text buffer of texteditor/blockedit.c: an array of lines, the       *)
(* number of those in use, and a cursor.  The view (scroll_line, syntax,   *)
(* edit_draw) and the file name are left out; edit_replace only counts.    *)
(*                                                                         *)
(* edit_find moves the cursor to another line and keeps the column,        *)
(* edit_open shortens the text and keeps the cursor: until the next        *)
(* edit_move_cursor it may stand outside the text, and no edit asks.  There*)
(* what is typed lands behind the NUL of a line or in lines out of use,    *)
(* joining takes line_count to zero and below, and some calls leave the    *)
(* array: a copy of len - col + 1 bytes where that is negative, lines[-1], *)
(* lines[EDIT_MAX_LINES].  Nothing is said of what follows these (`lost'). *)
(***************************************************************************)
EXTENDS Integers, Sequences, FiniteSets, SequencesExt

CONSTANTS EDIT_MAX_LINES, EDIT_MAX_LINE_LEN,
          Letter,     \* the characters of value 32 and up that are typed
          SPACE, NL,
          TAB,        \* 4, the spaces typed for a tab
          Moves       \* the distances the cursor is moved by

EditorAssumption == /\ EDIT_MAX_LINES \in Nat \ {0}
                    /\ EDIT_MAX_LINE_LEN \in Nat \ {0}
                    /\ TAB \in Nat \ {0} /\ Moves \subseteq Int
                    /\ NL \notin Letter \cup {SPACE}

VARIABLES lines, line_count, cursor_line, cursor_col, modified,
          lost        \* a call has written or read outside the lines

buffer == <<lines, line_count>>
vars == <<buffer, cursor_line, cursor_col, modified, lost>>

LineIndex == 0 .. EDIT_MAX_LINES - 1
Line == lines[cursor_line]

CursorInText == cursor_line < line_count /\ cursor_col <= Len(Line)

Leaves == lost' = TRUE /\ UNCHANGED <<buffer, cursor_line, cursor_col, modified>>

Init == /\ lines = [i \in LineIndex |-> << >>]
        /\ line_count = 1
        /\ cursor_line = 0 /\ cursor_col = 0
        /\ modified = FALSE /\ lost = FALSE

-----------------------------------------------------------------------------
(* The lines from `at' on move down by one.                                *)
MovedDown(at) ==
  [i \in LineIndex |-> IF i > at /\ i <= line_count THEN lines[i - 1] ELSE lines[i]]

InsertNewline ==
  /\ line_count < EDIT_MAX_LINES /\ cursor_line + 1 \in LineIndex
  /\ cursor_col <= Len(Line)
  /\ lines' = [MovedDown(cursor_line + 1) EXCEPT
                 ![cursor_line] = SubSeq(Line, 1, cursor_col),
                 ![cursor_line + 1] = SubSeq(Line, cursor_col + 1, Len(Line))]
  /\ line_count' = line_count + 1
  /\ cursor_line' = cursor_line + 1
  /\ cursor_col' = 0

(* Behind the NUL of the line no byte is copied: the line below stays.     *)
NewlineBehind ==
  /\ line_count < EDIT_MAX_LINES /\ cursor_line + 1 \in LineIndex
  /\ cursor_col = Len(Line) + 1 /\ cursor_col < EDIT_MAX_LINE_LEN
  /\ lines' = MovedDown(cursor_line + 1)
  /\ line_count' = line_count + 1
  /\ cursor_line' = cursor_line + 1
  /\ cursor_col' = 0

NewlineLeaves == /\ line_count < EDIT_MAX_LINES
                 /\ \/ cursor_line + 1 \notin LineIndex
                    \/ cursor_col > Min({Len(Line) + 1, EDIT_MAX_LINE_LEN - 1})

RoomInLine == EDIT_MAX_LINE_LEN - 1 - Len(Line)

(* k characters, as far as the line has room for them.                     *)
InsertRun(c, k) ==
  LET n == Min({k, RoomInLine})
  IN /\ n > 0 /\ cursor_col <= Len(Line)
     /\ lines' = [lines EXCEPT ![cursor_line] =
          SubSeq(Line, 1, cursor_col) \o [i \in 1 .. n |-> c]
            \o SubSeq(Line, cursor_col + 1, Len(Line))]
     /\ cursor_col' = cursor_col + n
     /\ UNCHANGED <<line_count, cursor_line>>

(* Behind the NUL of the line a character is stored and not seen.          *)
RunBehind == /\ RoomInLine > 0 /\ cursor_col = Len(Line) + 1
             /\ cursor_col' = cursor_col + 1
             /\ UNCHANGED <<buffer, cursor_line>>

RunLeaves(k) == /\ RoomInLine > 0 /\ cursor_col > Len(Line)
                /\ cursor_col + k > Len(Line) + 2

edit_insert_char ==
  \/ /\ \/ InsertNewline \/ NewlineBehind
        \/ \E c \in Letter \cup {SPACE} : InsertRun(c, 1)
        \/ InsertRun(SPACE, TAB)
        \/ RunBehind
     /\ modified' = TRUE /\ UNCHANGED lost
  \/ (NewlineLeaves \/ RunLeaves(1) \/ RunLeaves(TAB)) /\ Leaves

(* Mutant: the lines behind the joined one stay where they are.            *)
NotMovedUp(at, joined) == [lines EXCEPT ![at - 1] = joined]

(* The lines behind `at' move up by one, the last of them stays behind.    *)
MovedUp(at, joined) ==
  [i \in LineIndex |-> IF i = at - 1 THEN joined
                       ELSE IF i >= at /\ i < line_count - 1 THEN lines[i + 1] ELSE lines[i]]

(* strncat keeps what fits.  The lines may be behind those in use.         *)
JoinLines ==
  LET prev == lines[cursor_line - 1]
      fits == SubSeq(Line, 1, Min({Len(Line), EDIT_MAX_LINE_LEN - Len(prev) - 1}))
  IN /\ lines' = MovedUp(cursor_line, prev \o fits)
     /\ line_count' = line_count - 1
     /\ cursor_line' = cursor_line - 1
     /\ cursor_col' = Len(prev)

DeleteInLine == /\ lines' = IF cursor_col > Len(Line) THEN lines
                             ELSE [lines EXCEPT ![cursor_line] = RemoveAt(@, cursor_col)]
                /\ cursor_col' = cursor_col - 1
                /\ UNCHANGED <<line_count, cursor_line>>

edit_delete_char ==
  \/ /\ \/ cursor_col \in 1 .. Len(Line) + 1 /\ DeleteInLine
        \/ cursor_col = 0 /\ cursor_line > 0 /\ JoinLines
        \/ cursor_col = 0 /\ cursor_line = 0 /\ UNCHANGED <<buffer, cursor_line, cursor_col>>
     /\ modified' = TRUE /\ UNCHANGED lost
  \/ cursor_col > Len(Line) + 1 /\ Leaves

-----------------------------------------------------------------------------
Clamped(x, low, high) == Max({low, Min({x, high})})

ColumnIn(col, line) == Clamped(col, 0, Len(lines[line]))

edit_move_cursor(dl, dc) ==
  \/ /\ line_count > 0
     /\ cursor_line' = Clamped(cursor_line + dl, 0, line_count - 1)
     /\ cursor_col' = ColumnIn(cursor_col + dc, cursor_line')
     /\ UNCHANGED <<buffer, modified, lost>>
  \/ line_count <= 0 /\ Leaves

(* A line that contains the text looked for; the column stays.             *)
edit_find == /\ cursor_line' \in 0 .. line_count - 1
             /\ UNCHANGED <<buffer, cursor_col, modified, lost>>

(* Nothing is loaded: the first line stays, and the cursor.                *)
edit_open == /\ line_count' = 1
             /\ modified' = FALSE
             /\ UNCHANGED <<lines, cursor_line, cursor_col, lost>>

edit_save == /\ modified' = FALSE
             /\ UNCHANGED <<buffer, cursor_line, cursor_col, lost>>

Call == \/ edit_insert_char
        \/ edit_delete_char
        \/ \E dl, dc \in Moves : edit_move_cursor(dl, dc)
        \/ edit_find
        \/ edit_open
        \/ edit_save

Next == \/ ~lost /\ Call
        \/ lost /\ UNCHANGED vars

Spec == Init /\ [][Next]_vars

-----------------------------------------------------------------------------
(* The first lines as one text, each with its end.                         *)
UpTo[i \in 0 .. EDIT_MAX_LINES] ==
  IF i = 0 THEN << >> ELSE UpTo[i - 1] \o lines[i - 1] \o <<NL>>

(* The lines in use as one text, and the cursor in it.                     *)
FlatText == Front(UpTo[line_count])

FlatCursor == LET at == Min({cursor_line, line_count - 1})
              IN Len(UpTo[at]) + Min({cursor_col, Len(lines[at])})

Flat == INSTANCE PlainText WITH Char <- Letter \cup {SPACE}, LIMIT <- EDIT_MAX_LINE_LEN - 1,
                                text <- FlatText, cursor <- FlatCursor

(* Splitting, joining and shifting lines implements editing a plain text.  *)
(* While the cursor is in the text each call does to the text what it does *)
(* at the cursor, no other character is lost, doubled or moved, and no call*)
(* leaves the lines; only finding a text and opening a file take the cursor*)
(* out.  Nothing is said of what opening does to the text, nor of the calls*)
(* made while the cursor is outside.                                       *)
EditsPlainText ==
  /\ Flat!TextInit
  /\ [][CursorInText => /\ ~lost'
                        /\ CursorInText' \/ edit_find \/ edit_open
                        /\ edit_open \/ Flat!TextNext \/ UNCHANGED Flat!textVars]_vars
=============================================================================
