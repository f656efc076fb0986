------------------------------ MODULE MCDesktop ------------------------------
(* Parts of the desktop that share no state with each other, side by side: *)
(* `part' says which of them a behaviour is about.                         *)
(*                                                                         *)
(* windows   four windows of which three fit                               *)
(* terminal  two columns and two rows of a screen of three, so that a line *)
(*           wraps, and the window follows up to the screen's last row     *)
(* menu      three entries, of two callbacks, of none and separators, and  *)
(*           the pointer on every row of the box and around it             *)
(* editor    three lines of two characters, so that lines fill up, join    *)
(*           with and without loss and split at each place                 *)
EXTENDS BlockWM

CONSTANTS TERM_COLS, TERM_ROWS, TERM_MAX_SCROLL, TAB_STOP, INPUT_MAX, TERM_HISTORY,
          PROMPT, BANNER, Letter, SPACE, NL, CR, TAB, BS, NUL, Texts, Deltas,
          CTX_MAX_ITEMS, CTX_ITEM_H, SEP_H, HEAD, FOOT,
          Callback, NULL, SEPARATOR, Places,
          EDIT_MAX_LINES, EDIT_MAX_LINE_LEN, EDIT_TAB, Moves

VARIABLES part,
          screen, input_buf, history, prompted, whole,
          items, y, h, visible, hovered, calling, ran,
          lines, line_count, cursor_line, cursor_col, modified, lost

MCPrompt == <<"$">>
MCBanner == <<"n">>
MCTexts == {<<"t", "r", "x", "b">>}
MCDeltas == {-1, 1}
MCMoves == {-1, 0, 1}

G == INSTANCE Terminal
C == INSTANCE ContextMenu WITH phase <- calling
E == INSTANCE Editor WITH TAB <- EDIT_TAB

ASSUME DesktopAssumption == G!TerminalAssumption /\ C!ContextMenuAssumption /\ E!EditorAssumption

terminalVars == <<screen, input_buf, history, prompted, whole>>
menuVars == <<items, y, h, visible, hovered, calling, ran>>
editorVars == <<lines, line_count, cursor_line, cursor_col, modified, lost>>
desktopVars == <<part, vars, terminalVars, menuVars, editorVars>>

DesktopInit == /\ part \in {"windows", "terminal", "menu", "editor"}
               /\ Init /\ G!Init /\ C!Init /\ E!Init

DesktopNext ==
  /\ UNCHANGED part
  /\ \/ part = "windows" /\ Next /\ UNCHANGED <<terminalVars, menuVars, editorVars>>
     \/ part = "terminal" /\ G!Next /\ UNCHANGED <<vars, menuVars, editorVars>>
     \/ part = "menu" /\ C!Next /\ UNCHANGED <<vars, terminalVars, editorVars>>
     \/ part = "editor" /\ E!Next /\ UNCHANGED <<vars, terminalVars, menuVars>>

DesktopSpec == DesktopInit /\ [][DesktopNext]_desktopVars

(* The properties of the parts, on their variables here.                   *)
InputBeforeCursor == G!InputBeforeCursor
OutputIsInView == G!OutputIsInView
ClicksRunWhatIsDrawn == C!ClicksRunWhatIsDrawn
EditsPlainText == E!EditsPlainText
=============================================================================
