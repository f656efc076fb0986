---------------------------- MODULE ContextMenu ----------------------------
(***************************************************************************)
(* The context menu of contextmenu.c.  A click on an item calls its        *)
(* callback in the middle of ctx_handle_mouse, and the callback may use    *)
(* the menu itself: `phase' is "called" while one runs.                    *)
(*                                                                         *)
(* An item is what it calls, NULL for nothing, and a separator is          *)
(* SEPARATOR.  Of the columns only whether the pointer is beside the menu  *)
(* is kept, and items are numbered from 1, 0 standing for -1.  Every item  *)
(* is enabled, since nothing clears the flag.                              *)
(***************************************************************************)
EXTENDS Integers, Sequences, FiniteSets, SequencesExt

CONSTANTS CTX_MAX_ITEMS,          \* 20
          CTX_ITEM_H, SEP_H,      \* 26, 9
          HEAD, FOOT,             \* 4, 8: above and below the items
          Callback, NULL, SEPARATOR,
          Places                  \* the y of ctx_show

ContextMenuAssumption == /\ CTX_MAX_ITEMS \in Nat
                         /\ {CTX_ITEM_H, SEP_H, HEAD, FOOT} \subseteq Nat \ {0}
                         /\ {NULL, SEPARATOR} \cap Callback = {}
                         /\ NULL # SEPARATOR
                         /\ Places \subseteq Int

VARIABLES items, y, h, visible, hovered,  \* the contextmenu_t
          phase,    \* "idle", or "called" inside a callback
          ran       \* what the last mouse event called, NULL for nothing

menu == <<items, y, h, visible, hovered>>
vars == <<menu, phase, ran>>

Kind == Callback \cup {NULL}

ctx_init == /\ items' = << >> /\ y' = 0 /\ h' = 0
            /\ visible' = FALSE /\ hovered' = 0
            /\ UNCHANGED <<phase, ran>>

Init == /\ items = << >> /\ y = 0 /\ h = 0 /\ visible = FALSE /\ hovered = 0
        /\ phase = "idle"
        /\ ran = NULL

(* ctx_add_item and, for a SEPARATOR, ctx_add_separator; the box keeps the *)
(* height it was shown with.                                               *)
ctx_add(item) == /\ Len(items) < CTX_MAX_ITEMS
                 /\ items' = Append(items, item)
                 /\ UNCHANGED <<y, h, visible, hovered, phase, ran>>

Height(item) == IF item = SEPARATOR THEN SEP_H ELSE CTX_ITEM_H

(* All items together.                                                     *)
Heights ==
  LET after[i \in 0 .. Len(items)] == IF i = 0 THEN 0 ELSE after[i - 1] + Height(items[i])
  IN  after[Len(items)]

(* The menu is left where it is asked for, at any edge of the screen.      *)
ctx_show(row) == /\ y' = row
                 /\ h' = HEAD + FOOT + Heights
                 /\ visible' = TRUE /\ hovered' = 0
                 /\ UNCHANGED <<items, phase, ran>>

Hidden == visible' = FALSE /\ hovered' = 0 /\ UNCHANGED <<items, y, h>>

ctx_hide == Hidden /\ UNCHANGED <<phase, ran>>

(* What an application does with its menu, and a callback too.             *)
Call == \/ ctx_init
        \/ \E item \in Kind \cup {SEPARATOR} : ctx_add(item)
        \/ \E row \in Places : ctx_show(row)
        \/ ctx_hide

-----------------------------------------------------------------------------
Outside(e) == e.beside \/ e.row < y \/ e.row > y + h

(* Mutant: separators take no room.                                        *)
PastItemsOnly(iy, item) == IF item = SEPARATOR THEN iy ELSE iy + CTX_ITEM_H

Past(iy, item) == iy + Height(item)

(* The loop over the items: its row goes past item i, which is hit if the  *)
(* pointer is on its rows.                                                 *)
Turn(a, i, row) ==
  [iy |-> Past(a.iy, items[i]),
   hit |-> IF items[i] # SEPARATOR /\ row >= a.iy /\ row < a.iy + CTX_ITEM_H
           THEN i ELSE a.hit]

Hit(row) ==
  LET after[i \in 0 .. Len(items)] ==
        IF i = 0 THEN [iy |-> y + HEAD, hit |-> 0] ELSE Turn(after[i - 1], i, row)
  IN  after[Len(items)].hit

Under(e) == IF e.beside THEN 0 ELSE Hit(e.row)

Calls(e) == e.click /\ Under(e) # 0 /\ items[Under(e)] # NULL

(* A mouse event, up to the callback it calls, if it calls one.            *)
ctx_handle_mouse(e) ==
  /\ phase = "idle" /\ visible
  /\ IF e.click /\ Outside(e)
       THEN Hidden /\ ran' = NULL /\ UNCHANGED phase
       ELSE /\ hovered' = Under(e)
            /\ IF Calls(e) THEN ran' = items[Under(e)] /\ phase' = "called"
                           ELSE ran' = NULL /\ UNCHANGED phase
            /\ UNCHANGED <<items, y, h, visible>>

(* The menu is hidden, also when the callback showed it; no later item     *)
(* has the pointer.                                                        *)
CallbackReturns == /\ phase = "called"
                   /\ phase' = "idle"
                   /\ Hidden
                   /\ UNCHANGED ran

(* The pointer's row, whether it is beside the menu, and the button.       *)
Events == [row : {r + d : r \in Places, d \in -1 .. HEAD + FOOT + CTX_MAX_ITEMS * CTX_ITEM_H + 1},
           click : BOOLEAN, beside : BOOLEAN]

Next == \/ Call
        \/ \E e \in Events : ctx_handle_mouse(e)
        \/ CallbackReturns

Spec == Init /\ [][Next]_vars

-----------------------------------------------------------------------------
(* The rows ctx_draw gives to item i.                                      *)
DrawnFrom(i) ==
  LET above(S) == Cardinality({j \in 1 .. i - 1 : items[j] \in S})
  IN y + HEAD + CTX_ITEM_H * above(Kind) + SEP_H * above({SEPARATOR})

DrawnAt(i, row) == /\ items[i] # SEPARATOR
                   /\ row \in DrawnFrom(i) .. DrawnFrom(i) + CTX_ITEM_H - 1

(* A click in the box calls what the item drawn under the pointer calls,   *)
(* and a click anywhere else nothing.  Items added while the menu is shown *)
(* are drawn beyond the box, and a click on them closes it.  The highlight *)
(* is on an item of a menu in view, or nowhere.                            *)
ClicksRunWhatIsDrawn ==
  [][/\ \A e \in Events : ctx_handle_mouse(e) =>
          \/ ran' = NULL /\ ~\E i \in DOMAIN items :
                  /\ e.click /\ ~Outside(e) /\ DrawnAt(i, e.row) /\ items[i] # NULL
          \/ e.click /\ ~Outside(e) /\ \E i \in DOMAIN items :
                  DrawnAt(i, e.row) /\ items[i] = ran' /\ hovered' = i
     /\ phase = "idle" /\ hovered' # 0 => visible' /\ items'[hovered'] # SEPARATOR]_vars
=============================================================================
