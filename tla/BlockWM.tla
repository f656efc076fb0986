------------------------------ MODULE BlockWM ------------------------------
(***************************************************************************)
(* The window manager wm/blockwm.c, as the kernel drives it: kernel_loop   *)
(* (kernel/init.c) hands the mouse to blockwm_handle_mouse and then calls  *)
(* blockwm_composite, for ever, and applications open windows meanwhile.   *)
(* Nothing else in the repository calls the window manager; focus,         *)
(* destroy, minimize and maximize are called by blockwm_handle_mouse only, *)
(* and blockwm_resize_window by nobody.                                    *)
(*                                                                         *)
(* The live part of the array windows[] is the sequence wins, slot i being *)
(* wins[i + 1]; a slot beyond window_count is never read before it is      *)
(* written again.  focused and drag are positions in wins, 0 standing for  *)
(* -1 and for NULL: drag_window is a pointer into the array, so it names a *)
(* place and not a window.  A window's title is its identity.              *)
(*                                                                         *)
(* Positions and sizes are left out.  A mouse event is instead the set of  *)
(* visible windows that lie under the pointer, any set, and the part of    *)
(* the topmost of them that is hit.  z_order is bounded by MAX_Z.          *)
(***************************************************************************)
EXTENDS Integers, Sequences, FiniteSets, SequencesExt

CONSTANTS Title,        \* the applications' windows
          NONE,         \* no window
          MAX_WINDOWS,  \* 64
          MAX_Z         \* bound on z_order

ASSUME WindowsAssumption == MAX_WINDOWS \in Nat \ {0} /\ MAX_Z \in Nat
ASSUME NoneAssumption == NONE \notin Title

VARIABLES wins,     \* windows[0 .. window_count - 1]
          focused,  \* focused_window
          drag,     \* drag_window
          phase,    \* what kernel_loop does next: "mouse" or "composite"
          clicked   \* the window last clicked, NONE after a new one opens

vars == <<wins, focused, drag, phase, clicked>>

Slots == 1 .. Len(wins)

Titles == {wins[k].title : k \in Slots}

Init == /\ wins = << >>
        /\ focused = 0
        /\ drag = 0
        /\ phase = "mouse"
        /\ clicked = NONE

-----------------------------------------------------------------------------
(* Mutant: the focus may stay on the slot that fell off the end.           *)
FocusUnclamped(f, n) == f

(* The focus once n windows are left.                                      *)
FocusAfterRemoval(f, n) == IF f > n THEN n ELSE f

(* Mutant: the shift starts one slot late.                                 *)
RemovedNext(w, k) == [i \in 1 .. Len(w) - 1 |-> IF i <= k THEN w[i] ELSE w[i + 1]]

Removed(w, k) == [i \in 1 .. Len(w) - 1 |-> IF i < k THEN w[i] ELSE w[i + 1]]

Highest(w) == Max({0} \cup {w[i].z : i \in DOMAIN w})

(* Mutant: the window joins the highest instead of passing it.             *)
RaisedLevel(w, k) == [w EXCEPT ![k].z = Highest(w)]

Raised(w, k) == [w EXCEPT ![k].z = Highest(w) + 1]

(* blockwm_maximize_window's toggle.                                       *)
Toggled(s) == IF s = "MAXIMIZED" THEN "NORMAL" ELSE "MAXIMIZED"

HasRoom == Len(wins) < MAX_WINDOWS

(* An application opens its window.  With the array full, or no memory for *)
(* the framebuffer, the call changes nothing and is a stuttering step.     *)
blockwm_create_window(t) ==
  LET n == Len(wins) + 1
  IN  /\ HasRoom
      /\ t \notin Titles
      /\ wins' = Append(wins, [title |-> t, id |-> n, z |-> n, state |-> "NORMAL"])
      /\ focused' = n
      /\ clicked' = NONE
      /\ UNCHANGED <<drag, phase>>

-----------------------------------------------------------------------------
(* blockwm_handle_mouse, one disjunct per way through it.                  *)

Visible == {k \in Slots : wins[k].state # "MINIMIZED"}

(* The scan goes from the last slot down.                                  *)
Hit(under) == Max(under)

(* A held button with a drag going on: blockwm_move_window, positions only.*)
DragMove == drag # 0 /\ UNCHANGED <<wins, focused, drag, clicked>>

(* The button is up, or the click falls beside every window.               *)
DragEnd == drag' = 0 /\ UNCHANGED <<wins, focused, clicked>>

ClickClose(k) == /\ wins' = Removed(Raised(wins, k), k)
                 /\ focused' = FocusAfterRemoval(k, Len(wins) - 1)
                 /\ drag' = 0

ClickState(k, s) == /\ wins' = [Raised(wins, k) EXCEPT ![k].state = s]
                    /\ focused' = k
                    /\ drag' = 0

ClickBar(k) == /\ wins' = Raised(wins, k)
               /\ focused' = k
               /\ drag' = k

ClickContent(k) == /\ wins' = Raised(wins, k)
                   /\ focused' = k
                   /\ drag' = 0

Click(k) == /\ drag = 0
            /\ Highest(wins) < MAX_Z
            /\ clicked' = wins[k].title
            /\ \/ ClickClose(k)
               \/ ClickState(k, "MINIMIZED")
               \/ ClickState(k, Toggled(wins[k].state))
               \/ ClickBar(k)
               \/ ClickContent(k)

blockwm_handle_mouse ==
  /\ phase = "mouse"
  /\ phase' = "composite"
  /\ \/ DragMove
     \/ DragEnd
     \/ \E under \in SUBSET Visible : under # {} /\ Click(Hit(under))

-----------------------------------------------------------------------------
(* blockwm_composite: the bubble sort, then the drawing, which reads only. *)

Bubble(w, j) ==
  IF w[j].z > w[j + 1].z
    THEN [w EXCEPT ![j] = w[j + 1], ![j + 1] = w[j]] ELSE w

(* One run of the inner loop: n comparisons, from the first slot on.       *)
Pass(w, n) ==
  LET after[j \in 0 .. n] == IF j = 0 THEN w ELSE Bubble(after[j - 1], j)
  IN  after[n]

BubbleSort(w) ==
  LET N == IF w = << >> THEN 0 ELSE Len(w) - 1
      after[i \in 0 .. N] == IF i = 0 THEN w ELSE Pass(after[i - 1], Len(w) - i)
  IN  after[N]

blockwm_composite == /\ phase = "composite"
                     /\ phase' = "mouse"
                     /\ wins' = BubbleSort(wins)
                     /\ UNCHANGED <<focused, drag, clicked>>

Next == \/ \E t \in Title : blockwm_create_window(t)
        \/ blockwm_handle_mouse
        \/ blockwm_composite

Spec == Init /\ [][Next]_vars

-----------------------------------------------------------------------------
(* The window in slot k, such as the one drag_window names.                *)
At(k) == IF k \in Slots THEN wins[k].title ELSE NONE

(* As long as a window is open one has the focus, through every shift of   *)
(* the array by a close (line 114): blockwm_get_focused is never NULL.  A  *)
(* drag never names a slot without a window, which blockwm_move_window     *)
(* would write through.                                                    *)
SomeWindowFocused == /\ focused <= Len(wins)
                     /\ wins # << >> => focused > 0
                     /\ drag <= Len(wins)

(* Closing and sorting move windows between slots and never lose or double *)
(* one: a window goes away only when the user clicks it.                   *)
OnlyTheClickedCloses ==
  [][/\ \A t \in Titles : t \notin Titles' => clicked' = t
     /\ Cardinality(Titles') = Len(wins')]_vars

(* "Bring to front" (line 124) does: after the next composite the window   *)
(* the user clicked last is drawn over all others, whatever else was       *)
(* clicked, closed, minimised or opened before.                            *)
ClickedInFront ==
  phase = "mouse" /\ clicked \in Titles => At(Len(wins)) = clicked

(* The slot of k in the stable order by z: the lower ones, and the equal   *)
(* ones that stand before it, come first.                                  *)
Rank(w, k) == Cardinality({j \in DOMAIN w : \/ w[j].z < w[k].z
                                            \/ w[j].z = w[k].z /\ j <= k})

(* The picture is in z order, and windows of equal z keep their order, so  *)
(* that two of them do not change places from frame to frame.              *)
SortIsStable ==
  [][blockwm_composite => \A k \in Slots : wins'[Rank(wins, k)] = wins[k]]_vars

(* Through sorts, shifts and closes the windows stay the same windows.     *)
WindowsKept == OnlyTheClickedCloses /\ SortIsStable

(* "Start drag" (line 324): the window that moves is the one whose         *)
(* titlebar was grabbed, as long as the button is held.                    *)
DragMovesGrabbed == [][drag # 0 /\ drag' # 0 => At(drag)' = At(drag)]_vars
=============================================================================
