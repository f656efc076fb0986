--------------------------- MODULE DesktopProofs ---------------------------
(***************************************************************************)
(* What is proved of the parts that MCDesktop puts side by side.           *)
(*                                                                         *)
(* Of the window manager, for every set of windows, every size of the      *)
(* array and every bound of z_order: a window has the focus as long as one *)
(* is open, a window goes only when it is clicked, the compositor's sort   *)
(* is stable, and the window clicked last is in front.  Of the terminal,   *)
(* for every size of the screen and the window: the line shown is the line *)
(* typed, and output comes into view.  Of the context menu, for any number *)
(* and height of items: a click calls what is drawn under the pointer.  Of *)
(* the editor, for any number and length of lines: its keys edit a plain   *)
(* text.                                                                   *)
(*                                                                         *)
(* The compositor's bubble sort is taken apart into its comparisons: each  *)
(* keeps the array a rearrangement of what it was, in which windows of     *)
(* equal z have not passed each other, and each run of the inner loop puts *)
(* one more slot at the end of the array in order.                         *)
(***************************************************************************)
EXTENDS MCDesktop, RingFacts, FiniteSetTheorems, SequenceTheorems, TLAPS

(* The array elements.                                                     *)
Window == [title : Title, id : Nat, z : Nat, state : {"NORMAL", "MINIMIZED", "MAXIMIZED"}]

(* v holds the windows of w, o[i] being the slot in w of the one in slot i *)
(* of v, and those of equal z stand in the same order in both.             *)
Rearranges(o, w, v) ==
  /\ o \in [1 .. Len(w) -> 1 .. Len(w)]
  /\ \A i, j \in 1 .. Len(w) : o[i] = o[j] => i = j
  /\ \A k \in 1 .. Len(w) : \E i \in 1 .. Len(w) : o[i] = k
  /\ \A i \in 1 .. Len(w) : v[i] = w[o[i]]
  /\ \A i, j \in 1 .. Len(w) : i < j /\ v[i].z = v[j].z => o[i] < o[j]

Rearranged(w, v) == /\ v \in Seq(Window) /\ Len(v) = Len(w)
                    /\ \E o : Rearranges(o, w, v)

(* The slots beyond n are in order, and no window before them is higher.   *)
Ordered(v, m) == \A a, b \in 1 .. Len(v) : a < b /\ b > m => v[a].z <= v[b].z

(* The window in slot m is the highest so far.                             *)
Top(v, m) == \A a \in 1 .. m : v[a].z <= v[m].z

-----------------------------------------------------------------------------
(* One comparison.                                                         *)

(* The levels that are compared are numbers.                               *)
LEMMA LevelsAreNat ==
  ASSUME NEW v \in Seq(Window), NEW i \in 1 .. Len(v)
  PROVE  v[i] \in Window /\ v[i].z \in Nat
<1>1. v[i] \in Window
  OBVIOUS
<1> QED BY <1>1 DEF Window

(* Two neighbours change places if the first is higher, and nothing else.  *)
LEMMA BubbleIs ==
  ASSUME NEW v \in Seq(Window), NEW j \in 1 .. Len(v) - 1
  PROVE  LET u == Bubble(v, j)
         IN  /\ u \in Seq(Window) /\ Len(u) = Len(v)
             /\ \A i \in 1 .. Len(v) : i # j /\ i # j + 1 => u[i] = v[i]
             /\ \/ v[j].z <= v[j + 1].z /\ u[j] = v[j] /\ u[j + 1] = v[j + 1]
                \/ v[j].z > v[j + 1].z /\ u[j] = v[j + 1] /\ u[j + 1] = v[j]
<1>1. /\ Len(v) \in Nat /\ j \in 1 .. Len(v) /\ j + 1 \in 1 .. Len(v) /\ j # j + 1
      /\ v[j] \in Window /\ v[j + 1] \in Window
  OBVIOUS
<1>2. v[j].z \in Nat /\ v[j + 1].z \in Nat
  BY <1>1 DEF Window
<1>3. CASE v[j].z > v[j + 1].z
  <2>1. Bubble(v, j) = [v EXCEPT ![j] = v[j + 1], ![j + 1] = v[j]]
    BY <1>3 DEF Bubble
  <2> HIDE DEF Window
  <2> QED BY <1>1, <1>3, <2>1
<1>4. CASE ~(v[j].z > v[j + 1].z)
  <2>1. Bubble(v, j) = v
    BY <1>4 DEF Bubble
  <2> QED BY <1>1, <1>2, <1>4, <2>1
<1> QED BY <1>3, <1>4

(* A comparison loses no window, and lets none pass one of equal z.        *)
LEMMA BubbleRearranges ==
  ASSUME NEW w, NEW v, Rearranged(w, v), Len(w) \in Nat, NEW j \in 1 .. Len(w) - 1
  PROVE  Rearranged(w, Bubble(v, j))
<1> DEFINE L == Len(w)
           u == Bubble(v, j)
<1>1. v \in Seq(Window) /\ Len(v) = L /\ L \in Nat
  BY DEF Rearranged
<1>2. PICK o : Rearranges(o, w, v)
  BY DEF Rearranged
<1>3. /\ u \in Seq(Window) /\ Len(u) = L
      /\ \A i \in 1 .. L : i # j /\ i # j + 1 => u[i] = v[i]
      /\ \/ v[j].z <= v[j + 1].z /\ u[j] = v[j] /\ u[j + 1] = v[j + 1]
         \/ v[j].z > v[j + 1].z /\ u[j] = v[j + 1] /\ u[j + 1] = v[j]
  BY <1>1, BubbleIs
<1>4. j \in 1 .. L /\ j + 1 \in 1 .. L /\ j # j + 1 /\ j \in Nat
  BY <1>1
<1>5. \A i \in 1 .. L : v[i].z \in Nat
  BY <1>1, LevelsAreNat
<1> HIDE DEF u, L
<1>6. CASE v[j].z <= v[j + 1].z /\ u[j] = v[j] /\ u[j + 1] = v[j + 1]
  <2>1. \A i \in 1 .. L : u[i] = v[i]
    BY <1>3, <1>6
  <2>2. Rearranges(o, w, u)
    BY <1>2, <2>1 DEF Rearranges, L
  <2> QED BY <1>3, <2>2 DEF Rearranged, u, L
<1>7. CASE v[j].z > v[j + 1].z /\ u[j] = v[j + 1] /\ u[j + 1] = v[j]
  <2> DEFINE turn == [i \in 1 .. L |-> IF i = j THEN j + 1 ELSE IF i = j + 1 THEN j ELSE i]
             q == [i \in 1 .. L |-> o[turn[i]]]
  <2>1. /\ turn \in [1 .. L -> 1 .. L]
        /\ \A i \in 1 .. L : turn[turn[i]] = i
    BY <1>4
  <2>2. \A i \in 1 .. L : u[i] = v[turn[i]]
    BY <1>3, <1>4, <1>7
  <2>3. \A i, k \in 1 .. L : i < k => turn[i] < turn[k] \/ (i = j /\ k = j + 1)
    BY <1>1, <1>4
  <2> HIDE DEF turn
  <2>4. q \in [1 .. L -> 1 .. L]
    BY <1>2, <2>1 DEF Rearranges, L
  <2>5. \A i, k \in 1 .. L : q[i] = q[k] => i = k
    <3> SUFFICES ASSUME NEW i \in 1 .. L, NEW k \in 1 .. L, q[i] = q[k]
                 PROVE  i = k
      OBVIOUS
    <3>1. \A x, x2 \in 1 .. L : o[x] = o[x2] => x = x2
      BY <1>2 DEF Rearranges, L
    <3>2. turn[i] \in 1 .. L /\ turn[k] \in 1 .. L /\ o[turn[i]] = o[turn[k]]
      BY <2>1
    <3>3. turn[i] = turn[k]
      BY <3>1, <3>2
    <3> QED BY <2>1, <3>3
  <2>6. \A k \in 1 .. L : \E i \in 1 .. L : q[i] = k
    <3> SUFFICES ASSUME NEW k \in 1 .. L
                 PROVE  \E i \in 1 .. L : q[i] = k
      OBVIOUS
    <3>1. PICK i \in 1 .. L : o[i] = k
      BY <1>2 DEF Rearranges, L
    <3>2. turn[i] \in 1 .. L /\ q[turn[i]] = k
      BY <2>1, <3>1
    <3> QED BY <3>2
  <2>7. \A i \in 1 .. L : u[i] = w[q[i]]
    BY <1>2, <2>1, <2>2 DEF Rearranges, L
  <2>8. \A i, k \in 1 .. L : i < k /\ u[i].z = u[k].z => q[i] < q[k]
    <3> SUFFICES ASSUME NEW i \in 1 .. L, NEW k \in 1 .. L, i < k, u[i].z = u[k].z
                 PROVE  q[i] < q[k]
      OBVIOUS
    <3>1. ~(i = j /\ k = j + 1)
      BY <1>4, <1>5, <1>7
    <3>2. turn[i] < turn[k]
      BY <2>3, <3>1
    <3>3. v[turn[i]].z = v[turn[k]].z
      BY <2>2
    <3> QED BY <1>2, <2>1, <3>2, <3>3 DEF Rearranges, L
  <2>9. Rearranges(q, w, u)
    <3> HIDE DEF q
    <3> QED BY <2>4, <2>5, <2>6, <2>7, <2>8 DEF Rearranges, L
  <2> QED BY <1>3, <2>9 DEF Rearranged, u, L
<1> QED BY <1>3, <1>6, <1>7

(* A comparison below slot m leaves the slots beyond m in order.           *)
LEMMA BubbleKeepsOrder ==
  ASSUME NEW v \in Seq(Window), NEW j \in 1 .. Len(v) - 1, NEW m \in Nat, j + 1 <= m,
         Ordered(v, m)
  PROVE  Ordered(Bubble(v, j), m)
<1> DEFINE u == Bubble(v, j)
<1>1. /\ u \in Seq(Window) /\ Len(u) = Len(v)
      /\ \A i \in 1 .. Len(v) : i # j /\ i # j + 1 => u[i] = v[i]
      /\ \/ u[j] = v[j] /\ u[j + 1] = v[j + 1]
         \/ u[j] = v[j + 1] /\ u[j + 1] = v[j]
  BY BubbleIs
<1> HIDE DEF u
<1> SUFFICES ASSUME NEW a \in 1 .. Len(v), NEW b \in 1 .. Len(v), a < b, b > m
             PROVE  u[a].z <= u[b].z
  BY <1>1 DEF Ordered, u
<1>2. u[b] = v[b] /\ j \in 1 .. Len(v) /\ j + 1 \in 1 .. Len(v) /\ j < b /\ j + 1 < b
  BY <1>1
<1>3. /\ v[a].z <= v[b].z /\ v[j].z <= v[b].z /\ v[j + 1].z <= v[b].z
  BY <1>2 DEF Ordered
<1> QED BY <1>1, <1>2, <1>3

(* A comparison carries the highest window so far one slot further.        *)
LEMMA BubbleLifts ==
  ASSUME NEW v \in Seq(Window), NEW j \in 1 .. Len(v) - 1, Top(v, j)
  PROVE  Top(Bubble(v, j), j + 1)
<1> DEFINE u == Bubble(v, j)
<1>1. /\ \A i \in 1 .. Len(v) : i # j /\ i # j + 1 => u[i] = v[i]
      /\ \/ v[j].z <= v[j + 1].z /\ u[j] = v[j] /\ u[j + 1] = v[j + 1]
         \/ v[j].z > v[j + 1].z /\ u[j] = v[j + 1] /\ u[j + 1] = v[j]
  BY BubbleIs
<1>2. \A i \in 1 .. Len(v) : v[i].z \in Nat
  BY LevelsAreNat
<1>3. j \in 1 .. Len(v) /\ j + 1 \in 1 .. Len(v)
  OBVIOUS
<1> HIDE DEF u
<1> SUFFICES ASSUME NEW a \in 1 .. j + 1
             PROVE  u[a].z <= u[j + 1].z
  BY DEF Top, u
<1>4. CASE a \in 1 .. j - 1
  <2>4. a \in 1 .. Len(v) /\ a # j /\ a # j + 1 /\ a \in 1 .. j
    BY <1>3, <1>4
  <2>5. v[a].z <= v[j].z
    BY <2>4, Zenon DEF Top
  <2>6. u[a] = v[a] /\ v[a].z \in Nat
    BY <1>1, <1>2, <2>4, Zenon
  <2>1. u[a] = v[a] /\ v[a].z <= v[j].z /\ v[a].z \in Nat
    BY <2>5, <2>6
  <2>2. v[j].z \in Nat /\ v[j + 1].z \in Nat
    BY <1>2, <1>3
  <2>3. v[j].z <= u[j + 1].z
    BY <1>1, <2>2
  <2> QED BY <1>1, <2>1, <2>2, <2>3
<1>5. CASE a = j
  BY <1>1, <1>2, <1>3, <1>5
<1>6. CASE a = j + 1
  BY <1>1, <1>2, <1>3, <1>6
<1> QED BY <1>4, <1>5, <1>6
-----------------------------------------------------------------------------
(* The two loops.                                                          *)

(* The inner loop compares slot after slot.                                *)
LEMMA PassRuns ==
  ASSUME NEW v \in Seq(Window), NEW m \in 0 .. Len(v) - 1
  PROVE  \E g : /\ g[0] = v
                /\ \A j \in 1 .. m : g[j] = Bubble(g[j - 1], j)
                /\ \A j \in 0 .. m : g[j] \in Seq(Window) /\ Len(g[j]) = Len(v)
                /\ Pass(v, m) = g[m]
<1> DEFINE S == {u \in Seq(Window) : Len(u) = Len(v)}
           F == [x \in S \X (1 .. m) |-> Bubble(x[1], x[2])]
           Loop(f) == [j \in 0 .. m |-> IF j = 0 THEN v ELSE Bubble(f[j - 1], j)]
           after == CHOOSE f : f = Loop(f)
<1>1. m \in Nat /\ v \in S /\ Len(v) \in Nat
  OBVIOUS
<1>2. \A u \in S, j \in 1 .. m : Bubble(u, j) \in S
  <2> SUFFICES ASSUME NEW u \in S, NEW j \in 1 .. m
               PROVE  Bubble(u, j) \in S
    OBVIOUS
  <2>1. u \in Seq(Window) /\ j \in 1 .. Len(u) - 1 /\ Len(u) = Len(v)
    BY <1>1
  <2> QED BY <2>1, BubbleIs
<1>3. F \in [S \X (1 .. m) -> S]
  BY <1>2
<1> HIDE DEF S
<1>4. PICK g : IsLoop(g, m, S, v, F)
  <2> HIDE DEF F
  <2> QED BY <1>1, <1>3, LoopExists
<1>5. /\ g \in [0 .. m -> S] /\ g[0] = v
      /\ \A j \in 1 .. m : g[j] = Bubble(g[j - 1], j)
  <2>1. /\ g \in [0 .. m -> S] /\ g[0] = v
        /\ \A j \in 1 .. m : g[j] = F[<<g[j - 1], j>>]
    <3> HIDE DEF F
    <3> QED BY <1>4 DEF IsLoop
  <2>2. ASSUME NEW j \in 1 .. m
        PROVE  F[<<g[j - 1], j>>] = Bubble(g[j - 1], j)
    <3>1. j - 1 \in 0 .. m
      BY <1>1
    <3>2. <<g[j - 1], j>> \in S \X (1 .. m)
      BY <2>1, <3>1
    <3> QED BY <3>2
  <2> HIDE DEF F
  <2> QED BY <2>1, <2>2
<1>6. g = Loop(g)
  <2>1. \A j \in 0 .. m : g[j] = Loop(g)[j]
    BY <1>1, <1>5
  <2>2. g = [j \in 0 .. m |-> g[j]]
    BY <1>5
  <2> HIDE DEF Loop
  <2>3. Loop(g) = [j \in 0 .. m |-> Loop(g)[j]]
    BY DEF Loop
  <2> QED BY <2>1, <2>2, <2>3, Zenon
<1>7. after = Loop(after)
  BY <1>6
<1>8. Pass(v, m) = after[m]
  BY DEF Pass
<1> HIDE DEF after
<1>9. after[0] = v /\ \A j \in 1 .. m : after[j] = Bubble(after[j - 1], j)
  <2>1. \A j \in 0 .. m : after[j] = Loop(after)[j]
    BY <1>7
  <2> QED BY <1>1, <2>1
<1>10. \A j \in 0 .. m : after[j] \in S
  <2>1. \A j \in 1 .. m : after[j - 1] \in S => after[j] \in S
    BY <1>2, <1>9
  <2> QED BY <1>1, <1>9, <2>1, LoopInvariant
<1> QED BY <1>8, <1>9, <1>10 DEF S

(* It keeps what is in order beyond its end, and puts one more slot there. *)
LEMMA PassOrders ==
  ASSUME NEW w, NEW v, Rearranged(w, v), NEW m \in 0 .. Len(v) - 1, Ordered(v, m + 1)
  PROVE  Rearranged(w, Pass(v, m)) /\ Ordered(Pass(v, m), m)
<1> DEFINE L == Len(v)
<1>1. v \in Seq(Window) /\ L \in Nat /\ L = Len(w) /\ m \in Nat /\ m < L
  BY DEF Rearranged
<1>2. PICK g : /\ g[0] = v
               /\ \A j \in 1 .. m : g[j] = Bubble(g[j - 1], j)
               /\ \A j \in 0 .. m : g[j] \in Seq(Window) /\ Len(g[j]) = L
               /\ Pass(v, m) = g[m]
  BY <1>1, PassRuns
<1> DEFINE Ok == {j \in 0 .. m : /\ Rearranged(w, g[j])
                                 /\ Ordered(g[j], m + 1)
                                 /\ Top(g[j], j + 1)}
           id == [j \in 0 .. m |-> j]
<1>3. \A j \in 0 .. m : id[j] = j
  OBVIOUS
<1>4. id[0] \in Ok
  <2>1. v[1].z \in Nat
    BY <1>1, LevelsAreNat
  <2>2. Top(v, 1)
    BY <2>1 DEF Top
  <2> QED BY <1>1, <1>2, <2>2
<1>5. \A j \in 1 .. m : id[j - 1] \in Ok => id[j] \in Ok
  <2> SUFFICES ASSUME NEW j \in 1 .. m, j - 1 \in Ok
               PROVE  j \in Ok
    BY <1>1
  <2> DEFINE u == g[j - 1]
  <2>1. /\ Rearranged(w, u) /\ Ordered(u, m + 1) /\ Top(u, j)
        /\ u \in Seq(Window) /\ Len(u) = L /\ g[j] = Bubble(u, j)
    <3>1. j - 1 \in 0 .. m /\ j - 1 + 1 = j
      BY <1>1
    <3> QED BY <1>2, <3>1
  <2>2. j \in 1 .. L - 1 /\ j \in 0 .. m /\ m + 1 \in Nat /\ j + 1 <= m + 1
    BY <1>1
  <2> HIDE DEF u, L
  <2>3. Rearranged(w, g[j])
    BY <1>1, <2>1, <2>2, BubbleRearranges
  <2>4. Ordered(g[j], m + 1)
    BY <2>1, <2>2, BubbleKeepsOrder
  <2>5. Top(g[j], j + 1)
    BY <2>1, <2>2, BubbleLifts
  <2> QED BY <2>2, <2>3, <2>4, <2>5
<1> HIDE DEF Ok, id, L
<1>6. m \in Ok
  <2>1. \A j \in 0 .. m : id[j] \in Ok
    BY <1>1, <1>4, <1>5, LoopInvariant
  <2> QED BY <1>1, <1>3, <2>1
<1>7. Rearranged(w, g[m]) /\ Ordered(g[m], m + 1) /\ Top(g[m], m + 1) /\ Len(g[m]) = L
  BY <1>1, <1>2, <1>6 DEF Ok
<1>8. Ordered(g[m], m)
  <2> SUFFICES ASSUME NEW a \in 1 .. L, NEW b \in 1 .. L, a < b, b > m
               PROVE  g[m][a].z <= g[m][b].z
    BY <1>7 DEF Ordered
  <2>1. CASE b = m + 1
    <3>1. a \in 1 .. m + 1
      BY <1>1, <2>1
    <3> QED BY <1>7, <2>1, <3>1 DEF Top
  <2>2. CASE b > m + 1
    BY <1>7, <2>2 DEF Ordered
  <2> QED BY <1>1, <2>1, <2>2
<1> QED BY <1>2, <1>7, <1>8
(* The outer loop sorts: it keeps every window, puts none before a lower   *)
(* one, and lets none pass one of equal z.                                 *)
LEMMA SortOrders ==
  ASSUME NEW w \in Seq(Window)
  PROVE  Rearranged(w, BubbleSort(w)) /\ Ordered(BubbleSort(w), 1)
<1> DEFINE L == Len(w)
           N == IF w = << >> THEN 0 ELSE L - 1
           S == {u \in Seq(Window) : Len(u) = L}
           F == [x \in S \X (1 .. N) |-> Pass(x[1], L - x[2])]
           Loop(f) == [i \in 0 .. N |-> IF i = 0 THEN w ELSE Pass(f[i - 1], L - i)]
           after == CHOOSE f : f = Loop(f)
<1>1. L \in Nat /\ N \in Nat /\ N <= L /\ (L = 0 => N = 0) /\ (L > 0 => N = L - 1) /\ w \in S
  <2>1. CASE w = << >>
    BY <2>1
  <2>2. CASE w # << >>
    <3>1. L \in Nat \ {0}
      BY <2>2
    <3> QED BY <2>2, <3>1
  <2> QED BY <2>1, <2>2
<1>2. BubbleSort(w) = after[N]
  BY DEF BubbleSort
<1> HIDE DEF N
<1>3. \A i \in 1 .. N : L - i \in 0 .. L - 1
  <2> HIDE DEF L
  <2> QED BY <1>1
<1>4. \A u \in S, i \in 1 .. N : Pass(u, L - i) \in S
  <2> SUFFICES ASSUME NEW u \in S, NEW i \in 1 .. N
               PROVE  Pass(u, L - i) \in S
    OBVIOUS
  <2>1. PICK m : m = L - i
    OBVIOUS
  <2>2. u \in Seq(Window) /\ m \in 0 .. Len(u) - 1 /\ Len(u) = L /\ m \in 0 .. m
    BY <1>1, <1>3, <2>1
  <2>3. PICK g : /\ g[0] = u
                 /\ \A j \in 1 .. m : g[j] = Bubble(g[j - 1], j)
                 /\ \A j \in 0 .. m : g[j] \in Seq(Window) /\ Len(g[j]) = Len(u)
                 /\ Pass(u, m) = g[m]
    BY <2>2, PassRuns
  <2> QED BY <2>1, <2>2, <2>3
<1>5. F \in [S \X (1 .. N) -> S]
  BY <1>4
<1> HIDE DEF S
<1>6. PICK g : IsLoop(g, N, S, w, F)
  <2> HIDE DEF F
  <2> QED BY <1>1, <1>5, LoopExists
<1>7. /\ g \in [0 .. N -> S] /\ g[0] = w
      /\ \A i \in 1 .. N : g[i] = Pass(g[i - 1], L - i)
  <2>1. /\ g \in [0 .. N -> S] /\ g[0] = w
        /\ \A i \in 1 .. N : g[i] = F[<<g[i - 1], i>>]
    <3> HIDE DEF F
    <3> QED BY <1>6 DEF IsLoop
  <2>2. ASSUME NEW i \in 1 .. N
        PROVE  F[<<g[i - 1], i>>] = Pass(g[i - 1], L - i)
    <3>1. i - 1 \in 0 .. N
      BY <1>1
    <3>2. <<g[i - 1], i>> \in S \X (1 .. N)
      BY <2>1, <3>1
    <3> QED BY <3>2
  <2> HIDE DEF F
  <2> QED BY <2>1, <2>2
<1>8. g = Loop(g)
  <2>1. \A i \in 0 .. N : g[i] = Loop(g)[i]
    BY <1>1, <1>7
  <2>2. g = [i \in 0 .. N |-> g[i]]
    BY <1>7
  <2> HIDE DEF Loop
  <2>3. Loop(g) = [i \in 0 .. N |-> Loop(g)[i]]
    BY DEF Loop
  <2> QED BY <2>1, <2>2, <2>3, Zenon
<1>9. after = Loop(after)
  BY <1>8
<1> HIDE DEF after
<1>10. after[0] = w /\ \A i \in 1 .. N : after[i] = Pass(after[i - 1], L - i)
  <2>1. \A i \in 0 .. N : after[i] = Loop(after)[i]
    BY <1>9
  <2> QED BY <1>1, <2>1
<1> DEFINE Ok == {i \in 0 .. N : Rearranged(w, after[i]) /\ Ordered(after[i], L - i)}
           id == [i \in 0 .. N |-> i]
<1>11. \A i \in 0 .. N : id[i] = i
  OBVIOUS
<1>12. id[0] \in Ok
  <2>1. Rearranged(w, w)
    <3> DEFINE o == [i \in 1 .. Len(w) |-> i]
    <3>1. Rearranges(o, w, w)
      BY DEF Rearranges
    <3> QED BY <3>1 DEF Rearranged
  <2>2. Ordered(w, L - 0)
    BY <1>1 DEF Ordered
  <2> QED BY <1>1, <1>10, <2>1, <2>2
<1>13. \A i \in 1 .. N : id[i - 1] \in Ok => id[i] \in Ok
  <2> SUFFICES ASSUME NEW i \in 1 .. N, i - 1 \in Ok
               PROVE  i \in Ok
    BY <1>1
  <2>1. PICK m, u : m = L - i /\ u = after[i - 1]
    OBVIOUS
  <2>2. Rearranged(w, u) /\ Ordered(u, L - (i - 1))
    BY <2>1
  <2>3. Len(u) = L
    BY <2>2 DEF Rearranged
  <2>4. m \in 0 .. Len(u) - 1 /\ L - (i - 1) = m + 1
    BY <1>1, <1>3, <2>1, <2>3
  <2>5. Rearranged(w, Pass(u, m)) /\ Ordered(Pass(u, m), m)
    <3>1. Ordered(u, m + 1)
      BY <2>2, <2>4
    <3> QED BY <2>2, <2>4, <3>1, PassOrders
  <2>6. after[i] = Pass(u, m)
    BY <1>10, <2>1
  <2> QED BY <1>1, <2>1, <2>5, <2>6
<1> HIDE DEF Ok, id, L
<1>14. N \in Ok
  <2>1. \A i \in 0 .. N : id[i] \in Ok
    BY <1>1, <1>12, <1>13, LoopInvariant
  <2> QED BY <1>1, <1>11, <2>1
<1>15. Rearranged(w, after[N]) /\ Ordered(after[N], L - N)
  BY <1>14 DEF Ok
<1>16. Ordered(after[N], 1)
  <2>1. Len(after[N]) = L
    BY <1>15 DEF Rearranged, L
  <2>2. CASE L > 0
    BY <1>1, <1>15, <2>2
  <2>3. CASE L = 0
    BY <2>1, <2>3 DEF Ordered
  <2> QED BY <1>1, <2>2, <2>3
<1> QED BY <1>2, <1>15, <1>16

(* A window is sorted to the slot of its rank.                             *)
LEMMA RankIsSlot ==
  ASSUME NEW w \in Seq(Window), NEW v, Rearranged(w, v), Ordered(v, 1),
         NEW k \in 1 .. Len(w)
  PROVE  Rank(w, k) \in 1 .. Len(w) /\ v[Rank(w, k)] = w[k]
<1> DEFINE L == Len(w)
           R == {j \in DOMAIN w : \/ w[j].z < w[k].z
                                  \/ w[j].z = w[k].z /\ j <= k}
<1>1. L \in Nat /\ DOMAIN w = 1 .. L /\ v \in Seq(Window) /\ Len(v) = L
  BY DEF Rearranged
<1>2. PICK o : Rearranges(o, w, v)
  BY DEF Rearranged
<1>3. PICK i \in 1 .. L : o[i] = k
  BY <1>2 DEF Rearranges
<1>4. /\ o \in [1 .. L -> 1 .. L]
      /\ \A a, b \in 1 .. L : o[a] = o[b] => a = b
      /\ \A j \in 1 .. L : \E a \in 1 .. L : o[a] = j
      /\ \A a \in 1 .. L : v[a] = w[o[a]]
      /\ \A a, b \in 1 .. L : a < b /\ v[a].z = v[b].z => o[a] < o[b]
  BY <1>2 DEF Rearranges
<1>5. \A a \in 1 .. L : v[a].z \in Nat
  BY <1>1, LevelsAreNat
<1>6. \A a, b \in 1 .. L : a < b => v[a].z <= v[b].z
  BY <1>1 DEF Ordered
<1> DEFINE q == [a \in 1 .. i |-> o[a]]
<1>7. \A a \in 1 .. i : o[a] \in R
  <2> SUFFICES ASSUME NEW a \in 1 .. i
               PROVE  o[a] \in R
    OBVIOUS
  <2>1. a \in 1 .. L /\ o[a] \in 1 .. L /\ v[a] = w[o[a]] /\ v[i] = w[k]
    <3>1. a \in 1 .. L
      BY <1>1, <1>3
    <3> HIDE DEF R, q
    <3> QED BY <1>3, <1>4, <3>1
  <2>2. CASE a = i
    BY <1>1, <1>3, <2>1, <2>2
  <2>3. CASE a < i
    <3>1. v[a].z <= v[i].z /\ v[a].z \in Nat /\ v[i].z \in Nat
      BY <1>5, <1>6, <2>1, <2>3
    <3>2. v[a].z = v[i].z => o[a] < k
      BY <1>3, <1>4, <2>1, <2>3
    <3> QED BY <1>1, <2>1, <3>1, <3>2
  <2> QED BY <2>2, <2>3
<1>8. \A j \in R : \E a \in 1 .. i : o[a] = j
  <2> SUFFICES ASSUME NEW j \in R
               PROVE  \E a \in 1 .. i : o[a] = j
    OBVIOUS
  <2>1. PICK a \in 1 .. L : o[a] = j
    BY <1>1, <1>4
  <2>2. v[a] = w[j] /\ v[i] = w[k] /\ v[a].z \in Nat /\ v[i].z \in Nat
    BY <1>3, <1>4, <1>5, <2>1
  <2>3. ~(i < a)
    <3> SUFFICES ASSUME i < a
                 PROVE  FALSE
      OBVIOUS
    <3>1. v[i].z <= v[a].z
      BY <1>6
    <3>2. v[i].z = v[a].z /\ j <= k
      BY <2>2, <3>1
    <3>3. k < j
      BY <1>3, <1>4, <2>1, <3>2
    <3> QED BY <1>1, <3>2, <3>3
  <2> QED BY <1>1, <2>1, <2>3
<1>9. q \in Bijection(1 .. i, R)
  <2>1. q \in [1 .. i -> R]
    BY <1>7
  <2>2. \A a, b \in 1 .. i : q[a] = q[b] => a = b
    <3> SUFFICES ASSUME NEW a \in 1 .. i, NEW b \in 1 .. i, q[a] = q[b]
                 PROVE  a = b
      OBVIOUS
    <3>1. a \in 1 .. L /\ b \in 1 .. L /\ o[a] = o[b]
      BY <1>1
    <3> QED BY <1>4, <3>1
  <2>3. \A j \in R : \E a \in 1 .. i : q[a] = j
    BY <1>8
  <2> HIDE DEF q, R
  <2>4. q \in Injection(1 .. i, R)
    BY <2>1, <2>2 DEF Injection, IsInjective
  <2>5. q \in Surjection(1 .. i, R)
    BY <2>1, <2>3 DEF Surjection
  <2> QED BY <2>4, <2>5 DEF Bijection
<1> HIDE DEF q, R
<1>10. IsFiniteSet(1 .. i) /\ Cardinality(1 .. i) = i
  BY <1>1, FS_Interval
<1>11. ExistsBijection(1 .. i, R)
  BY <1>9 DEF ExistsBijection
<1>12. Cardinality(R) = i
  BY <1>10, <1>11, FS_Bijection
<1>13. Rank(w, k) = i
  BY <1>12 DEF Rank, R
<1> QED BY <1>3, <1>4, <1>13
-----------------------------------------------------------------------------
(* The other changes of the array.                                         *)

(* blockwm_focus_window's scan finds a bound of the levels.                *)
LEMMA HighestIs ==
  ASSUME NEW w \in Seq(Window)
  PROVE  Highest(w) \in Nat /\ \A i \in 1 .. Len(w) : w[i].z <= Highest(w)
<1> DEFINE L == Len(w)
           Z == {0} \cup {w[i].z : i \in DOMAIN w}
           Ok == {m \in 0 .. L : \E b \in Nat : \A i \in 1 .. m : w[i].z <= b}
           id == [m \in 0 .. L |-> m]
<1>1. L \in Nat /\ DOMAIN w = 1 .. L
  OBVIOUS
<1>2. \A i \in 1 .. L : w[i].z \in Nat
  BY LevelsAreNat
<1> HIDE DEF L
<1>3. id[0] \in Ok
  BY <1>1
<1>4. \A m \in 1 .. L : id[m - 1] \in Ok => id[m] \in Ok
  <2> SUFFICES ASSUME NEW m \in 1 .. L, m - 1 \in Ok
               PROVE  m \in Ok
    <3>1. \A m \in 1 .. L : id[m - 1] = m - 1 /\ id[m] = m
      BY <1>1
    <3> HIDE DEF id, Ok
    <3> QED BY <3>1
  <2>1. PICK b \in Nat : \A i \in 1 .. m - 1 : w[i].z <= b
    OBVIOUS
  <2>2. w[m].z \in Nat /\ m \in 0 .. L
    BY <1>1, <1>2
  <2> DEFINE c == IF b < w[m].z THEN w[m].z ELSE b
  <2>3. c \in Nat /\ b <= c /\ w[m].z <= c
    BY <2>2
  <2> HIDE DEF c
  <2>4. \A i \in 1 .. m : w[i].z <= c
    <3> SUFFICES ASSUME NEW i \in 1 .. m
                 PROVE  w[i].z <= c
      OBVIOUS
    <3>1. CASE i = m
      BY <2>3, <3>1
    <3>2. CASE i # m
      <4>1. i \in 1 .. m - 1 /\ i \in 1 .. L
        BY <1>1, <3>2
      <4> QED BY <1>2, <2>1, <2>3, <4>1
    <3> QED BY <3>1, <3>2
  <2> QED BY <2>2, <2>3, <2>4
<1> HIDE DEF Ok
<1>5. L \in Ok
  <2>1. \A m \in 0 .. L : id[m] \in Ok
    BY <1>1, <1>3, <1>4, LoopInvariant
  <2> QED BY <1>1, <2>1
<1>6. PICK b \in Nat : \A i \in 1 .. L : w[i].z <= b
  BY <1>5 DEF Ok
<1>7. Z \in SUBSET Nat /\ Z # {} /\ \A k \in Z : k <= b
  BY <1>1, <1>2, <1>6
<1>8. \A i \in 1 .. L : w[i].z \in Z
  BY <1>1
<1>9. Highest(w) = Max(Z)
  BY DEF Highest
<1> HIDE DEF Z
<1>10. \E x \in Z : \A k \in Z : x >= k
  BY <1>7, GreatestExists
<1>11. Max(Z) \in Z /\ \A k \in Z : Max(Z) >= k
  BY <1>10 DEF Max
<1> QED BY <1>2, <1>7, <1>8, <1>9, <1>11 DEF L

(* The window that is raised passes all others.                            *)
LEMMA RaisedIs ==
  ASSUME NEW w \in Seq(Window), NEW k \in 1 .. Len(w)
  PROVE  LET u == Raised(w, k)
         IN  /\ u \in Seq(Window) /\ Len(u) = Len(w)
             /\ \A i \in 1 .. Len(w) : u[i].title = w[i].title
             /\ \A i \in 1 .. Len(w) : i # k => u[i].z < u[k].z
<1> DEFINE top == Highest(w) + 1
           win == [w[k] EXCEPT !.z = top]
           u == Raised(w, k)
<1>1. Highest(w) \in Nat /\ \A i \in 1 .. Len(w) : w[i].z <= Highest(w) /\ w[i].z \in Nat
  BY HighestIs, LevelsAreNat
<1>2. w[k] \in Window /\ top \in Nat /\ \A i \in 1 .. Len(w) : w[i].z < top
  BY <1>1
<1>3. u = [w EXCEPT ![k] = win]
  BY DEF Raised
<1> HIDE DEF top
<1>4. win \in Window /\ win.z = top /\ win.title = w[k].title
  BY <1>2 DEF Window
<1> HIDE DEF u, win
<1>5. u \in Seq(Window) /\ Len(u) = Len(w) /\ u[k] = win
      /\ \A i \in 1 .. Len(w) : i # k => u[i] = w[i]
  <2> HIDE DEF Window
  <2> QED BY <1>3, <1>4
<1>6. \A i \in 1 .. Len(w) : i # k => u[i].z < u[k].z
  BY <1>2, <1>4, <1>5
<1>7. \A i \in 1 .. Len(w) : u[i].title = w[i].title
  BY <1>4, <1>5
<1> QED BY <1>5, <1>6, <1>7 DEF u

(* The windows behind the one that is removed move down by one slot.       *)
LEMMA RemovedIs ==
  ASSUME NEW w \in Seq(Window), NEW k \in 1 .. Len(w)
  PROVE  LET u == Removed(w, k)
         IN  /\ u \in Seq(Window) /\ Len(u) = Len(w) - 1
             /\ \A i \in 1 .. Len(w) - 1 : u[i] = IF i < k THEN w[i] ELSE w[i + 1]
<1> DEFINE u == Removed(w, k)
<1>1. Len(w) - 1 \in Nat /\ \A i \in 1 .. Len(w) : w[i] \in Window
  OBVIOUS
<1>2. u = [i \in 1 .. Len(w) - 1 |-> IF i < k THEN w[i] ELSE w[i + 1]]
  BY DEF Removed
<1>3. \A i \in 1 .. Len(w) - 1 : i \in 1 .. Len(w) /\ i + 1 \in 1 .. Len(w)
  OBVIOUS
<1> HIDE DEF u
<1>4. u = [i \in 1 .. Len(w) - 1 |-> u[i]] /\ \A i \in 1 .. Len(w) - 1 : u[i] \in Window
  BY <1>1, <1>2, <1>3
<1>5. u \in Seq(Window) /\ Len(u) = Len(w) - 1
  <2> HIDE DEF Window
  <2> QED BY <1>1, <1>4
<1> QED BY <1>2, <1>5 DEF u
-----------------------------------------------------------------------------
(* The invariant.                                                          *)

Typed == /\ wins \in Seq(Window)
         /\ focused \in Nat /\ drag \in Nat
         /\ phase \in {"mouse", "composite"}
         /\ clicked \in Title \cup {NONE}

Distinct == \A i, j \in Slots : wins[i].title = wins[j].title => i = j

(* The window clicked last is above all others, by its level at once, and  *)
(* in the array as soon as it has been sorted.                             *)
ClickedHighest == \A k \in Slots : wins[k].title = clicked =>
                    /\ \A j \in Slots : j # k => wins[j].z < wins[k].z
                    /\ phase = "mouse" => k = Len(wins)

Inv == Typed /\ Distinct /\ SomeWindowFocused /\ ClickedHighest

LEMMA InvInit == Init => Inv
<1> SUFFICES ASSUME Init
             PROVE  Inv
  OBVIOUS
<1>1. Slots = {} /\ wins \in Seq(Window) /\ Len(wins) = 0
  BY DEF Init, Slots
<1> QED BY <1>1 DEF Init, Inv, Typed, Distinct, SomeWindowFocused, ClickedHighest

(* A new window has a title nobody has, and nothing counts as clicked.     *)
LEMMA CreateKeepsInv ==
  ASSUME NoneAssumption, Inv, NEW t \in Title, blockwm_create_window(t)
  PROVE  Inv'
<1> DEFINE L == Len(wins)
           win == [title |-> t, id |-> L + 1, z |-> L + 1, state |-> "NORMAL"]
<1>1. /\ wins \in Seq(Window) /\ L \in Nat /\ focused <= L /\ drag <= L
      /\ focused \in Nat /\ drag \in Nat /\ Slots = 1 .. L
  BY DEF Inv, Typed, SomeWindowFocused, Slots
<1>2. /\ t \notin Titles /\ wins' = Append(wins, win) /\ focused' = L + 1
      /\ clicked' = NONE /\ drag' = drag /\ phase' = phase
  BY DEF blockwm_create_window
<1>3. win \in Window
  BY <1>1 DEF Window
<1>4. win.title = t
  OBVIOUS
<1> HIDE DEF win
<1>5. /\ wins' \in Seq(Window) /\ Len(wins') = L + 1 /\ wins'[L + 1] = win
      /\ \A i \in 1 .. L : wins'[i] = wins[i]
  <2> HIDE DEF Window
  <2> QED BY <1>1, <1>2, <1>3
<1> HIDE DEF L
<1>6. Typed'
  BY <1>1, <1>2, <1>5 DEF Inv, Typed
<1>7. \A i \in 1 .. L : wins[i].title # t
  BY <1>1, <1>2 DEF Titles
<1>8. Distinct'
  <2> SUFFICES ASSUME NEW i \in 1 .. L + 1, NEW j \in 1 .. L + 1,
                      wins'[i].title = wins'[j].title
               PROVE  i = j
    BY <1>5 DEF Distinct, Slots
  <2>1. (i \in 1 .. L \/ i = L + 1) /\ (j \in 1 .. L \/ j = L + 1)
    BY <1>1
  <2>2. CASE i \in 1 .. L /\ j \in 1 .. L
    BY <1>1, <1>5, <2>2 DEF Inv, Distinct
  <2>3. CASE ~(i \in 1 .. L /\ j \in 1 .. L)
    BY <1>4, <1>5, <1>7, <2>1, <2>3
  <2> QED BY <2>2, <2>3
<1>9. SomeWindowFocused'
  BY <1>1, <1>2, <1>5 DEF SomeWindowFocused
<1>10. ClickedHighest'
  <2>1. \A k \in 1 .. L + 1 : wins'[k].title # NONE
    <3> SUFFICES ASSUME NEW k \in 1 .. L + 1
                 PROVE  wins'[k].title # NONE
      OBVIOUS
    <3>1. wins'[k] \in Window
      BY <1>5
    <3> QED BY <3>1 DEF Window, NoneAssumption
  <2> QED BY <1>2, <1>5, <2>1 DEF ClickedHighest, Slots
<1> QED BY <1>6, <1>8, <1>9, <1>10 DEF Inv

(* A click that leaves the window open puts it above all others.           *)
LEMMA ClickKeepsInv ==
  ASSUME Inv, NEW k \in Slots, clicked' = wins[k].title, phase' = "composite",
         wins' \in Seq(Window), Len(wins') = Len(wins),
         \A i \in Slots : wins'[i].title = wins[i].title,
         \A i \in Slots : i # k => wins'[i].z < wins'[k].z,
         focused' = k, drag' \in {0, k}
  PROVE  Inv'
<1> DEFINE L == Len(wins)
<1>1. L \in Nat /\ Slots = 1 .. L /\ Slots' = 1 .. L /\ wins \in Seq(Window)
  BY DEF Inv, Typed, Slots
<1>2. Typed'
  <2>1. wins[k] \in Window
    BY <1>1
  <2>2. clicked' \in Title
    BY <2>1 DEF Window
  <2> QED BY <1>1, <2>2 DEF Typed
<1>3. Distinct'
  BY <1>1 DEF Inv, Distinct
<1>4. SomeWindowFocused'
  BY <1>1 DEF SomeWindowFocused
<1>5. ClickedHighest'
  BY <1>1 DEF ClickedHighest, Inv, Distinct
<1> QED BY <1>2, <1>3, <1>4, <1>5 DEF Inv

(* A click that closes the window leaves none of its title, and the focus  *)
(* on the window that moved into its slot or on the last.                  *)
LEMMA CloseKeepsInv ==
  ASSUME Inv, NEW k \in Slots, clicked' = wins[k].title, phase' = "composite",
         ClickClose(k)
  PROVE  /\ Inv'
         /\ \A i \in Slots : i # k => wins[i].title \in Titles'
<1> DEFINE L == Len(wins)
           u == Raised(wins, k)
           v == Removed(u, k)
<1>1. L \in Nat /\ Slots = 1 .. L /\ wins \in Seq(Window) /\ k \in 1 .. L
  BY DEF Inv, Typed, Slots
<1>2. u \in Seq(Window) /\ Len(u) = L /\ \A i \in 1 .. L : u[i].title = wins[i].title
  BY <1>1, RaisedIs
<1> HIDE DEF u, L
<1>3. /\ v \in Seq(Window) /\ Len(v) = L - 1
      /\ \A i \in 1 .. L - 1 : v[i] = IF i < k THEN u[i] ELSE u[i + 1]
  BY <1>1, <1>2, RemovedIs
<1>4. wins' = v /\ focused' = FocusAfterRemoval(k, L - 1) /\ drag' = 0
  BY DEF ClickClose, u, L
<1> HIDE DEF v
<1>5. Slots' = 1 .. L - 1 /\ Len(wins') = L - 1
  BY <1>3, <1>4 DEF Slots
<1> DEFINE old(i) == IF i < k THEN i ELSE i + 1
<1>6. \A i \in 1 .. L - 1 : /\ old(i) \in 1 .. L /\ old(i) # k
                            /\ wins'[i].title = wins[old(i)].title
  <2> SUFFICES ASSUME NEW i \in 1 .. L - 1
               PROVE  /\ old(i) \in 1 .. L /\ old(i) # k
                      /\ wins'[i].title = wins[old(i)].title
    OBVIOUS
  <2>1. wins'[i] = u[old(i)]
    BY <1>3, <1>4
  <2>2. old(i) \in 1 .. L /\ old(i) # k
    BY <1>1
  <2> QED BY <1>2, <2>1, <2>2
<1>7. \A i, j \in 1 .. L - 1 : old(i) = old(j) => i = j
  BY <1>1
<1>8. \A i \in 1 .. L : i # k => \E j \in 1 .. L - 1 : old(j) = i
  <2> SUFFICES ASSUME NEW i \in 1 .. L, i # k
               PROVE  \E j \in 1 .. L - 1 : old(j) = i
    OBVIOUS
  <2>1. CASE i < k
    BY <1>1, <2>1
  <2>2. CASE i > k
    <3>1. i - 1 \in 1 .. L - 1 /\ old(i - 1) = i
      BY <1>1, <2>2
    <3> QED BY <3>1
  <2> QED BY <1>1, <2>1, <2>2
<1> HIDE DEF old
<1>9. Distinct'
  <2> SUFFICES ASSUME NEW i \in 1 .. L - 1, NEW j \in 1 .. L - 1,
                      wins'[i].title = wins'[j].title
               PROVE  i = j
    BY <1>5 DEF Distinct
  <2>1. /\ old(i) \in Slots /\ old(j) \in Slots
        /\ wins[old(i)].title = wins[old(j)].title
    BY <1>1, <1>6
  <2>2. old(i) = old(j)
    BY <2>1 DEF Inv, Distinct
  <2> QED BY <1>7, <2>2
<1>10. Typed'
  <2>1. clicked' \in Title
    <3>1. wins[k] \in Window
      BY <1>1 DEF L
    <3> QED BY <3>1 DEF Window
  <2>2. focused' \in Nat
    BY <1>1, <1>4 DEF FocusAfterRemoval
  <2> QED BY <1>3, <1>4, <2>1, <2>2 DEF Typed
<1>11. SomeWindowFocused'
  <2>1. wins' # << >> => L - 1 > 0
    BY <1>1, <1>3, <1>4
  <2> QED BY <1>1, <1>4, <1>5, <2>1 DEF SomeWindowFocused, FocusAfterRemoval
<1>12. ClickedHighest'
  <2>1. \A i \in 1 .. L - 1 : wins'[i].title # clicked'
    BY <1>1, <1>6 DEF Inv, Distinct
  <2> QED BY <1>5, <2>1 DEF ClickedHighest
<1>13. \A i \in Slots : i # k => wins[i].title \in Titles'
  <2> SUFFICES ASSUME NEW i \in 1 .. L, i # k
               PROVE  wins[i].title \in Titles'
    BY <1>1
  <2>1. PICK j \in 1 .. L - 1 : old(j) = i
    BY <1>8
  <2>2. wins'[j].title = wins[i].title
    BY <1>6, <2>1
  <2> QED BY <1>5, <2>2 DEF Titles
<1> QED BY <1>9, <1>10, <1>11, <1>12, <1>13 DEF Inv
(* The sort moves the windows and keeps them, and the highest comes last.  *)
LEMMA CompositeKeepsInv ==
  ASSUME Inv, blockwm_composite
  PROVE  /\ Inv'
         /\ \A k \in Slots : wins[k].title \in Titles'
         /\ \A k \in Slots : wins'[Rank(wins, k)] = wins[k]
<1> DEFINE L == Len(wins)
<1>1. /\ L \in Nat /\ Slots = 1 .. L /\ wins \in Seq(Window)
      /\ wins' = BubbleSort(wins) /\ UNCHANGED <<focused, drag, clicked>> /\ phase' = "mouse"
  BY DEF Inv, Typed, Slots, blockwm_composite
<1>2. Rearranged(wins, wins') /\ Ordered(wins', 1)
  BY <1>1, SortOrders
<1>3. \A k \in Slots : wins'[Rank(wins, k)] = wins[k]
  <2> SUFFICES ASSUME NEW k \in Slots
               PROVE  wins'[Rank(wins, k)] = wins[k]
    OBVIOUS
  <2>1. PICK w, v : w = wins /\ v = wins'
    OBVIOUS
  <2>2. v[Rank(w, k)] = w[k]
    BY <1>1, <1>2, <2>1, RankIsSlot
  <2> QED BY <2>1, <2>2
<1>4. wins' \in Seq(Window) /\ Len(wins') = L /\ Slots' = 1 .. L
  BY <1>2 DEF Rearranged, Slots
<1>5. PICK o : Rearranges(o, wins, wins')
  BY <1>2 DEF Rearranged
<1>6. /\ o \in [1 .. L -> 1 .. L]
      /\ \A i, j \in 1 .. L : o[i] = o[j] => i = j
      /\ \A k \in 1 .. L : \E i \in 1 .. L : o[i] = k
      /\ \A i \in 1 .. L : wins'[i] = wins[o[i]]
  BY <1>5 DEF Rearranges
<1> HIDE DEF L
<1>7. Typed'
  BY <1>1, <1>4 DEF Inv, Typed
<1>8. Distinct'
  <2> SUFFICES ASSUME NEW i \in 1 .. L, NEW j \in 1 .. L, wins'[i].title = wins'[j].title
               PROVE  i = j
    BY <1>4 DEF Distinct
  <2>1. o[i] \in Slots /\ o[j] \in Slots /\ wins[o[i]].title = wins[o[j]].title
    BY <1>1, <1>6
  <2>2. o[i] = o[j]
    BY <2>1 DEF Inv, Distinct
  <2> QED BY <1>6, <2>2
<1>9. SomeWindowFocused'
  <2>1. wins' # << >> => wins # << >>
    BY <1>1, <1>4 DEF L
  <2> QED BY <1>1, <1>4, <2>1 DEF Inv, SomeWindowFocused, L
<1>10. ClickedHighest'
  <2> SUFFICES ASSUME NEW k \in 1 .. L, wins'[k].title = clicked
               PROVE  /\ \A j \in 1 .. L : j # k => wins'[j].z < wins'[k].z
                      /\ k = L
    BY <1>1, <1>4 DEF ClickedHighest
  <2>1. \A j \in Slots : j # o[k] => wins[j].z < wins[o[k]].z
    <3>1. o[k] \in Slots /\ wins[o[k]].title = clicked
      BY <1>1, <1>6
    <3> QED BY <3>1 DEF Inv, ClickedHighest
  <2>2. \A j \in 1 .. L : j # k => wins'[j].z < wins'[k].z
    <3> SUFFICES ASSUME NEW j \in 1 .. L, j # k
                 PROVE  wins'[j].z < wins'[k].z
      OBVIOUS
    <3>1. o[j] \in Slots /\ o[j] # o[k]
      BY <1>1, <1>6
    <3> QED BY <1>6, <2>1, <3>1
  <2>3. CASE k # L
    <3>1. L \in 1 .. L /\ k < L /\ L > 1
      BY <1>1, <2>3
    <3>2. wins'[k].z <= wins'[L].z
      BY <1>2, <1>4, <3>1 DEF Ordered
    <3>3. wins'[L].z < wins'[k].z
      BY <2>2, <2>3, <3>1
    <3>4. wins'[k].z \in Nat /\ wins'[L].z \in Nat
      BY <1>4, <3>1, LevelsAreNat
    <3> QED BY <3>2, <3>3, <3>4
  <2> QED BY <2>2, <2>3
<1>11. \A k \in Slots : wins[k].title \in Titles'
  <2> SUFFICES ASSUME NEW k \in 1 .. L
               PROVE  wins[k].title \in Titles'
    BY <1>1
  <2>1. PICK i \in 1 .. L : o[i] = k
    BY <1>6
  <2>2. wins'[i].title = wins[k].title
    BY <1>6, <2>1
  <2> QED BY <1>4, <2>2 DEF Titles
<1> QED BY <1>3, <1>7, <1>8, <1>9, <1>10, <1>11 DEF Inv

(* The mouse, and what it may close.                                       *)
LEMMA MouseKeepsInv ==
  ASSUME Inv, blockwm_handle_mouse
  PROVE  Inv' /\ \A t \in Titles : t \notin Titles' => clicked' = t
<1>1. phase' = "composite"
  BY DEF blockwm_handle_mouse
<1>2. CASE UNCHANGED <<wins, focused, clicked>> /\ drag' \in {0, drag}
  <2>1. UNCHANGED <<Slots, Titles>>
    BY <1>2 DEF Slots, Titles
  <2>2. Typed' /\ Distinct' /\ SomeWindowFocused' /\ ClickedHighest'
    BY <1>1, <1>2, <2>1 DEF Inv, Typed, Distinct, SomeWindowFocused, ClickedHighest
  <2> QED BY <2>1, <2>2 DEF Inv
<1>3. ASSUME NEW k \in Slots, Click(k)
      PROVE  Inv' /\ \A t \in Titles : t \notin Titles' => clicked' = t
  <2>1. /\ wins \in Seq(Window) /\ k \in 1 .. Len(wins) /\ Slots = 1 .. Len(wins)
        /\ clicked' = wins[k].title
    BY <1>3 DEF Inv, Typed, Slots, Click
  <2>2. CASE ClickClose(k)
    <3>1. Inv' /\ \A i \in Slots : i # k => wins[i].title \in Titles'
      BY <1>1, <2>1, <2>2, CloseKeepsInv
    <3> QED BY <2>1, <3>1 DEF Titles
  <2>3. ASSUME wins' \in Seq(Window), Len(wins') = Len(wins),
               \A i \in Slots : wins'[i].title = wins[i].title,
               \A i \in Slots : i # k => wins'[i].z < wins'[k].z,
               focused' = k, drag' \in {0, k}
        PROVE  Inv' /\ \A t \in Titles : t \notin Titles' => clicked' = t
    <3>1. Inv'
      BY <1>1, <2>1, <2>3, ClickKeepsInv
    <3>2. Titles' = Titles
      BY <2>1, <2>3 DEF Titles, Slots
    <3> QED BY <3>1, <3>2
  <2> DEFINE u == Raised(wins, k)
  <2>4. /\ u \in Seq(Window) /\ Len(u) = Len(wins)
        /\ \A i \in 1 .. Len(wins) : u[i].title = wins[i].title
        /\ \A i \in 1 .. Len(wins) : i # k => u[i].z < u[k].z
    BY <2>1, RaisedIs
  <2> HIDE DEF u
  <2>5. CASE ClickBar(k) \/ ClickContent(k)
    <3>1. wins' = u /\ focused' = k /\ drag' \in {0, k}
      BY <2>5 DEF ClickBar, ClickContent, u
    <3> QED BY <2>1, <2>3, <2>4, <3>1
  <2>6. ASSUME NEW s \in {"NORMAL", "MINIMIZED", "MAXIMIZED"}, ClickState(k, s)
        PROVE  Inv' /\ \A t \in Titles : t \notin Titles' => clicked' = t
    <3> DEFINE win == [u[k] EXCEPT !.state = s]
    <3>1. wins' = [u EXCEPT ![k] = win] /\ focused' = k /\ drag' = 0
      BY <2>6 DEF ClickState, u
    <3>2. u[k] \in Window
      BY <2>1, <2>4
    <3>3. win \in Window /\ win.z = u[k].z /\ win.title = u[k].title
      BY <3>2 DEF Window
    <3> HIDE DEF win
    <3>4. /\ wins' \in Seq(Window) /\ Len(wins') = Len(u) /\ wins'[k] = win
          /\ \A i \in 1 .. Len(wins) : i # k => wins'[i] = u[i]
      <4> HIDE DEF Window
      <4> QED BY <2>1, <2>4, <3>1, <3>3
    <3>5. \A i \in Slots : wins'[i].title = wins[i].title
      BY <2>1, <2>4, <3>3, <3>4
    <3>6. \A i \in Slots : i # k => wins'[i].z < wins'[k].z
      BY <2>1, <2>4, <3>3, <3>4
    <3> QED BY <2>3, <2>4, <3>1, <3>4, <3>5, <3>6
  <2>7. Toggled(wins[k].state) \in {"NORMAL", "MAXIMIZED"}
    BY DEF Toggled
  <2> QED BY <1>3, <2>2, <2>5, <2>6, <2>7 DEF Click
<1>4. ASSUME NEW under \in SUBSET Visible, under # {}
      PROVE  Hit(under) \in Slots
  <2>1. under \in SUBSET Nat /\ Len(wins) \in Nat /\ under \subseteq Slots
        /\ \A k \in under : k <= Len(wins)
    BY DEF Visible, Slots, Inv, Typed
  <2>2. \E x \in under : \A k \in under : x >= k
    BY <1>4, <2>1, GreatestExists
  <2>3. Max(under) \in under
    BY <2>2 DEF Max
  <2> QED BY <2>1, <2>3 DEF Hit
<1> QED BY <1>2, <1>3, <1>4 DEF blockwm_handle_mouse, DragMove, DragEnd

LEMMA InvStep == NoneAssumption /\ Inv /\ [Next]_vars => Inv'
<1> SUFFICES ASSUME NoneAssumption, Inv, [Next]_vars
             PROVE  Inv'
  OBVIOUS
<1>1. CASE UNCHANGED vars
  BY <1>1 DEF vars, Inv, Typed, Distinct, SomeWindowFocused, ClickedHighest, Slots
<1> QED BY <1>1, CreateKeepsInv, MouseKeepsInv, CompositeKeepsInv DEF Next

LEMMA Invariance == Spec => []Inv
<1>1. Inv /\ [Next]_vars => Inv'
  BY NoneAssumption, InvStep
<1> QED BY <1>1, InvInit, PTL DEF Spec

(* blockwm_get_focused returns a window as long as one is open, and the    *)
(* focus and the drag name slots that hold a window, through every shift   *)
(* of the array: for an array of any size.                                 *)
THEOREM FocusHolds == Spec => []SomeWindowFocused
<1>1. Inv => SomeWindowFocused
  BY DEF Inv
<1> QED BY <1>1, Invariance, PTL

(* The window clicked last is drawn over all others from the next frame    *)
(* on, although focusing only raises its level and leaves it in its slot.  *)
THEOREM ClickedIsInFront == Spec => []ClickedInFront
<1>1. Inv => ClickedInFront
  BY DEF Inv, Typed, ClickedHighest, ClickedInFront, Titles, At, Slots
<1> QED BY <1>1, Invariance, PTL

(* The array holds as many windows as titles.                              *)
LEMMA TitlesCounted == Inv => Cardinality(Titles) = Len(wins)
<1> SUFFICES ASSUME Inv
             PROVE  Cardinality(Titles) = Len(wins)
  OBVIOUS
<1> DEFINE t == [k \in 1 .. Len(wins) |-> wins[k].title]
<1>1. Len(wins) \in Nat /\ Slots = 1 .. Len(wins)
  BY DEF Inv, Typed, Slots
<1>2. t \in Injection(1 .. Len(wins), Titles)
  BY <1>1 DEF Titles, Injection, IsInjective, Inv, Distinct
<1>3. t \in Surjection(1 .. Len(wins), Titles)
  BY <1>1 DEF Titles, Surjection
<1>4. ExistsBijection(1 .. Len(wins), Titles)
  BY <1>2, <1>3 DEF ExistsBijection, Bijection
<1>5. IsFiniteSet(1 .. Len(wins)) /\ Cardinality(1 .. Len(wins)) = Len(wins)
  BY <1>1, FS_Interval
<1> QED BY <1>4, <1>5, FS_Bijection

(* No shift and no sort loses or doubles a window; a window goes away when *)
(* it is clicked and then only; and windows of equal z never change places *)
(* from one frame to the next.                                             *)
THEOREM NoWindowLost == Spec => WindowsKept
<1> DEFINE Closes == /\ \A t \in Titles : t \notin Titles' => clicked' = t
                     /\ Cardinality(Titles') = Len(wins')
           Stable == blockwm_composite => \A k \in Slots : wins'[Rank(wins, k)] = wins[k]
<1>1. ASSUME NoneAssumption, Inv, Next, Cardinality(Titles)' = Len(wins)'
      PROVE  Closes
  <2>1. ASSUME NEW t \in Title, blockwm_create_window(t)
        PROVE  Titles \subseteq Titles'
    <3>1. wins \in Seq(Window) /\ Len(wins) \in Nat
      BY <1>1 DEF Inv, Typed
    <3>2. PICK x : wins' = Append(wins, x)
      BY <2>1 DEF blockwm_create_window
    <3>3. Len(wins') = Len(wins) + 1 /\ \A i \in 1 .. Len(wins) : wins'[i] = wins[i]
      BY <3>1, <3>2
    <3> QED BY <3>1, <3>3 DEF Titles, Slots
  <2>2. CASE blockwm_handle_mouse
    BY <1>1, <2>2, MouseKeepsInv
  <2>3. CASE blockwm_composite
    BY <1>1, <2>3, CompositeKeepsInv DEF Titles
  <2> QED BY <1>1, <2>1, <2>2, <2>3 DEF Next
<1>2. ASSUME Inv
      PROVE  Stable
  BY <1>2, CompositeKeepsInv
<1>3. Inv => Cardinality(Titles) = Len(wins)
  BY TitlesCounted
<1> HIDE DEF Closes, Stable
<1>4. Inv /\ (Cardinality(Titles) = Len(wins))' /\ [Next]_vars => [Closes]_vars /\ [Stable]_vars
  BY NoneAssumption, <1>1, <1>2
<1> QED BY <1>3, <1>4, Invariance, PTL
        DEF Spec, WindowsKept, OnlyTheClickedCloses, SortIsStable, Closes, Stable

-----------------------------------------------------------------------------
(* The terminal.                                                           *)

(* What a cell may hold.                                                   *)
Glyphs == Letter \cup {SPACE, NUL} \cup UNION {ToSet(s) : s \in {PROMPT, BANNER} \cup Texts}

Screens == [cells : [G!Rows -> [G!Cols -> Glyphs]], cursor_row : G!Rows, cursor_col : Nat,
            scroll_offset : Nat, total_rows : Nat]

(* The rows end at the cursor's, and the window begins before that.        *)
Follows(t) == t.total_rows = t.cursor_row /\ t.scroll_offset <= t.cursor_row

InWindow(t) == t.scroll_offset <= t.cursor_row /\ t.cursor_row < t.scroll_offset + TERM_ROWS

(* u comes from t by output: the row of the cursor is in the window, or    *)
(* neither has moved.                                                      *)
Output(t, u) == /\ u \in Screens /\ Follows(u)
                /\ t.cursor_row <= u.cursor_row
                /\ \/ InWindow(u)
                   \/ u.cursor_row = t.cursor_row /\ u.scroll_offset = t.scroll_offset

LEMMA ScreenSizes ==
  /\ TERM_COLS \in Nat \ {0} /\ TERM_ROWS \in Nat \ {0} /\ TERM_MAX_SCROLL \in Nat \ {0}
  /\ TAB_STOP \in Nat \ {0} /\ INPUT_MAX \in Nat
  /\ Deltas \subseteq Int
  /\ \A s \in {PROMPT, BANNER} \cup Texts : s \in Seq(Glyphs)
  /\ {NL, CR, TAB, BS, NUL} \cap (Letter \cup {SPACE}) = {}
  /\ NL \notin {CR, TAB, BS} /\ CR \notin {TAB, BS} /\ TAB # BS
<1>1. \A s \in {PROMPT, BANNER} \cup Texts : s \in Seq(ToSet(s))
  BY DesktopAssumption DEF G!TerminalAssumption, G!ToSet, ToSet
<1>2. ASSUME NEW s \in {PROMPT, BANNER} \cup Texts
      PROVE  s \in Seq(Glyphs)
  <2>1. ToSet(s) \subseteq Glyphs
    BY DEF Glyphs
  <2> QED BY <1>1, <2>1
<1>3. {NL, CR, TAB, BS, NUL} \cap (Letter \cup {SPACE}) = {}
  BY DesktopAssumption DEF G!TerminalAssumption
<1>4. Deltas \subseteq Int /\ NL \notin {CR, TAB, BS} /\ CR \notin {TAB, BS} /\ TAB # BS
  BY DesktopAssumption DEF G!TerminalAssumption
<1>5. {TERM_COLS, TERM_ROWS, TERM_MAX_SCROLL, TAB_STOP} \subseteq Nat \ {0} /\ INPUT_MAX \in Nat
  BY DesktopAssumption DEF G!TerminalAssumption
<1> QED BY <1>2, <1>3, <1>4, <1>5

LEMMA NewlineIs ==
  ASSUME NEW t \in Screens, Follows(t)
  PROVE  /\ G!guiterm_newline(t) \in Screens /\ Follows(G!guiterm_newline(t))
         /\ InWindow(G!guiterm_newline(t))
         /\ t.cursor_row <= G!guiterm_newline(t).cursor_row
         /\ G!guiterm_newline(t).cells = t.cells
         /\ G!guiterm_newline(t).cursor_col = 0
         /\ G!guiterm_newline(t).cursor_row \in {t.cursor_row, t.cursor_row + 1}
<1> DEFINE row == G!Least(t.cursor_row + 1, TERM_MAX_SCROLL - 1)
           from == G!Followed(t.scroll_offset, row)
           u == G!guiterm_newline(t)
<1>1. t.cursor_row \in 0 .. TERM_MAX_SCROLL - 1 /\ t.scroll_offset \in Nat /\ t.total_rows \in Nat
  BY DEF Screens, G!Rows
<1>2. /\ row \in 0 .. TERM_MAX_SCROLL - 1 /\ t.cursor_row <= row
      /\ row \in {t.cursor_row, t.cursor_row + 1}
      /\ t.scroll_offset <= row
  BY <1>1, ScreenSizes DEF G!Least, Follows
<1> HIDE DEF row
<1>3. from \in Nat /\ from <= row /\ row < from + TERM_ROWS
  BY <1>1, <1>2, ScreenSizes DEF G!Followed
<1>4. G!Most(t.total_rows, row) = row
  BY <1>1, <1>2 DEF G!Most, Follows
<1> HIDE DEF from
<1>5. u = [t EXCEPT !.cursor_col = 0, !.cursor_row = row, !.total_rows = G!Most(@, row),
                    !.scroll_offset = G!Followed(@, row)]
  BY DEF G!guiterm_newline, row
<1>6. u = [cells |-> t.cells, cursor_row |-> row, cursor_col |-> 0, scroll_offset |-> from,
           total_rows |-> row]
  BY <1>4, <1>5 DEF from, Screens
<1> HIDE DEF u
<1>7. u \in Screens
  BY <1>2, <1>3, <1>6 DEF Screens, G!Rows
<1>8. u = G!guiterm_newline(t)
  BY DEF u
<1> QED BY <1>2, <1>3, <1>6, <1>7, <1>8 DEF Follows, InWindow

(* A character in a column of the screen is written under the cursor.      *)
LEMMA WrittenIs ==
  ASSUME NEW t \in Screens, Follows(t), NEW g \in Glyphs, t.cursor_col < TERM_COLS
  PROVE  /\ Output(t, G!Written(t, g))
         /\ G!Written(t, g).cells = [t.cells EXCEPT ![t.cursor_row][t.cursor_col] = g]
         /\ \/ /\ t.cursor_col + 1 < TERM_COLS
               /\ G!Written(t, g).cursor_row = t.cursor_row
               /\ G!Written(t, g).cursor_col = t.cursor_col + 1
            \/ /\ t.cursor_col + 1 = TERM_COLS
               /\ G!Written(t, g).cursor_row \in {t.cursor_row, t.cursor_row + 1}
               /\ G!Written(t, g).cursor_col = 0
<1> DEFINE w == [t EXCEPT !.cells[t.cursor_row][t.cursor_col] = g, !.cursor_col = @ + 1]
           screen2 == [t.cells EXCEPT ![t.cursor_row][t.cursor_col] = g]
<1>1. /\ t.cells \in [G!Rows -> [G!Cols -> Glyphs]] /\ t.cursor_row \in G!Rows
      /\ t.cursor_col \in Nat /\ t.scroll_offset \in Nat /\ t.total_rows \in Nat
  BY DEF Screens
<1>2. t.cursor_col \in G!Cols
  BY <1>1, ScreenSizes DEF G!Cols
<1>3. screen2 \in [G!Rows -> [G!Cols -> Glyphs]]
  BY <1>1, <1>2
<1>4. w = [cells |-> screen2, cursor_row |-> t.cursor_row, cursor_col |-> t.cursor_col + 1,
           scroll_offset |-> t.scroll_offset, total_rows |-> t.total_rows]
  <2>1. w = [[t EXCEPT !.cells = [t.cells EXCEPT ![t.cursor_row] =
                                    [t.cells[t.cursor_row] EXCEPT ![t.cursor_col] = g]]]
                EXCEPT !.cursor_col = t.cursor_col + 1]
    BY DEF Screens
  <2>2. screen2 = [t.cells EXCEPT ![t.cursor_row] =
                     [t.cells[t.cursor_row] EXCEPT ![t.cursor_col] = g]]
    BY <1>1
  <2> HIDE DEF w, screen2
  <2> QED BY <2>1, <2>2 DEF Screens
<1>5. G!Written(t, g) = IF w.cursor_col >= TERM_COLS THEN G!guiterm_newline(w) ELSE w
  BY DEF G!Written
<1> HIDE DEF w, screen2
<1>6. w \in Screens /\ Follows(w)
  BY <1>1, <1>3, <1>4 DEF Screens, Follows
<1>7. /\ w.cells = screen2 /\ w.cursor_row = t.cursor_row /\ w.cursor_col = t.cursor_col + 1
      /\ w.scroll_offset = t.scroll_offset
  BY <1>4
<1>8. t.cursor_row \in Nat
  BY <1>1, ScreenSizes DEF G!Rows
<1>9. CASE w.cursor_col >= TERM_COLS
  <2>1. G!Written(t, g) = G!guiterm_newline(w)
    BY <1>5, <1>9
  <2>2. t.cursor_col + 1 = TERM_COLS
    BY <1>1, <1>7, <1>9, ScreenSizes
  <2> QED BY <1>6, <1>7, <2>1, <2>2, NewlineIs DEF Output, screen2
<1>10. CASE ~(w.cursor_col >= TERM_COLS)
  <2>1. G!Written(t, g) = w
    BY <1>5, <1>10
  <2>2. t.cursor_col + 1 < TERM_COLS
    BY <1>1, <1>7, <1>10, ScreenSizes
  <2> QED BY <1>6, <1>7, <1>8, <2>1, <2>2 DEF Output, screen2
<1> QED BY <1>9, <1>10

LEMMA PutcharOutputs ==
  ASSUME NEW t \in Screens, Follows(t), NEW g \in Glyphs \cup {NL, BS}
  PROVE  Output(t, G!guiterm_putchar(t, g))
<1>1. /\ t.cursor_row \in Nat /\ t.cursor_col \in Nat
  BY ScreenSizes DEF Screens, G!Rows
<1>2. ASSUME NEW k \in Nat
      PROVE  Output(t, [t EXCEPT !.cursor_col = k])
  BY <1>1 DEF Output, Follows, Screens
<1>3. CASE g = NL
  <2>1. G!guiterm_putchar(t, g) = G!guiterm_newline(t)
    BY <1>3, ScreenSizes DEF G!guiterm_putchar
  <2> QED BY <2>1, NewlineIs DEF Output
<1>4. CASE g = CR /\ g # NL
  <2>1. G!guiterm_putchar(t, g) = [t EXCEPT !.cursor_col = 0]
    BY <1>4, ScreenSizes DEF G!guiterm_putchar
  <2> QED BY <1>2, <2>1
<1>5. CASE g = TAB /\ g \notin {NL, CR}
  <2>1. G!guiterm_putchar(t, g) = [t EXCEPT !.cursor_col = G!NextTab(t.cursor_col)]
    BY <1>5, ScreenSizes DEF G!guiterm_putchar, Screens
  <2>2. G!NextTab(t.cursor_col) \in Nat
    <3> DEFINE k == t.cursor_col \div TAB_STOP + 1
    <3>1. k \in Nat
      BY <1>1, ScreenSizes
    <3> HIDE DEF k
    <3>2. k * TAB_STOP \in Nat
      BY <3>1, ScreenSizes
    <3> QED BY <3>2 DEF k, G!NextTab
  <2> QED BY <1>2, <2>1, <2>2
<1>6. CASE g = BS /\ g \notin {NL, CR, TAB}
  <2>1. G!guiterm_putchar(t, g) = [t EXCEPT !.cursor_col = G!Most(t.cursor_col - 1, 0)]
    BY <1>6 DEF G!guiterm_putchar, Screens
  <2>2. G!Most(t.cursor_col - 1, 0) \in Nat
    BY <1>1 DEF G!Most
  <2> QED BY <1>2, <2>1, <2>2
<1>7. CASE g \notin {NL, CR, TAB, BS}
  <2>1. G!guiterm_putchar(t, g) = IF t.cursor_col < TERM_COLS THEN G!Written(t, g) ELSE t
    BY <1>7 DEF G!guiterm_putchar
  <2>2. Output(t, t)
    BY <1>1 DEF Output
  <2> QED BY <1>7, <2>1, <2>2, WrittenIs
<1> QED BY <1>3, <1>4, <1>5, <1>6, <1>7

LEMMA OutputChains ==
  ASSUME NEW t \in Screens, NEW u, NEW v, Output(t, u), Output(u, v)
  PROVE  Output(t, v)
<1>1. t.cursor_row \in Nat /\ u.cursor_row \in Nat /\ v.cursor_row \in Nat
  BY ScreenSizes DEF Output, Screens, G!Rows
<1>2. /\ t.cursor_row <= u.cursor_row /\ u.cursor_row <= v.cursor_row
      /\ InWindow(u) \/ (u.cursor_row = t.cursor_row /\ u.scroll_offset = t.scroll_offset)
      /\ InWindow(v) \/ (v.cursor_row = u.cursor_row /\ v.scroll_offset = u.scroll_offset)
      /\ v \in Screens /\ Follows(v)
  BY DEF Output
<1> QED BY <1>1, <1>2 DEF Output, InWindow

(* A text is put out character after character.                            *)
LEMMA PrintOutputs ==
  ASSUME NEW t \in Screens, Follows(t), NEW s \in Seq(Glyphs)
  PROVE  Output(t, G!guiterm_print(t, s))
<1> DEFINE N == Len(s)
           S == {u \in Screens : Output(t, u)}
           F == [x \in S \X (1 .. N) |-> G!guiterm_putchar(x[1], s[x[2]])]
           Loop(f) == [i \in 0 .. N |-> IF i = 0 THEN t ELSE G!guiterm_putchar(f[i - 1], s[i])]
           after == CHOOSE f : f = Loop(f)
<1>1. N \in Nat /\ \A i \in 1 .. N : s[i] \in Glyphs
  OBVIOUS
<1>2. t \in S
  BY ScreenSizes DEF Output, Screens, G!Rows
<1>3. ASSUME NEW u \in S, NEW i \in 1 .. N
      PROVE  G!guiterm_putchar(u, s[i]) \in S
  <2>1. u \in Screens /\ Follows(u) /\ Output(t, u)
    BY DEF Output
  <2>2. Output(u, G!guiterm_putchar(u, s[i]))
    BY <1>1, <2>1, PutcharOutputs
  <2>3. Output(t, G!guiterm_putchar(u, s[i]))
    BY <2>1, <2>2, OutputChains
  <2> QED BY <2>2, <2>3 DEF Output
<1>4. F \in [S \X (1 .. N) -> S]
  BY <1>3
<1> HIDE DEF S
<1>5. PICK g : IsLoop(g, N, S, t, F)
  <2> HIDE DEF F, N
  <2> QED BY <1>1, <1>2, <1>4, LoopExists
<1>6. /\ g \in [0 .. N -> S] /\ g[0] = t
      /\ \A i \in 1 .. N : g[i] = G!guiterm_putchar(g[i - 1], s[i])
  <2>1. /\ g \in [0 .. N -> S] /\ g[0] = t
        /\ \A i \in 1 .. N : g[i] = F[<<g[i - 1], i>>]
    <3> HIDE DEF F, N
    <3> QED BY <1>5 DEF IsLoop
  <2>2. ASSUME NEW i \in 1 .. N
        PROVE  F[<<g[i - 1], i>>] = G!guiterm_putchar(g[i - 1], s[i])
    <3>1. i - 1 \in 0 .. N
      BY <1>1
    <3>2. <<g[i - 1], i>> \in S \X (1 .. N)
      BY <2>1, <3>1
    <3> QED BY <3>2
  <2> HIDE DEF F
  <2> QED BY <2>1, <2>2
<1>7. g = Loop(g)
  <2>1. \A i \in 0 .. N : g[i] = Loop(g)[i]
    BY <1>1, <1>6
  <2>2. g = [i \in 0 .. N |-> g[i]]
    BY <1>6
  <2> HIDE DEF Loop
  <2>3. Loop(g) = [i \in 0 .. N |-> Loop(g)[i]]
    BY DEF Loop
  <2> QED BY <2>1, <2>2, <2>3, Zenon
<1>8. after = Loop(after)
  BY <1>7
<1>9. G!guiterm_print(t, s) = after[N]
  BY DEF G!guiterm_print
<1> HIDE DEF after
<1>10. after[0] = t /\ \A i \in 1 .. N : after[i] = G!guiterm_putchar(after[i - 1], s[i])
  <2>1. \A i \in 0 .. N : after[i] = Loop(after)[i]
    BY <1>8
  <2> QED BY <1>1, <2>1
<1>11. \A i \in 0 .. N : after[i] \in S
  <2>1. \A i \in 1 .. N : after[i - 1] \in S => after[i] \in S
    BY <1>3, <1>10
  <2> HIDE DEF N
  <2> QED BY <1>1, <1>2, <1>10, <2>1, LoopInvariant
<1> QED BY <1>1, <1>9, <1>11 DEF S

(* The cell under the cursor, and the places before it.                    *)
LEMMA PlaceIs ==
  ASSUME NEW r \in G!Rows, NEW k \in G!Cols, NEW p, p = r * TERM_COLS + k
  PROVE  /\ p \in Nat /\ p \div TERM_COLS = r /\ p % TERM_COLS = k
         /\ \A q \in 0 .. p - 1 : /\ q \div TERM_COLS \in G!Rows /\ q % TERM_COLS \in G!Cols
                                  /\ ~(q \div TERM_COLS = r /\ q % TERM_COLS = k)
<1>1. TERM_COLS \in Nat \ {0} /\ r \in Nat /\ k \in 0 .. TERM_COLS - 1
  BY ScreenSizes DEF G!Rows, G!Cols
<1>2. PICK m \in Nat : m = r * TERM_COLS
  BY <1>1
<1>3. p = TERM_COLS * r + k /\ p \in Nat /\ p \in Int
  BY <1>1, <1>2
<1>4. p \div TERM_COLS = r /\ p % TERM_COLS = k
  BY <1>1, <1>3, DivUnique, ModUnique
<1>5. ASSUME NEW q \in 0 .. p - 1
      PROVE  /\ q \div TERM_COLS \in G!Rows /\ q % TERM_COLS \in G!Cols
             /\ ~(q \div TERM_COLS = r /\ q % TERM_COLS = k)
  <2> DEFINE d == q \div TERM_COLS
             e == q % TERM_COLS
  <2>1. q \in Nat /\ q < p
    BY <1>3
  <2>2. /\ q = TERM_COLS * d + e /\ e \in 0 .. TERM_COLS - 1
        /\ d \in Nat
    BY <1>1, <2>1
  <2> HIDE DEF d, e
  <2>3. ~(d = r /\ e = k)
    BY <1>3, <2>1, <2>2
  <2>4. d <= r
    <3> SUFFICES ASSUME d >= r + 1
                 PROVE  FALSE
      BY <1>1, <2>2
    <3>1. PICK a \in Nat : d = r + 1 + a
      <4>1. d - (r + 1) \in Nat /\ d = r + 1 + (d - (r + 1))
        BY <1>1, <2>2
      <4> QED BY <4>1
    <3>2. PICK b \in Nat : b = TERM_COLS * a
      BY <1>1
    <3>3. TERM_COLS * (r + 1 + a) = TERM_COLS * r + TERM_COLS + TERM_COLS * a
      BY <1>1, <3>1
    <3>4. q = TERM_COLS * r + TERM_COLS + b + e
      BY <2>2, <3>1, <3>2, <3>3
    <3>5. PICK f \in Nat : f = TERM_COLS * r
      BY <1>1
    <3> QED BY <1>1, <1>3, <2>1, <2>2, <3>2, <3>4, <3>5
  <2> QED BY <1>1, <2>2, <2>3, <2>4, ScreenSizes DEF d, e, G!Rows, G!Cols
<1> QED BY <1>3, <1>4, <1>5

TerminalInv == /\ screen \in Screens /\ Follows(screen)
               /\ input_buf \in Seq(G!Printable)
               /\ prompted \in Nat /\ whole \in BOOLEAN
               /\ G!InputBeforeCursor

PlaceOf(t) == t.cursor_row * TERM_COLS + t.cursor_col

LEMMA PlaceIsNat ==
  ASSUME NEW t \in Screens
  PROVE  G!Place(t) \in Nat /\ G!Place(t) = PlaceOf(t)
<1>1. t.cursor_row \in Nat /\ t.cursor_col \in Nat
  BY ScreenSizes DEF Screens, G!Rows
<1>2. t.cursor_row * TERM_COLS \in Nat
  BY <1>1, ScreenSizes
<1> QED BY <1>1, <1>2 DEF G!Place, PlaceOf

(* With nothing typed there is nothing to show.                            *)
LEMMA NothingTyped ==
  ASSUME input_buf = << >>, prompted = G!Place(screen), prompted \in Nat
  PROVE  G!InputBeforeCursor
BY DEF G!InputBeforeCursor

LEMMA TerminalInit == G!Init => TerminalInv
<1> SUFFICES ASSUME G!Init PROVE TerminalInv
  OBVIOUS
<1> DEFINE t == G!guiterm_clear(0)
           u == G!guiterm_print(t, BANNER)
<1>1. t \in Screens /\ Follows(t)
  <2>1. G!Blank \in [G!Rows -> [G!Cols -> Glyphs]]
    BY DEF G!Blank, Glyphs
  <2>2. t = [cells |-> G!Blank, cursor_row |-> 0, cursor_col |-> 0,
             scroll_offset |-> 0, total_rows |-> 0]
    BY DEF G!guiterm_clear
  <2>3. 0 \in G!Rows
    BY ScreenSizes DEF G!Rows
  <2> HIDE DEF t
  <2> QED BY <2>1, <2>2, <2>3 DEF Screens, Follows
<1> HIDE DEF t
<1>2. u \in Screens /\ Follows(u)
  BY <1>1, PrintOutputs, ScreenSizes DEF Output
<1> HIDE DEF u
<1>3. screen = G!guiterm_print(u, PROMPT)
  BY DEF G!Init, u, t
<1>4. screen \in Screens /\ Follows(screen)
  BY <1>2, <1>3, PrintOutputs, ScreenSizes DEF Output
<1>5. input_buf = << >> /\ prompted = G!Place(screen) /\ whole = TRUE
  BY DEF G!Init
<1>6. prompted \in Nat
  BY <1>4, <1>5, PlaceIsNat
<1>7. G!InputBeforeCursor
  BY <1>5, <1>6, NothingTyped
<1>8. input_buf \in Seq(G!Printable) /\ whole \in BOOLEAN
  BY <1>5
<1> QED BY <1>4, <1>6, <1>7, <1>8 DEF TerminalInv

InView == screen'.cursor_row > screen.cursor_row
            => /\ screen'.scroll_offset <= screen'.cursor_row
               /\ screen'.cursor_row < screen'.scroll_offset + TERM_ROWS

LEMMA OutputInView ==
  ASSUME TerminalInv, Output(screen, screen')
  PROVE  screen' \in Screens /\ Follows(screen') /\ InView
<1>1. screen.cursor_row \in Nat /\ screen'.cursor_row \in Nat
  BY ScreenSizes DEF TerminalInv, Output, Screens, G!Rows
<1> QED BY <1>1 DEF Output, InWindow, InView

LEMMA EnterKeeps ==
  ASSUME TerminalInv, G!KeyEnter
  PROVE  TerminalInv' /\ InView
<1>1. PICK u : u = G!guiterm_putchar(screen, NL)
  OBVIOUS
<1>2. screen \in Screens /\ Follows(screen) /\ Output(screen, u)
  BY <1>1, PutcharOutputs DEF TerminalInv
<1>3. Output(u, screen')
  <2>1. u \in Screens /\ Follows(u)
    BY <1>2 DEF Output
  <2> QED BY <1>1, <2>1, PrintOutputs, ScreenSizes DEF G!KeyEnter
<1>4. Output(screen, screen')
  BY <1>2, <1>3, OutputChains
<1>5. screen' \in Screens /\ Follows(screen') /\ InView
  BY <1>4, OutputInView
<1>6. input_buf' = << >> /\ prompted' = G!Place(screen') /\ whole' = TRUE
  BY DEF G!KeyEnter
<1>7. prompted' \in Nat
  BY <1>5, <1>6, PlaceIsNat
<1>8. G!InputBeforeCursor'
  BY <1>6, <1>7 DEF G!InputBeforeCursor
<1>9. input_buf' \in Seq(G!Printable) /\ whole' \in BOOLEAN
  BY <1>6
<1> QED BY <1>5, <1>7, <1>8, <1>9 DEF TerminalInv

(* A key stands under the cursor, and the places before it keep theirs.    *)
LEMMA PrintableKeeps ==
  ASSUME TerminalInv, NEW g \in G!Printable, G!KeyPrintable(g)
  PROVE  TerminalInv' /\ InView
<1>1. /\ screen \in Screens /\ Follows(screen) /\ g \in Glyphs
      /\ input_buf \in Seq(G!Printable) /\ prompted \in Nat /\ whole \in BOOLEAN
      /\ G!InputBeforeCursor
  BY DEF TerminalInv, Glyphs, G!Printable
<1>2. /\ screen.cells \in [G!Rows -> [G!Cols -> Glyphs]]
      /\ screen.cursor_row \in G!Rows /\ screen.cursor_col \in Nat
  BY <1>1 DEF Screens
<1>3. /\ input_buf' = Append(input_buf, g) /\ prompted' = prompted
      /\ screen' = G!guiterm_putchar(screen, g)
      /\ whole' = (whole /\ G!Place(screen') = G!Place(screen) + 1)
  BY DEF G!KeyPrintable
<1>4. screen' = IF screen.cursor_col < TERM_COLS THEN G!Written(screen, g) ELSE screen
  BY <1>3, ScreenSizes DEF G!guiterm_putchar, G!Printable
<1>5. Output(screen, screen')
  BY <1>1, <1>3, PutcharOutputs
<1>6. screen' \in Screens /\ Follows(screen') /\ InView
  BY <1>5, OutputInView
<1>7. /\ input_buf' \in Seq(G!Printable) /\ Len(input_buf') = Len(input_buf) + 1
      /\ input_buf'[Len(input_buf) + 1] = g
      /\ \A k \in 1 .. Len(input_buf) : input_buf'[k] = input_buf[k]
      /\ Len(input_buf) \in Nat /\ DOMAIN input_buf' = 1 .. Len(input_buf) + 1
      /\ DOMAIN input_buf = 1 .. Len(input_buf)
  BY <1>1, <1>3
<1>8. G!InputBeforeCursor'
  <2> SUFFICES ASSUME whole'
               PROVE  /\ G!Place(screen') = prompted' + Len(input_buf')
                      /\ \A k \in DOMAIN input_buf' : G!CellAt(prompted + k - 1)' = input_buf'[k]
    BY <1>3 DEF G!InputBeforeCursor, G!CellAt
  <2>1. whole /\ G!Place(screen') = G!Place(screen) + 1
    BY <1>3
  <2>2. /\ G!Place(screen) = prompted + Len(input_buf)
        /\ \A k \in DOMAIN input_buf : G!CellAt(prompted + k - 1) = input_buf[k]
    BY <1>1, <2>1 DEF G!InputBeforeCursor
  <2>3. screen.cursor_col < TERM_COLS /\ screen' = G!Written(screen, g)
    <3>1. G!Place(screen) \in Nat
      BY <1>1, PlaceIsNat
    <3> QED BY <1>4, <2>1, <3>1
  <2>4. screen'.cells = [screen.cells EXCEPT ![screen.cursor_row][screen.cursor_col] = g]
    BY <1>1, <2>3, WrittenIs
  <2>5. screen.cursor_col \in G!Cols
    BY <1>2, <2>3, ScreenSizes DEF G!Cols
  <2>6. PICK p : p = G!Place(screen)
    OBVIOUS
  <2>7. p = screen.cursor_row * TERM_COLS + screen.cursor_col
    BY <2>6 DEF G!Place
  <2>8. /\ p \in Nat /\ p \div TERM_COLS = screen.cursor_row /\ p % TERM_COLS = screen.cursor_col
        /\ \A q \in 0 .. p - 1 : /\ q \div TERM_COLS \in G!Rows /\ q % TERM_COLS \in G!Cols
                                 /\ ~(q \div TERM_COLS = screen.cursor_row
                                        /\ q % TERM_COLS = screen.cursor_col)
    BY <1>2, <2>5, <2>7, PlaceIs
  <2>9. ASSUME NEW k \in 1 .. Len(input_buf)
        PROVE  G!CellAt(prompted + k - 1)' = input_buf'[k]
    <3>1. PICK q : q = prompted + k - 1
      OBVIOUS
    <3>2. q \in 0 .. p - 1
      BY <1>1, <1>7, <2>2, <2>6, <3>1
    <3>3. /\ q \div TERM_COLS \in G!Rows /\ q % TERM_COLS \in G!Cols
          /\ ~(q \div TERM_COLS = screen.cursor_row /\ q % TERM_COLS = screen.cursor_col)
      BY <2>8, <3>2
    <3>4. screen'.cells[q \div TERM_COLS][q % TERM_COLS]
            = screen.cells[q \div TERM_COLS][q % TERM_COLS]
      BY <1>2, <2>4, <2>5, <3>3
    <3>5. screen.cells[q \div TERM_COLS][q % TERM_COLS] = input_buf[k]
      BY <1>7, <2>2, <3>1 DEF G!CellAt
    <3> QED BY <1>3, <1>7, <3>1, <3>4, <3>5 DEF G!CellAt
  <2>10. ASSUME NEW k \in Nat, k = Len(input_buf) + 1
         PROVE  G!CellAt(prompted + k - 1)' = input_buf'[k]
    <3>1. prompted' + k - 1 = p
      BY <1>1, <1>3, <1>7, <2>2, <2>6, <2>10
    <3>2. screen'.cells[screen.cursor_row][screen.cursor_col] = g
      BY <1>2, <2>4, <2>5
    <3>3. G!CellAt(prompted + k - 1)' = g
      BY <2>8, <3>1, <3>2 DEF G!CellAt
    <3> QED BY <1>7, <2>10, <3>3
  <2>11. G!Place(screen') = prompted' + Len(input_buf')
    BY <1>1, <1>3, <1>7, <2>1, <2>2
  <2>12. \A k \in 1 .. Len(input_buf) + 1 : k \in 1 .. Len(input_buf) \/ k = Len(input_buf) + 1
    BY <1>7
  <2> QED BY <1>7, <2>9, <2>10, <2>11, <2>12
<1>9. whole' \in BOOLEAN /\ prompted' \in Nat
  BY <1>1, <1>3
<1> QED BY <1>6, <1>7, <1>8, <1>9 DEF TerminalInv

LEMMA BackspaceKeeps ==
  ASSUME TerminalInv, G!KeyBackspace
  PROVE  TerminalInv' /\ InView
<1>1. /\ screen \in Screens /\ Follows(screen)
      /\ input_buf \in Seq(G!Printable) /\ prompted \in Nat /\ whole \in BOOLEAN
      /\ G!InputBeforeCursor
  BY DEF TerminalInv
<1>2. /\ screen.cursor_row \in Nat /\ screen.cursor_col \in Nat
  BY <1>1, ScreenSizes DEF Screens, G!Rows
<1>3. /\ input_buf # << >> /\ input_buf' = SubSeq(input_buf, 1, Len(input_buf) - 1)
      /\ prompted' = prompted
      /\ screen' = G!guiterm_putchar(screen, BS)
      /\ whole' = (whole /\ screen.cursor_col > 0)
  BY DEF G!KeyBackspace, G!Front, G!Erased
<1>4. Output(screen, screen')
  BY <1>1, <1>3, PutcharOutputs
<1>5. screen' \in Screens /\ Follows(screen') /\ InView
  BY <1>1, <1>4, OutputInView
<1>6. screen' = [screen EXCEPT !.cursor_col = G!Most(screen.cursor_col - 1, 0)]
  BY <1>1, <1>3, ScreenSizes DEF G!guiterm_putchar, Screens
<1>7. /\ screen'.cells = screen.cells /\ screen'.cursor_row = screen.cursor_row
      /\ screen.cursor_col > 0 => screen'.cursor_col = screen.cursor_col - 1
  BY <1>1, <1>2, <1>6 DEF Screens, G!Most
<1>8. /\ input_buf' \in Seq(G!Printable) /\ Len(input_buf') = Len(input_buf) - 1
      /\ Len(input_buf) \in Nat
      /\ DOMAIN input_buf' = 1 .. Len(input_buf) - 1 /\ DOMAIN input_buf = 1 .. Len(input_buf)
      /\ \A k \in 1 .. Len(input_buf) - 1 : input_buf'[k] = input_buf[k]
  <2>1. Len(input_buf) \in Nat \ {0} /\ DOMAIN input_buf = 1 .. Len(input_buf)
    BY <1>1, <1>3, EmptySeq, LenProperties
  <2>2. 1 \in 1 .. Len(input_buf) + 1 /\ Len(input_buf) - 1 \in 0 .. Len(input_buf)
    BY <2>1
  <2> QED BY <1>1, <1>3, <2>1, <2>2, SubSeqProperties
<1>9. G!InputBeforeCursor'
  <2> SUFFICES ASSUME whole'
               PROVE  /\ G!Place(screen') = prompted' + Len(input_buf')
                      /\ \A k \in DOMAIN input_buf' : G!CellAt(prompted + k - 1)' = input_buf'[k]
    BY <1>3 DEF G!InputBeforeCursor, G!CellAt
  <2>1. whole /\ screen.cursor_col > 0
    BY <1>3
  <2>2. /\ G!Place(screen) = prompted + Len(input_buf)
        /\ \A k \in DOMAIN input_buf : G!CellAt(prompted + k - 1) = input_buf[k]
    BY <1>1, <2>1 DEF G!InputBeforeCursor
  <2>3. G!Place(screen') = G!Place(screen) - 1
    <3>1. screen.cursor_row * TERM_COLS \in Nat
      BY <1>2, ScreenSizes
    <3> QED BY <1>2, <1>7, <2>1, <3>1 DEF G!Place
  <2>4. ASSUME NEW k \in 1 .. Len(input_buf) - 1
        PROVE  G!CellAt(prompted + k - 1)' = input_buf'[k]
    <3>1. k \in 1 .. Len(input_buf)
      BY <1>8
    <3> QED BY <1>3, <1>7, <1>8, <2>2, <3>1 DEF G!CellAt
  <2>5. G!Place(screen') = prompted' + Len(input_buf')
    <3>1. G!Place(screen') = (prompted + Len(input_buf)) - 1
      BY <2>2, <2>3
    <3> QED BY <1>1, <1>3, <1>8, <3>1
  <2> QED BY <1>8, <2>4, <2>5
<1>10. whole' \in BOOLEAN /\ prompted' \in Nat
  BY <1>1, <1>3
<1> QED BY <1>5, <1>8, <1>9, <1>10 DEF TerminalInv

LEMMA OthersKeep ==
  ASSUME TerminalInv,
         \/ \E s \in Texts : G!terminal_print(s)
         \/ \E delta \in Deltas : G!Wheel(delta)
         \/ G!Clear
  PROVE  TerminalInv' /\ InView
<1>1. /\ screen \in Screens /\ Follows(screen)
      /\ input_buf \in Seq(G!Printable) /\ prompted \in Nat /\ whole \in BOOLEAN
      /\ G!InputBeforeCursor
  BY DEF TerminalInv
<1>2. /\ screen.cursor_row \in Nat /\ screen.scroll_offset \in Nat /\ screen.total_rows \in Nat
  BY <1>1, ScreenSizes DEF Screens, G!Rows
<1>3. ASSUME NEW s \in Texts, G!terminal_print(s)
      PROVE  TerminalInv' /\ InView
  <2>1. Output(screen, screen')
    BY <1>1, <1>3, PrintOutputs, ScreenSizes DEF G!terminal_print
  <2>2. screen' \in Screens /\ Follows(screen') /\ InView
    BY <2>1, OutputInView
  <2> QED BY <1>1, <1>3, <2>2 DEF G!terminal_print, TerminalInv, G!InputBeforeCursor
<1>4. ASSUME NEW delta \in Deltas, G!Wheel(delta)
      PROVE  TerminalInv' /\ InView
  <2> DEFINE o == G!Least(G!Most(screen.scroll_offset + delta, 0),
                          G!Most(screen.total_rows - TERM_ROWS, 0))
  <2>1. o \in Nat /\ o <= screen.cursor_row
    <3>1. delta \in Int
      BY ScreenSizes
    <3> QED BY <1>1, <1>2, <3>1, ScreenSizes DEF G!Least, G!Most, Follows
  <2>2. screen' = [screen EXCEPT !.scroll_offset = o]
    BY <1>1, <1>4 DEF G!Wheel, G!guiterm_scroll, Screens
  <2> HIDE DEF o
  <2>3. screen' \in Screens /\ Follows(screen')
    BY <1>1, <2>1, <2>2 DEF Screens, Follows
  <2>4. /\ screen'.cells = screen.cells /\ screen'.cursor_row = screen.cursor_row
        /\ screen'.cursor_col = screen.cursor_col
    BY <1>1, <2>2 DEF Screens
  <2>5. UNCHANGED <<input_buf, prompted, whole>>
    BY <1>4 DEF G!Wheel
  <2>6. G!InputBeforeCursor'
    BY <1>1, <2>4, <2>5 DEF G!InputBeforeCursor, G!Place, G!CellAt
  <2>7. InView
    BY <1>2, <2>4 DEF InView
  <2> QED BY <1>1, <2>3, <2>5, <2>6, <2>7 DEF TerminalInv
<1>5. CASE G!Clear
  <2>1. screen' = [cells |-> G!Blank, cursor_row |-> 0, cursor_col |-> 0,
                   scroll_offset |-> 0, total_rows |-> 0]
    BY <1>5 DEF G!Clear, G!guiterm_clear
  <2>2. G!Blank \in [G!Rows -> [G!Cols -> Glyphs]]
    BY DEF G!Blank, Glyphs
  <2>3. 0 \in G!Rows
    BY ScreenSizes DEF G!Rows
  <2>4. screen' \in Screens /\ Follows(screen')
    BY <2>1, <2>2, <2>3 DEF Screens, Follows
  <2>5. InView
    BY <1>2, <2>1 DEF InView
  <2> QED BY <1>1, <1>5, <2>4, <2>5 DEF G!Clear, TerminalInv, G!InputBeforeCursor
<1> QED BY <1>3, <1>4, <1>5

LEMMA TerminalStep ==
  TerminalInv /\ [G!Next]_(G!vars) => TerminalInv' /\ [InView]_(G!vars)
<1> SUFFICES ASSUME TerminalInv, [G!Next]_(G!vars)
             PROVE  TerminalInv' /\ [InView]_(G!vars)
  OBVIOUS
<1>1. CASE UNCHANGED G!vars
  BY <1>1 DEF G!vars, TerminalInv, G!InputBeforeCursor, G!Place, G!CellAt
<1> QED BY <1>1, EnterKeeps, PrintableKeeps, BackspaceKeeps, OthersKeep
        DEF G!Next, G!guiterm_handle_key

LEMMA TerminalInvariance == G!Spec => []TerminalInv /\ [][InView]_(G!vars)
<1>1. TerminalInv /\ [G!Next]_(G!vars) => TerminalInv' /\ [InView]_(G!vars)
  BY TerminalStep
<1> QED BY <1>1, TerminalInit, PTL DEF G!Spec

-----------------------------------------------------------------------------
(* The context menu.                                                       *)

Items == Callback \cup {NULL, SEPARATOR}

(* The highlight is on an item of a menu in view, or nowhere.              *)
MenuInv == /\ items \in Seq(Items) /\ y \in Int
           /\ visible \in BOOLEAN
           /\ hovered # 0 => /\ visible /\ hovered \in 1 .. Len(items)
                             /\ items[hovered] # SEPARATOR

LEMMA MenuSizes ==
  /\ CTX_ITEM_H \in Nat \ {0} /\ SEP_H \in Nat \ {0} /\ HEAD \in Nat
  /\ Places \subseteq Int
  /\ SEPARATOR \notin Callback /\ NULL # SEPARATOR
BY DesktopAssumption DEF C!ContextMenuAssumption

(* How many of the first m items are in T.                                 *)
Above(m, T) == Cardinality({j \in 1 .. m : items[j] \in T})

LEMMA AboveNext ==
  ASSUME NEW m \in Nat, NEW T
  PROVE  /\ Above(m, T) \in Nat
         /\ Above(0, T) = 0
         /\ Above(m + 1, T) = IF items[m + 1] \in T THEN Above(m, T) + 1 ELSE Above(m, T)
<1> DEFINE R == {j \in 1 .. m : items[j] \in T}
           Q == {j \in 1 .. m + 1 : items[j] \in T}
<1>1. IsFiniteSet(R)
  <2>1. IsFiniteSet(1 .. m) /\ R \subseteq 1 .. m
    BY FS_Interval
  <2> QED BY <2>1, FS_Subset
<1>2. Above(0, T) = 0
  <2>1. {j \in 1 .. 0 : items[j] \in T} = {}
    OBVIOUS
  <2> QED BY <2>1, FS_EmptySet DEF Above
<1>3. m + 1 \notin R
  OBVIOUS
<1>4. CASE items[m + 1] \in T
  <2>1. Q = R \cup {m + 1}
    BY <1>4
  <2> HIDE DEF Q, R
  <2>2. Cardinality(R \cup {m + 1}) = Cardinality(R) + 1
    BY <1>1, <1>3, FS_AddElement
  <2> QED BY <1>1, <1>2, <1>4, <2>1, <2>2, FS_CardinalityType DEF Above, Q, R
<1>5. CASE items[m + 1] \notin T
  <2>1. Q = R
    BY <1>5
  <2> QED BY <1>1, <1>2, <1>5, <2>1, FS_CardinalityType DEF Above
<1> QED BY <1>4, <1>5

(* The first row behind the first m items, as ctx_draw counts them.        *)
RowBehind(m) == y + HEAD + CTX_ITEM_H * Above(m, C!Kind) + SEP_H * Above(m, {SEPARATOR})

LEMMA RowBehindFirst ==
  ASSUME MenuInv
  PROVE  RowBehind(0) = y + HEAD
<1>1. /\ CTX_ITEM_H * 0 = 0 /\ SEP_H * 0 = 0
      /\ Above(0, C!Kind) = 0 /\ Above(0, {SEPARATOR}) = 0
  BY MenuSizes, AboveNext
<1> QED BY <1>1, MenuSizes DEF RowBehind, MenuInv

LEMMA RowBehindNext ==
  ASSUME MenuInv, NEW m \in 0 .. Len(items) - 1
  PROVE  /\ RowBehind(m) \in Int
         /\ RowBehind(m + 1) = C!Past(RowBehind(m), items[m + 1])
         /\ C!DrawnFrom(m + 1) = RowBehind(m)
<1>1. /\ m \in Nat /\ m + 1 \in 1 .. Len(items) /\ items[m + 1] \in Items /\ y \in Int
  BY DEF MenuInv
<1>2. Above(m, C!Kind) \in Nat /\ Above(m, {SEPARATOR}) \in Nat
  BY <1>1, AboveNext
<1>3. RowBehind(m) \in Int
  <2>1. CTX_ITEM_H * Above(m, C!Kind) \in Nat /\ SEP_H * Above(m, {SEPARATOR}) \in Nat
    BY <1>2, MenuSizes
  <2> QED BY <1>1, <1>2, <2>1, MenuSizes DEF RowBehind
<1>4. C!DrawnFrom(m + 1) = RowBehind(m)
  <2>1. (m + 1) - 1 = m
    BY <1>1
  <2>2. /\ Cardinality({j \in 1 .. (m + 1) - 1 : items[j] \in C!Kind}) = Above(m, C!Kind)
        /\ Cardinality({j \in 1 .. (m + 1) - 1 : items[j] \in {SEPARATOR}}) = Above(m, {SEPARATOR})
    BY <2>1 DEF Above
  <2>3. \A T : C!Cardinality(T) = Cardinality(T)
    BY DEF C!Cardinality, Cardinality
  <2> QED BY <2>2, <2>3 DEF C!DrawnFrom, RowBehind
<1>5. RowBehind(m + 1) = C!Past(RowBehind(m), items[m + 1])
  <2> DEFINE k == Above(m, C!Kind)
             s == Above(m, {SEPARATOR})
  <2>1. \A a \in Nat : CTX_ITEM_H * (a + 1) = CTX_ITEM_H * a + CTX_ITEM_H
    BY MenuSizes
  <2>2. \A a \in Nat : SEP_H * (a + 1) = SEP_H * a + SEP_H
    BY MenuSizes
  <2>3. k \in Nat /\ s \in Nat
    BY <1>2
  <2>4. \A a \in Nat : CTX_ITEM_H * a \in Nat /\ SEP_H * a \in Nat
    BY MenuSizes
  <2>5. CASE items[m + 1] = SEPARATOR
    <3>1. Above(m + 1, C!Kind) = k /\ Above(m + 1, {SEPARATOR}) = s + 1
      BY <1>1, <2>5, AboveNext, MenuSizes DEF C!Kind
    <3> HIDE DEF k, s
    <3>2. RowBehind(m + 1) = y + HEAD + CTX_ITEM_H * k + (SEP_H * s + SEP_H)
      BY <2>2, <2>3, <3>1 DEF RowBehind
    <3>3. RowBehind(m) = y + HEAD + CTX_ITEM_H * k + SEP_H * s
      BY DEF RowBehind, k, s
    <3> QED BY <1>1, <2>3, <2>4, <2>5, <3>2, <3>3, MenuSizes DEF C!Past, C!Height
  <2>6. CASE items[m + 1] # SEPARATOR
    <3>1. Above(m + 1, C!Kind) = k + 1 /\ Above(m + 1, {SEPARATOR}) = s
      BY <1>1, <2>6, AboveNext DEF C!Kind, Items
    <3> HIDE DEF k, s
    <3>2. RowBehind(m + 1) = y + HEAD + (CTX_ITEM_H * k + CTX_ITEM_H) + SEP_H * s
      BY <2>1, <2>3, <3>1 DEF RowBehind
    <3>3. RowBehind(m) = y + HEAD + CTX_ITEM_H * k + SEP_H * s
      BY DEF RowBehind, k, s
    <3> QED BY <1>1, <2>3, <2>4, <2>6, <3>2, <3>3, MenuSizes DEF C!Past, C!Height
  <2> QED BY <2>5, <2>6
<1> QED BY <1>3, <1>4, <1>5

(* After m turns of the loop: the row behind the first m items, and of     *)
(* these the one drawn at the pointer's row.                               *)
Searched(a, m, row) ==
  /\ a.iy = RowBehind(m)
  /\ a.hit \in 0 .. m
  /\ a.hit # 0 => C!DrawnAt(a.hit, row) /\ row < a.iy
  /\ \A i \in 1 .. m : C!DrawnAt(i, row) => i = a.hit

LEMMA TurnSearches ==
  ASSUME MenuInv, NEW m \in 0 .. Len(items) - 1, NEW row \in Int,
         NEW a, Searched(a, m, row)
  PROVE  Searched(C!Turn(a, m + 1, row), m + 1, row)
<1> DEFINE b == C!Turn(a, m + 1, row)
           R == RowBehind(m)
           onIt == items[m + 1] # SEPARATOR /\ row >= R /\ row < R + CTX_ITEM_H
<1>1. /\ m \in Nat /\ R \in Int /\ RowBehind(m + 1) = C!Past(R, items[m + 1])
      /\ C!DrawnFrom(m + 1) = R
  BY RowBehindNext
<1>2. /\ b.iy = RowBehind(m + 1)
      /\ b.hit = IF onIt THEN m + 1 ELSE a.hit
  BY <1>1 DEF Searched, C!Turn
<1> HIDE DEF b, R
<1>3. C!DrawnAt(m + 1, row) <=> onIt
  <2>1. row \in R .. R + CTX_ITEM_H - 1 <=> row >= R /\ row < R + CTX_ITEM_H
    BY <1>1, MenuSizes
  <2> QED BY <1>1, <2>1 DEF C!DrawnAt
<1>4. /\ R < RowBehind(m + 1)
      /\ items[m + 1] # SEPARATOR => RowBehind(m + 1) = R + CTX_ITEM_H
  BY <1>1, MenuSizes DEF C!Past, C!Height
<1>5. /\ a.hit \in 0 .. m
      /\ a.hit # 0 => C!DrawnAt(a.hit, row) /\ row < R
      /\ \A i \in 1 .. m : C!DrawnAt(i, row) => i = a.hit
  BY DEF Searched, R
<1>6. RowBehind(m + 1) \in Int
  BY <1>1, MenuSizes DEF C!Past, C!Height
<1>7. CASE onIt
  <2>1. a.hit = 0
    BY <1>1, <1>5, <1>7
  <2>2. \A i \in 1 .. m : ~C!DrawnAt(i, row)
    BY <1>5, <2>1
  <2> QED BY <1>1, <1>2, <1>3, <1>4, <1>7, <2>2 DEF Searched, b
<1>8. CASE ~onIt
  <2>1. a.hit # 0 => row < RowBehind(m + 1)
    BY <1>1, <1>4, <1>5, <1>6
  <2> QED BY <1>1, <1>2, <1>3, <1>5, <1>8, <2>1 DEF Searched, b
<1> QED BY <1>7, <1>8

(* The item hit is the one drawn at the pointer's row.                     *)
LEMMA HitIsDrawn ==
  ASSUME MenuInv, NEW row \in Int
  PROVE  /\ C!Hit(row) \in 0 .. Len(items)
         /\ C!Hit(row) # 0 => C!DrawnAt(C!Hit(row), row)
         /\ \A i \in 1 .. Len(items) : C!DrawnAt(i, row) => i = C!Hit(row)
<1> DEFINE N == Len(items)
           first == [iy |-> y + HEAD, hit |-> 0]
           S == [iy : Int, hit : Nat]
           F == [x \in S \X (1 .. N) |-> C!Turn(x[1], x[2], row)]
           Loop(f) == [i \in 0 .. N |-> IF i = 0 THEN first ELSE C!Turn(f[i - 1], i, row)]
           after == CHOOSE f : f = Loop(f)
<1>1. N \in Nat /\ first \in S
  BY MenuSizes DEF MenuInv
<1>2. ASSUME NEW a \in S, NEW i \in 1 .. N
      PROVE  C!Turn(a, i, row) \in S
  <2>1. C!Past(a.iy, items[i]) \in Int
    BY MenuSizes DEF C!Past, C!Height
  <2> QED BY <1>1, <2>1 DEF C!Turn
<1>3. F \in [S \X (1 .. N) -> S]
  BY <1>2
<1> HIDE DEF S, first
<1>4. PICK g : IsLoop(g, N, S, first, F)
  <2> HIDE DEF F, N
  <2> QED BY <1>1, <1>3, LoopExists
<1>5. /\ g \in [0 .. N -> S] /\ g[0] = first
      /\ \A i \in 1 .. N : g[i] = C!Turn(g[i - 1], i, row)
  <2>1. /\ g \in [0 .. N -> S] /\ g[0] = first
        /\ \A i \in 1 .. N : g[i] = F[<<g[i - 1], i>>]
    <3> HIDE DEF F, N
    <3> QED BY <1>4 DEF IsLoop
  <2>2. ASSUME NEW i \in 1 .. N
        PROVE  F[<<g[i - 1], i>>] = C!Turn(g[i - 1], i, row)
    <3>1. i - 1 \in 0 .. N
      BY <1>1
    <3>2. <<g[i - 1], i>> \in S \X (1 .. N)
      BY <2>1, <3>1
    <3> QED BY <3>2
  <2> HIDE DEF F
  <2> QED BY <2>1, <2>2
<1>6. g = Loop(g)
  <2>1. \A i \in 0 .. N : g[i] = Loop(g)[i]
    BY <1>1, <1>5
  <2>2. g = [i \in 0 .. N |-> g[i]]
    BY <1>5
  <2> HIDE DEF Loop
  <2>3. Loop(g) = [i \in 0 .. N |-> Loop(g)[i]]
    BY DEF Loop
  <2> QED BY <2>1, <2>2, <2>3, Zenon
<1>7. after = Loop(after)
  BY <1>6
<1>8. C!Hit(row) = after[N].hit
  BY DEF C!Hit, first
<1> HIDE DEF after
<1>9. after[0] = first /\ \A i \in 1 .. N : after[i] = C!Turn(after[i - 1], i, row)
  <2>1. \A i \in 0 .. N : after[i] = Loop(after)[i]
    BY <1>7
  <2> QED BY <1>1, <2>1
<1> DEFINE Ok == {i \in 0 .. N : Searched(after[i], i, row)}
           at == [i \in 0 .. N |-> i]
<1>10. 0 \in Ok
  <2>1. RowBehind(0) = first.iy /\ first.hit = 0
    BY RowBehindFirst DEF first
  <2>2. Searched(first, 0, row)
    BY <2>1 DEF Searched
  <2> QED BY <1>1, <1>9, <2>2
<1>11. \A i \in 1 .. N : i - 1 \in Ok => i \in Ok
  <2> SUFFICES ASSUME NEW i \in 1 .. N, Searched(after[i - 1], i - 1, row)
               PROVE  Searched(after[i], i, row)
    OBVIOUS
  <2>1. i - 1 \in 0 .. Len(items) - 1 /\ (i - 1) + 1 = i
    BY <1>1
  <2>2. Searched(C!Turn(after[i - 1], (i - 1) + 1, row), (i - 1) + 1, row)
    BY <2>1, TurnSearches
  <2> QED BY <1>9, <2>1, <2>2
<1>12. N \in Ok
  <2>1. at[0] \in Ok
    BY <1>1, <1>10
  <2>2. \A i \in 1 .. N : at[i - 1] \in Ok => at[i] \in Ok
    BY <1>1, <1>11
  <2> HIDE DEF Ok, at, N
  <2>3. \A i \in 0 .. N : at[i] \in Ok
    BY <1>1, <2>1, <2>2, LoopInvariant
  <2> QED BY <1>1, <2>3 DEF at
<1> QED BY <1>1, <1>8, <1>12 DEF Searched

LEMMA MenuInit == C!Init => MenuInv
<1>1. << >> \in Seq(Items)
  OBVIOUS
<1> SUFFICES ASSUME C!Init PROVE MenuInv
  OBVIOUS
<1>2. items = << >> /\ y = 0 /\ visible = FALSE /\ hovered = 0
  BY DEF C!Init
<1>3. items \in Seq(Items) /\ y \in Int /\ ~(hovered # 0)
  BY <1>1, <1>2
<1> QED BY <1>2, <1>3, Zenon DEF MenuInv

(* Events have rows. *)
LEMMA EventRows ==
  \A e \in C!Events : e.row \in Int /\ e.click \in BOOLEAN /\ e.beside \in BOOLEAN
<1>1. ASSUME NEW e \in C!Events
      PROVE  e.row \in Int /\ e.click \in BOOLEAN /\ e.beside \in BOOLEAN
  <2>1. PICK r \in Places, d \in -1 .. HEAD + FOOT + CTX_MAX_ITEMS * CTX_ITEM_H + 1 : e.row = r + d
    BY DEF C!Events
  <2>2. d \in Int /\ r \in Int
    BY MenuSizes
  <2> QED BY <2>1, <2>2 DEF C!Events
<1> QED BY <1>1

LEMMA CallKeeps ==
  ASSUME MenuInv, C!Call
  PROVE  MenuInv'
<1>1. CASE C!ctx_init
  <2>1. << >> \in Seq(Items)
    OBVIOUS
  <2>2. items' = << >> /\ y' = 0 /\ visible' = FALSE /\ hovered' = 0
    BY <1>1 DEF C!ctx_init
  <2>3. items' \in Seq(Items) /\ y' \in Int /\ ~(hovered' # 0)
    BY <2>1, <2>2
  <2> QED BY <2>2, <2>3, Zenon DEF MenuInv
<1>2. ASSUME NEW item \in C!Kind \cup {SEPARATOR}, C!ctx_add(item)
      PROVE  MenuInv'
  <2>1. items \in Seq(Items) /\ item \in Items
    BY DEF MenuInv, C!Kind, Items
  <2>2. /\ items' \in Seq(Items) /\ Len(items') = Len(items) + 1
        /\ \A i \in 1 .. Len(items) : items'[i] = items[i]
    BY <1>2, <2>1 DEF C!ctx_add
  <2> QED BY <1>2, <2>1, <2>2 DEF C!ctx_add, MenuInv
<1>3. ASSUME NEW row \in Places, C!ctx_show(row)
      PROVE  MenuInv'
  <2>1. row \in Int
    BY MenuSizes
  <2> QED BY <1>3, <2>1 DEF C!ctx_show, MenuInv
<1>4. CASE C!ctx_hide
  BY <1>4 DEF C!ctx_hide, C!Hidden, MenuInv
<1> QED BY <1>1, <1>2, <1>3, <1>4 DEF C!Call

(* What a mouse event calls is what is drawn under the pointer.            *)
RunsDrawn(e) ==
  \/ ran' = NULL /\ ~\E i \in DOMAIN items :
          /\ e.click /\ ~C!Outside(e) /\ C!DrawnAt(i, e.row) /\ items[i] # NULL
  \/ e.click /\ ~C!Outside(e) /\ \E i \in DOMAIN items :
          C!DrawnAt(i, e.row) /\ items[i] = ran' /\ hovered' = i

LEMMA MouseKeeps ==
  ASSUME MenuInv, NEW e \in C!Events, C!ctx_handle_mouse(e)
  PROVE  MenuInv' /\ RunsDrawn(e)
<1>1. e.row \in Int /\ e.click \in BOOLEAN /\ e.beside \in BOOLEAN
  BY EventRows
<1>2. /\ C!Hit(e.row) \in 0 .. Len(items)
      /\ C!Hit(e.row) # 0 => C!DrawnAt(C!Hit(e.row), e.row)
      /\ \A i \in 1 .. Len(items) : C!DrawnAt(i, e.row) => i = C!Hit(e.row)
  BY <1>1, HitIsDrawn
<1>3. DOMAIN items = 1 .. Len(items) /\ Len(items) \in Nat
  BY DEF MenuInv
<1>4. CASE e.click /\ C!Outside(e)
  <2>1. C!Hidden /\ ran' = NULL
    BY <1>4 DEF C!ctx_handle_mouse
  <2> QED BY <1>4, <2>1 DEF C!Hidden, MenuInv, RunsDrawn
<1>5. CASE ~(e.click /\ C!Outside(e))
  <2>1. /\ hovered' = C!Under(e)
        /\ ran' = IF C!Calls(e) THEN items[C!Under(e)] ELSE NULL
        /\ visible /\ UNCHANGED <<items, y, h, visible>>
    BY <1>5 DEF C!ctx_handle_mouse
  <2>2. C!Under(e) \in 0 .. Len(items) /\ (C!Under(e) # 0 => C!DrawnAt(C!Under(e), e.row))
    BY <1>2, <1>3 DEF C!Under
  <2>3. C!Under(e) # 0 => C!Under(e) \in 1 .. Len(items) /\ items[C!Under(e)] # SEPARATOR
    BY <1>3, <2>2 DEF C!DrawnAt
  <2>4. MenuInv'
    BY <2>1, <2>3 DEF MenuInv
  <2>5. CASE C!Calls(e)
    <3>1. e.click /\ ~C!Outside(e) /\ C!Under(e) # 0
      BY <1>5, <2>5 DEF C!Calls
    <3> QED BY <1>3, <2>1, <2>2, <2>3, <2>4, <2>5, <3>1 DEF RunsDrawn
  <2>6. CASE ~C!Calls(e)
    <3>1. ASSUME NEW i \in 1 .. Len(items), e.click, ~C!Outside(e), C!DrawnAt(i, e.row),
                 items[i] # NULL
          PROVE  FALSE
      <4>1. ~e.beside
        BY <3>1 DEF C!Outside
      <4>2. C!Under(e) = i /\ i # 0
        BY <1>2, <3>1, <4>1 DEF C!Under
      <4> QED BY <2>6, <3>1, <4>2 DEF C!Calls
    <3> QED BY <1>3, <2>1, <2>4, <2>6, <3>1 DEF RunsDrawn
  <2> QED BY <2>5, <2>6
<1> QED BY <1>4, <1>5

LEMMA ReturnKeeps ==
  ASSUME MenuInv, C!CallbackReturns
  PROVE  MenuInv'
BY DEF MenuInv, C!CallbackReturns, C!Hidden

LEMMA MenuStep == MenuInv /\ [C!Next]_(C!vars) => MenuInv'
<1> SUFFICES ASSUME MenuInv, [C!Next]_(C!vars) PROVE MenuInv'
  OBVIOUS
<1>1. CASE UNCHANGED C!vars
  BY <1>1 DEF C!vars, C!menu, MenuInv
<1> QED BY <1>1, CallKeeps, MouseKeeps, ReturnKeeps DEF C!Next

(* A click calls what is drawn.                                            *)
LEMMA MenuRuns == C!Spec => C!ClicksRunWhatIsDrawn
<1> DEFINE Drawn == \A e \in C!Events : C!ctx_handle_mouse(e) => RunsDrawn(e)
           OnItem == calling = "idle" /\ hovered' # 0 => visible' /\ items'[hovered'] # SEPARATOR
<1>1. MenuInv /\ [C!Next]_(C!vars) => MenuInv'
  BY MenuStep
<1>2. MenuInv /\ MenuInv' /\ [C!Next]_(C!vars) => [Drawn /\ OnItem]_(C!vars)
  BY MouseKeeps DEF MenuInv
<1> QED BY <1>1, <1>2, MenuInit, PTL DEF C!Spec, C!ClicksRunWhatIsDrawn, RunsDrawn

-----------------------------------------------------------------------------
(* The editor against the plain text it implements, about the values of    *)
(* its variables: ls the lines and n how many are in use.                  *)

(* What is in front of the last element of two sequences in a row.         *)
LEMMA FrontOfConcat ==
  ASSUME NEW K, NEW b \in Seq(K), NEW r \in Seq(K), r # << >>
  PROVE  /\ E!Front(r) \in Seq(K) /\ Len(E!Front(r)) = Len(r) - 1
         /\ \A i \in 1 .. Len(r) - 1 : E!Front(r)[i] = r[i]
         /\ E!Front(b \o r) = b \o E!Front(r)
<1> DEFINE f == E!Front(r)
           g == E!Front(b \o r)
<1>1. Len(r) \in Nat \ {0} /\ Len(b) \in Nat
  BY EmptySeq, LenProperties
<1>2. /\ f \in Seq(K) /\ Len(f) = Len(r) - 1
      /\ \A i \in 1 .. Len(r) - 1 : f[i] = r[i]
  <2>1. \A i \in 1 .. Len(r) - 1 : r[i] \in K
    BY <1>1, ElementOfSeq
  <2>2. PICK n \in Nat : n = Len(r) - 1
    BY <1>1
  <2>3. f = SubSeq(r, 1, n) /\ \A i \in 1 .. n : r[i] \in K
    BY <2>1, <2>2 DEF E!Front
  <2> HIDE DEF f
  <2>4. /\ f \in Seq(K) /\ Len(f) = IF 1 <= n THEN n - 1 + 1 ELSE 0
        /\ \A i \in 1 .. n - 1 + 1 : f[i] = r[1 + i - 1]
    BY <2>3, SubSeqProperties
  <2>5. Len(f) = n /\ 1 .. n - 1 + 1 = 1 .. n
    BY <2>4
  <2>6. ASSUME NEW i \in 1 .. n PROVE f[i] = r[i]
    <3>1. 1 + i - 1 = i
      OBVIOUS
    <3> QED BY <2>4, <2>5, <3>1
  <2> QED BY <2>2, <2>4, <2>5, <2>6
<1>3. /\ b \o r \in Seq(K) /\ Len(b \o r) = Len(b) + Len(r)
      /\ \A i \in 1 .. Len(b) + Len(r) : (b \o r)[i] = IF i <= Len(b) THEN b[i] ELSE r[i - Len(b)]
  BY ConcatProperties
<1>4. /\ g \in Seq(K) /\ Len(g) = Len(b) + Len(r) - 1
      /\ \A i \in 1 .. Len(b) + Len(r) - 1 : g[i] = (b \o r)[i]
  <2>1. \A i \in 1 .. Len(b) + Len(r) - 1 : (b \o r)[i] \in K
    BY <1>1, <1>3, ElementOfSeq
  <2>2. Len(b) + Len(r) - 1 \in Int /\ (1 <= Len(b) + Len(r) \/ Len(b) + Len(r) - 1 = 0)
    BY <1>1
  <2>3. g = SubSeq(b \o r, 1, Len(b) + Len(r) - 1)
    BY <1>3 DEF E!Front
  <2> HIDE DEF g
  <2> QED BY <1>1, <2>1, <2>2, <2>3, SubSeqProperties
<1> HIDE DEF f, g
<1>5. /\ b \o f \in Seq(K) /\ Len(b \o f) = Len(b) + Len(f)
      /\ \A i \in 1 .. Len(b) + Len(f) : (b \o f)[i] = IF i <= Len(b) THEN b[i] ELSE f[i - Len(b)]
  BY <1>2, ConcatProperties
<1>6. g = b \o f
  <2>1. ASSUME NEW i \in 1 .. Len(g)
        PROVE  g[i] = (b \o f)[i]
    <3>1. i \in 1 .. Len(b) + Len(r) /\ i \in 1 .. Len(b) + Len(f) /\ i \in 1 .. Len(b) + Len(r) - 1
      BY <1>1, <1>2, <1>4
    <3>2. CASE i <= Len(b)
      BY <1>3, <1>4, <1>5, <3>1, <3>2
    <3>3. CASE ~ (i <= Len(b))
      <4>1. i - Len(b) \in 1 .. Len(r) - 1
        BY <1>1, <3>1, <3>3
      <4>2. f[i - Len(b)] = r[i - Len(b)]
        BY <1>2, <4>1
      <4> QED BY <1>3, <1>4, <1>5, <3>1, <3>3, <4>2
    <3> QED BY <3>2, <3>3
  <2>2. Len(g) = Len(b \o f)
    BY <1>1, <1>2, <1>4, <1>5
  <2> QED BY <1>4, <1>5, <2>1, <2>2, SeqEqual
<1> QED BY <1>2, <1>6 DEF f, g

(* What is before and what is behind the end of the first of two sequences *)
(* in a row.                                                               *)
LEMMA CutConcat ==
  ASSUME NEW K, NEW b \in Seq(K), NEW a \in Seq(K)
  PROVE  /\ SubSeq(b \o a, 1, Len(b)) = b
         /\ SubSeq(b \o a, Len(b) + 1, Len(b \o a)) = a
<1> DEFINE s == b \o a
<1>1. /\ Len(a) \in Nat /\ Len(b) \in Nat
      /\ s \in Seq(K) /\ Len(s) = Len(b) + Len(a)
      /\ \A i \in 1 .. Len(b) + Len(a) : s[i] = IF i <= Len(b) THEN b[i] ELSE a[i - Len(b)]
  BY ConcatProperties, LenProperties
<1> HIDE DEF s
<1>2. \A i \in 1 .. Len(s) : s[i] \in K
  BY <1>1, ElementOfSeq
<1>3. SubSeq(s, 1, Len(b)) = b
  <2>1. /\ SubSeq(s, 1, Len(b)) \in Seq(K)
        /\ Len(SubSeq(s, 1, Len(b))) = IF 1 <= Len(b) THEN Len(b) - 1 + 1 ELSE 0
        /\ \A i \in 1 .. Len(b) - 1 + 1 : SubSeq(s, 1, Len(b))[i] = s[1 + i - 1]
    BY <1>1, <1>2, SubSeqProperties
  <2> DEFINE p == SubSeq(s, 1, Len(b))
  <2> HIDE DEF p
  <2>2. p \in Seq(K) /\ Len(p) = Len(b) /\ \A i \in 1 .. Len(p) : p[i] = b[i]
    BY <1>1, <2>1 DEF p
  <2> QED BY <2>2, SeqEqual DEF p
<1>4. SubSeq(s, Len(b) + 1, Len(s)) = a
  <2>1. /\ SubSeq(s, Len(b) + 1, Len(s)) \in Seq(K)
        /\ Len(SubSeq(s, Len(b) + 1, Len(s))) = IF Len(b) + 1 <= Len(s) THEN Len(s) - (Len(b) + 1) + 1 ELSE 0
        /\ \A i \in 1 .. Len(s) - (Len(b) + 1) + 1 :
             SubSeq(s, Len(b) + 1, Len(s))[i] = s[Len(b) + 1 + i - 1]
    <3>1. Len(b) + 1 \in Int /\ Len(s) \in Int
      BY <1>1
    <3>2. \A i \in Len(b) + 1 .. Len(s) : s[i] \in K
      BY <1>1, <1>2
    <3> QED BY <3>1, <3>2, SubSeqProperties
  <2> DEFINE p == SubSeq(s, Len(b) + 1, Len(s))
  <2> HIDE DEF p
  <2>2. p \in Seq(K) /\ Len(p) = Len(a)
    BY <1>1, <2>1 DEF p
  <2>3. ASSUME NEW i \in 1 .. Len(p) PROVE p[i] = a[i]
    <3>1. /\ i \in 1 .. Len(s) - (Len(b) + 1) + 1
          /\ Len(b) + 1 + i - 1 = Len(b) + i
          /\ Len(b) + i \in 1 .. Len(b) + Len(a)
          /\ ~ (Len(b) + i <= Len(b)) /\ Len(b) + i - Len(b) = i
      BY <1>1, <2>2
    <3>2. p[i] = s[Len(b) + i]
      BY <2>1, <3>1 DEF p
    <3> QED BY <1>1, <3>1, <3>2
  <2> QED BY <2>2, <2>3, SeqEqual DEF p
<1> QED BY <1>3, <1>4 DEF s

-----------------------------------------------------------------------------
(* The lines of the editor and their text, of any lines ls.                *)
Chr == Letter \cup {SPACE}
Txt == Chr \cup {NL}
Buffers == [E!LineIndex -> Seq(Chr)]

Upto(ls) == CHOOSE up : up = [i \in 0 .. EDIT_MAX_LINES |->
              IF i = 0 THEN << >> ELSE up[i - 1] \o ls[i - 1] \o <<NL>>]

FlatOf(ls, n) == E!Front(Upto(ls)[n])

LEMMA EditorAssumed == E!EditorAssumption
BY DesktopAssumption

(* A line is a text, and so is its end.                                    *)
LEMMA LinesAreText ==
  ASSUME NEW ls \in Buffers, NEW i \in E!LineIndex
  PROVE  /\ ls[i] \in Seq(Chr) /\ ls[i] \in Seq(Txt) /\ Len(ls[i]) \in Nat
         /\ <<NL>> \in Seq(Txt) /\ Len(<<NL>>) = 1
         /\ \A k \in 1 .. Len(ls[i]) : ls[i][k] # NL
<1>1. ls[i] \in Seq(Chr)
  BY DEF Buffers
<1>2. Chr \subseteq Txt /\ NL \notin Chr
  BY EditorAssumed DEF E!EditorAssumption, Chr, Txt
<1>3. ls[i] \in Seq(Txt)
  BY <1>1, <1>2, SeqMonotonic
<1>4. <<NL>> \in Seq(Txt) /\ Len(<<NL>>) = 1
  BY DEF Txt
<1>5. \A k \in 1 .. Len(ls[i]) : ls[i][k] # NL
  BY <1>1, <1>2, ElementOfSeq
<1> QED BY <1>1, <1>3, <1>4, <1>5, LenProperties

(* Texts in a row, and their brackets.                                     *)
LEMMA TextConcat ==
  \A a, b \in Seq(Txt) : a \o b \in Seq(Txt) /\ Len(a \o b) = Len(a) + Len(b)
BY ConcatProperties

LEMMA TextAssoc ==
  \A a, b, c \in Seq(Txt) : (a \o b) \o c = a \o (b \o c)
BY ConcatAssociative

(* What the recursion says.                                                *)
LEMMA UptoRuns ==
  ASSUME NEW ls \in Buffers
  PROVE  /\ Upto(ls)[0] = << >>
         /\ \A i \in 0 .. EDIT_MAX_LINES : Upto(ls)[i] \in Seq(Txt)
         /\ \A i \in E!LineIndex : Upto(ls)[i + 1] = Upto(ls)[i] \o ls[i] \o <<NL>>
<1> DEFINE top == EDIT_MAX_LINES
           FlatTexts == Seq(Txt)
           Turn(s, i) == s \o ls[i - 1] \o <<NL>>
           F == [x \in FlatTexts \X (1 .. top) |-> Turn(x[1], x[2])]
           Loop(f) == [i \in 0 .. top |-> IF i = 0 THEN << >> ELSE Turn(f[i - 1], i)]
           up == Upto(ls)
<1>1. top \in Nat /\ << >> \in FlatTexts /\ E!LineIndex = 0 .. top - 1
  BY EditorAssumed DEF E!EditorAssumption, E!LineIndex
<1>2. ASSUME NEW s \in FlatTexts, NEW i \in 1 .. top
      PROVE  Turn(s, i) \in FlatTexts
  <2>1. i - 1 \in E!LineIndex
    BY <1>1
  <2>2. ls[i - 1] \in FlatTexts /\ <<NL>> \in FlatTexts
    BY <2>1, LinesAreText
  <2> QED BY <2>2, ConcatProperties
<1>3. up = CHOOSE f : f = Loop(f)
  BY DEF Upto
<1>4. \A s, i : Turn(s, i) = s \o ls[i - 1] \o <<NL>>
  OBVIOUS
<1> HIDE DEF FlatTexts, Turn, top, up
<1>5. F \in [FlatTexts \X (1 .. top) -> FlatTexts]
  BY <1>2
<1>6. PICK g : IsLoop(g, top, FlatTexts, << >>, F)
  <2> HIDE DEF F
  <2> QED BY <1>1, <1>5, LoopExists
<1>7. /\ g \in [0 .. top -> FlatTexts] /\ g[0] = << >>
      /\ \A i \in 1 .. top : g[i] = Turn(g[i - 1], i)
  <2>1. /\ g \in [0 .. top -> FlatTexts] /\ g[0] = << >>
        /\ \A i \in 1 .. top : g[i] = F[<<g[i - 1], i>>]
    <3> HIDE DEF F
    <3> QED BY <1>6 DEF IsLoop
  <2>2. ASSUME NEW i \in 1 .. top
        PROVE  F[<<g[i - 1], i>>] = Turn(g[i - 1], i)
    <3>1. <<g[i - 1], i>> \in FlatTexts \X (1 .. top)
      BY <1>1, <2>1
    <3> QED BY <3>1
  <2> HIDE DEF F
  <2> QED BY <2>1, <2>2
<1>8. g = Loop(g)
  <2>1. \A i \in 0 .. top : g[i] = Loop(g)[i]
    BY <1>1, <1>7
  <2>2. g = [i \in 0 .. top |-> g[i]]
    BY <1>7
  <2> HIDE DEF Loop
  <2>3. Loop(g) = [i \in 0 .. top |-> Loop(g)[i]]
    BY DEF Loop
  <2> QED BY <2>1, <2>2, <2>3, Zenon
<1>9. up = Loop(up)
  BY <1>3, <1>8
<1>10. up[0] = << >> /\ \A i \in 1 .. top : up[i] = Turn(up[i - 1], i)
  <2>1. \A i \in 0 .. top : up[i] = Loop(up)[i]
    BY <1>9
  <2> QED BY <1>1, <2>1
<1>11. \A i \in 0 .. top : up[i] \in FlatTexts
  <2>1. \A i \in 1 .. top : up[i - 1] \in FlatTexts => up[i] \in FlatTexts
    BY <1>2, <1>10
  <2> QED BY <1>1, <1>10, <2>1, LoopInvariant
<1>12. ASSUME NEW i \in E!LineIndex
       PROVE  up[i + 1] = up[i] \o ls[i] \o <<NL>>
  <2>1. i + 1 \in 1 .. top /\ (i + 1) - 1 = i
    BY <1>1
  <2>2. up[i + 1] = Turn(up[(i + 1) - 1], i + 1)
    BY <1>10, <2>1
  <2>3. Turn(up[i], i + 1) = up[i] \o ls[(i + 1) - 1] \o <<NL>>
    BY <1>4, Zenon
  <2> QED BY <2>1, <2>2, <2>3
<1> QED BY <1>10, <1>11, <1>12 DEF up, FlatTexts, top

(* Lines that are the same have the same text in front of them.            *)
LEMMA SameFront ==
  ASSUME NEW ls \in Buffers, NEW ms \in Buffers, NEW n \in 0 .. EDIT_MAX_LINES,
         \A i \in 0 .. n - 1 : ls[i] = ms[i]
  PROVE  Upto(ls)[n] = Upto(ms)[n]
<1> DEFINE Ok == {i \in 0 .. n : Upto(ls)[i] = Upto(ms)[i]}
           id == [i \in 0 .. n |-> i]
<1>1. n \in Nat /\ E!LineIndex = 0 .. EDIT_MAX_LINES - 1 /\ EDIT_MAX_LINES \in Nat
  BY EditorAssumed DEF E!EditorAssumption, E!LineIndex
<1>2. id[0] \in Ok /\ \A i \in 0 .. n : id[i] = i
  <2>1. Upto(ls)[0] = << >>
    BY UptoRuns
  <2>2. Upto(ms)[0] = << >>
    BY UptoRuns
  <2>3. 0 \in 0 .. n
    BY <1>1
  <2> QED BY <2>1, <2>2, <2>3, Zenon
<1>3. ASSUME NEW i \in 1 .. n, id[i - 1] \in Ok
      PROVE  id[i] \in Ok
  <2>1. i - 1 \in E!LineIndex /\ i - 1 \in 0 .. n /\ i - 1 + 1 = i /\ i - 1 \in 0 .. n - 1
    BY <1>1
  <2>2. Upto(ls)[i - 1] = Upto(ms)[i - 1]
    BY <1>2, <1>3, <2>1
  <2>3. Upto(ls)[i] = Upto(ls)[i - 1] \o ls[i - 1] \o <<NL>>
    BY <2>1, UptoRuns
  <2>4. Upto(ms)[i] = Upto(ms)[i - 1] \o ms[i - 1] \o <<NL>>
    BY <2>1, UptoRuns
  <2>5. ls[i - 1] = ms[i - 1]
    BY <2>1
  <2>6. Upto(ls)[i] = Upto(ms)[i]
    BY <2>2, <2>3, <2>4, <2>5, Zenon
  <2> QED BY <1>2, <2>6
<1> HIDE DEF Ok, id
<1>4. \A i \in 0 .. n : id[i] \in Ok
  BY <1>1, <1>2, <1>3, LoopInvariant
<1> QED BY <1>1, <1>2, <1>4 DEF Ok

(* The text is what is in front of a line, the line, and what is behind.   *)
LEMMA AroundLine ==
  ASSUME NEW ls \in Buffers, NEW c \in E!LineIndex, NEW m, NEW s \in Seq(Txt),
         Upto(ls)[m] = Upto(ls)[c + 1] \o s
  PROVE  FlatOf(ls, m) = Upto(ls)[c] \o (ls[c] \o E!Front(<<NL>> \o s))
<1> DEFINE u == Upto(ls)[c]
           line == ls[c]
           r == <<NL>> \o s
<1>1. /\ u \in Seq(Txt) /\ line \in Seq(Txt) /\ <<NL>> \in Seq(Txt)
      /\ Upto(ls)[c + 1] = u \o line \o <<NL>>
  <2>1. c \in 0 .. EDIT_MAX_LINES
    BY EditorAssumed DEF E!EditorAssumption, E!LineIndex
  <2> QED BY <2>1, UptoRuns, LinesAreText
<1>2. Upto(ls)[m] = ((u \o line) \o <<NL>>) \o s
  BY <1>1
<1> HIDE DEF u, line
<1>3. u \o line \in Seq(Txt)
  BY <1>1, ConcatProperties
<1>4. ((u \o line) \o <<NL>>) \o s = (u \o line) \o r
  BY <1>1, <1>3, ConcatAssociative
<1>5. r \in Seq(Txt) /\ r # << >>
  <2>1. r \in Seq(Txt) /\ Len(r) = 1 + Len(s) /\ Len(s) \in Nat
    BY <1>1, ConcatProperties, LenProperties
  <2>2. Len(r) # 0
    BY <2>1
  <2> QED BY <2>1, <2>2, EmptySeq
<1> HIDE DEF r
<1>6. E!Front((u \o line) \o r) = (u \o line) \o E!Front(r)
  BY <1>3, <1>5, FrontOfConcat
<1>7. (u \o line) \o E!Front(r) = u \o (line \o E!Front(r))
  <2>1. E!Front(r) \in Seq(Txt)
    BY <1>5, EmptySeq, FrontOfConcat
  <2> QED BY <1>1, <2>1, TextAssoc, Zenon
<1> QED BY <1>2, <1>4, <1>6, <1>7 DEF FlatOf, u, line, r

(* Of two texts whose lines behind some line are the same, maybe one line  *)
(* further down or up, the same is behind that line.                       *)
LEMMA FlatAround ==
  ASSUME NEW ls \in Buffers, NEW ms \in Buffers,
         NEW n \in 1 .. EDIT_MAX_LINES, NEW c \in 0 .. n - 1,
         NEW d \in {-1, 0, 1}, c + d >= 0, n + d <= EDIT_MAX_LINES,
         \A i \in c + 1 .. n - 1 : ms[i + d] = ls[i]
  PROVE  \E w \in Seq(Txt) : /\ Len(w) > 0 => w[1] = NL
                             /\ FlatOf(ls, n) = Upto(ls)[c] \o (ls[c] \o w)
                             /\ FlatOf(ms, n + d) = Upto(ms)[c + d] \o (ms[c + d] \o w)
<1> DEFINE Rest(j, s) == /\ Upto(ls)[c + 1 + j] = Upto(ls)[c + 1] \o s
                         /\ Upto(ms)[c + d + 1 + j] = Upto(ms)[c + d + 1] \o s
           k == n - c - 1
           Ok == {j \in 0 .. k : \E s \in Seq(Txt) : Rest(j, s)}
           id == [j \in 0 .. k |-> j]
<1>1. /\ n \in Nat /\ c \in Nat /\ d \in Int /\ k \in Nat /\ c + d \in Nat
      /\ EDIT_MAX_LINES \in Nat /\ E!LineIndex = 0 .. EDIT_MAX_LINES - 1
      /\ c \in E!LineIndex /\ c + d \in E!LineIndex
      /\ c + 1 + k = n /\ c + d + 1 + k = n + d
  BY EditorAssumed DEF E!EditorAssumption, E!LineIndex
<1>2. Rest(0, << >>) /\ << >> \in Seq(Txt)
  <2>1. c + 1 \in 0 .. EDIT_MAX_LINES /\ c + d + 1 \in 0 .. EDIT_MAX_LINES
        /\ c + 1 + 0 = c + 1 /\ c + d + 1 + 0 = c + d + 1
    BY <1>1
  <2>2. Upto(ls)[c + 1] \in Seq(Txt) /\ Upto(ms)[c + d + 1] \in Seq(Txt)
    BY <2>1, UptoRuns
  <2>3. /\ Upto(ls)[c + 1] \o << >> = Upto(ls)[c + 1]
        /\ Upto(ms)[c + d + 1] \o << >> = Upto(ms)[c + d + 1]
    BY <2>2, ConcatEmptySeq
  <2> QED BY <2>1, <2>3, EmptySeq
<1>3. ASSUME NEW j \in 1 .. k, NEW s \in Seq(Txt), Rest(j - 1, s)
      PROVE  \E t \in Seq(Txt) : Rest(j, t)
  <2> DEFINE i == c + j
             t == s \o ls[i] \o <<NL>>
  <2>1. /\ i \in E!LineIndex /\ i + d \in E!LineIndex
        /\ c + 1 + (j - 1) = i /\ c + 1 + j = i + 1
        /\ c + d + 1 + (j - 1) = i + d /\ c + d + 1 + j = i + d + 1
        /\ ms[i + d] = ls[i]
        /\ c + 1 \in 0 .. EDIT_MAX_LINES /\ c + d + 1 \in 0 .. EDIT_MAX_LINES
    BY <1>1
  <2> HIDE DEF i
  <2>2. /\ Upto(ls)[i] = Upto(ls)[c + 1] \o s
        /\ Upto(ms)[i + d] = Upto(ms)[c + d + 1] \o s
    BY <1>3, <2>1
  <2>3. ls[i] \in Seq(Txt) /\ <<NL>> \in Seq(Txt) /\ s \o ls[i] \in Seq(Txt) /\ t \in Seq(Txt)
    <3>1. ls[i] \in Seq(Txt) /\ <<NL>> \in Seq(Txt)
      BY <2>1, LinesAreText
    <3> QED BY <3>1, ConcatProperties
  <2>4. ASSUME NEW u \in Seq(Txt)
        PROVE  (u \o s) \o ls[i] \o <<NL>> = u \o t
    <3> DEFINE l == ls[i]
               e == <<NL>>
    <3>1. l \in Seq(Txt) /\ e \in Seq(Txt)
      BY <2>3
    <3> HIDE DEF l, e, t
    <3>2. ((u \o s) \o l) \o e = u \o ((s \o l) \o e)
      <4>1. u \in Seq(Txt) /\ s \in Seq(Txt)
        OBVIOUS
      <4> DEFINE sl == s \o l
      <4>2. (u \o s) \o l = u \o sl
        BY <3>1, <4>1, TextAssoc, Zenon
      <4>3. sl \in Seq(Txt)
        BY <3>1, <4>1, TextConcat, Zenon
      <4> HIDE DEF sl
      <4>4. (u \o sl) \o e = u \o (sl \o e)
        BY <3>1, <4>1, <4>3, TextAssoc, Zenon
      <4> QED BY <4>2, <4>4, Zenon DEF sl
    <3> QED BY <3>2, Zenon DEF l, e, t
  <2>5. Upto(ls)[i + 1] = Upto(ls)[i] \o ls[i] \o <<NL>>
    BY <2>1, UptoRuns
  <2>6. Upto(ms)[i + d + 1] = Upto(ms)[i + d] \o ms[i + d] \o <<NL>>
    BY <2>1, UptoRuns
  <2>7. Upto(ls)[c + 1] \in Seq(Txt) /\ Upto(ms)[c + d + 1] \in Seq(Txt)
    BY <2>1, UptoRuns
  <2> HIDE DEF t
  <2>8. Upto(ls)[i + 1] = Upto(ls)[c + 1] \o t
    BY <2>2, <2>4, <2>5, <2>7, Zenon
  <2>9. Upto(ms)[i + d + 1] = Upto(ms)[c + d + 1] \o t
    BY <2>1, <2>2, <2>4, <2>6, <2>7, Zenon
  <2> QED BY <2>1, <2>3, <2>8, <2>9
<1>4. PICK s \in Seq(Txt) : Rest(k, s)
  <2> HIDE DEF Rest
  <2>1. \A j \in 0 .. k : id[j] = j
    OBVIOUS
  <2>2. id[0] \in Ok
    <3>1. id[0] = 0 /\ 0 \in 0 .. k
      BY <1>1, <2>1
    <3>2. \E s \in Seq(Txt) : Rest(0, s)
      BY <1>2
    <3> QED BY <3>1, <3>2, Zenon
  <2>3. \A j \in 1 .. k : id[j - 1] \in Ok => id[j] \in Ok
    <3> SUFFICES ASSUME NEW j \in 1 .. k, j - 1 \in Ok PROVE j \in Ok
      BY <1>1
    <3>1. PICK s \in Seq(Txt) : Rest(j - 1, s)
      OBVIOUS
    <3>2. \E t \in Seq(Txt) : Rest(j, t)
      BY <1>3, <3>1
    <3> QED BY <1>1, <3>2
  <2> HIDE DEF k, id, Ok
  <2>4. \A j \in 0 .. k : id[j] \in Ok
    BY <1>1, <2>2, <2>3, LoopInvariant
  <2>5. k \in Ok
    BY <1>1, <2>1, <2>4
  <2> QED BY <2>5 DEF Ok
<1> DEFINE w == E!Front(<<NL>> \o s)
<1>5. FlatOf(ls, n) = Upto(ls)[c] \o (ls[c] \o w)
  <2>1. Upto(ls)[n] = Upto(ls)[c + 1] \o s
    BY <1>1, <1>4
  <2> QED BY <1>1, <2>1, AroundLine
<1>6. FlatOf(ms, n + d) = Upto(ms)[c + d] \o (ms[c + d] \o w)
  <2>1. Upto(ms)[n + d] = Upto(ms)[(c + d) + 1] \o s
    BY <1>1, <1>4
  <2> QED BY <1>1, <2>1, AroundLine
<1>7. w \in Seq(Txt) /\ (Len(w) > 0 => w[1] = NL)
  <2> DEFINE r == <<NL>> \o s
  <2>1. <<NL>> \in Seq(Txt)
    BY <1>1, LinesAreText
  <2>2. /\ r \in Seq(Txt) /\ Len(r) = 1 + Len(s) /\ Len(s) \in Nat
        /\ r[1] = NL
    <3>1. /\ r \in Seq(Txt) /\ Len(r) = Len(<<NL>>) + Len(s)
          /\ \A i \in 1 .. Len(<<NL>>) + Len(s) : r[i] = IF i <= Len(<<NL>>) THEN <<NL>>[i] ELSE s[i - Len(<<NL>>)]
      BY <2>1, ConcatProperties
    <3>2. Len(<<NL>>) = 1 /\ <<NL>>[1] = NL /\ Len(s) \in Nat
      BY LenProperties
    <3> QED BY <3>1, <3>2
  <2> HIDE DEF r
  <2>3. r # << >> /\ << >> \in Seq(Txt)
    BY <2>2, EmptySeq
  <2>4. /\ E!Front(r) \in Seq(Txt) /\ Len(E!Front(r)) = Len(r) - 1
        /\ \A i \in 1 .. Len(r) - 1 : E!Front(r)[i] = r[i]
    BY <2>3, <2>2, FrontOfConcat
  <2> QED BY <2>2, <2>4 DEF r
<1> QED BY <1>5, <1>6, <1>7

LEMMA EditorMin ==
  ASSUME NEW a \in Int, NEW b \in Int
  PROVE  /\ E!Min({a, b}) = IF a <= b THEN a ELSE b
         /\ E!Max({a, b}) = IF a >= b THEN a ELSE b
<1>1. E!Min({a, b}) \in {a, b} /\ \A q \in {a, b} : E!Min({a, b}) <= q
  <2>1. \E x \in {a, b} : \A q \in {a, b} : x <= q
    OBVIOUS
  <2> QED BY <2>1 DEF E!Min
<1>2. E!Max({a, b}) \in {a, b} /\ \A q \in {a, b} : E!Max({a, b}) >= q
  <2>1. \E x \in {a, b} : \A q \in {a, b} : x >= q
    OBVIOUS
  <2> QED BY <2>1 DEF E!Max
<1> QED BY <1>1, <1>2

(* Where the cursor is in the text.                                        *)
CursorOf(ls, n, cl, col) == LET at == E!Min({cl, n - 1})
                            IN Len(Upto(ls)[at]) + E!Min({col, Len(ls[at])})

LEMMA CursorIn ==
  ASSUME NEW ls \in Buffers, NEW n \in 1 .. EDIT_MAX_LINES,
         NEW cl \in E!LineIndex, NEW col \in Nat
  PROVE  /\ FlatOf(ls, n) \in Seq(Txt)
         /\ CursorOf(ls, n, cl, col) \in 0 .. Len(FlatOf(ls, n))
         /\ cl < n /\ col <= Len(ls[cl]) => CursorOf(ls, n, cl, col) = Len(Upto(ls)[cl]) + col
<1>1. n \in Nat /\ EDIT_MAX_LINES \in Nat /\ E!LineIndex = 0 .. EDIT_MAX_LINES - 1 /\ cl \in Nat
  BY EditorAssumed DEF E!EditorAssumption, E!LineIndex
<1>2. PICK at \in 0 .. n - 1 : at = E!Min({cl, n - 1}) /\ (cl < n => at = cl)
  <2>1. E!Min({cl, n - 1}) = IF cl <= n - 1 THEN cl ELSE n - 1
    BY <1>1, EditorMin
  <2> QED BY <1>1, <2>1
<1>3. at \in E!LineIndex /\ at \in 0 .. EDIT_MAX_LINES
  BY <1>1
<1>4. PICK w \in Seq(Txt) : FlatOf(ls, n) = Upto(ls)[at] \o (ls[at] \o w)
  <2>1. at + 0 >= 0 /\ n + 0 <= EDIT_MAX_LINES /\ 0 \in {-1, 0, 1}
    BY <1>1
  <2>2. \A i \in at + 1 .. n - 1 : ls[i + 0] = ls[i]
    BY <1>1
  <2> QED BY <2>1, <2>2, FlatAround
<1>5. /\ Upto(ls)[at] \in Seq(Txt) /\ ls[at] \in Seq(Txt)
      /\ Len(Upto(ls)[at]) \in Nat /\ Len(ls[at]) \in Nat /\ Len(w) \in Nat
  <2>1. Upto(ls)[at] \in Seq(Txt)
    BY <1>3, UptoRuns
  <2>2. ls[at] \in Seq(Txt)
    BY <1>3, LinesAreText
  <2> QED BY <2>1, <2>2, LenProperties
<1> DEFINE u == Upto(ls)[at]
           line == ls[at]
<1> HIDE DEF u, line
<1>6. /\ u \o (line \o w) \in Seq(Txt)
      /\ Len(u \o (line \o w)) = Len(u) + (Len(line) + Len(w))
  <2>1. u \in Seq(Txt) /\ line \in Seq(Txt)
    BY <1>5 DEF u, line
  <2>2. line \o w \in Seq(Txt) /\ Len(line \o w) = Len(line) + Len(w)
    BY <2>1, TextConcat, Zenon
  <2>3. u \o (line \o w) \in Seq(Txt) /\ Len(u \o (line \o w)) = Len(u) + Len(line \o w)
    BY <2>1, <2>2, TextConcat, Zenon
  <2> QED BY <2>2, <2>3
<1>7. /\ FlatOf(ls, n) \in Seq(Txt)
      /\ Len(FlatOf(ls, n)) = Len(Upto(ls)[at]) + (Len(ls[at]) + Len(w))
  BY <1>4, <1>6 DEF u, line
<1>8. E!Min({col, Len(ls[at])}) = IF col <= Len(ls[at]) THEN col ELSE Len(ls[at])
  BY <1>5, EditorMin
<1>9. CursorOf(ls, n, cl, col) = Len(Upto(ls)[at]) + E!Min({col, Len(ls[at])})
  BY <1>2 DEF CursorOf
<1>10. CursorOf(ls, n, cl, col) \in 0 .. Len(FlatOf(ls, n))
  <2>1. PICK m \in 0 .. Len(ls[at]) : m = E!Min({col, Len(ls[at])})
    BY <1>5, <1>8
  <2>2. PICK x \in Nat, q \in Nat, z \in Nat :
          x = Len(Upto(ls)[at]) /\ q = Len(ls[at]) /\ z = Len(w)
    BY <1>5
  <2>3. CursorOf(ls, n, cl, col) = x + m /\ Len(FlatOf(ls, n)) = x + (q + z) /\ m \in 0 .. q
    BY <1>7, <1>9, <2>1, <2>2
  <2> QED BY <2>3
<1>11. ASSUME cl < n, col <= Len(ls[cl])
       PROVE  CursorOf(ls, n, cl, col) = Len(Upto(ls)[cl]) + col
  BY <1>2, <1>8, <1>9, <1>11
<1> QED BY <1>7, <1>10, <1>11

(* The text of the editor.                                                 *)
LEMMA FlatIs ==
  /\ E!FlatText = FlatOf(lines, line_count)
  /\ E!FlatCursor = CursorOf(lines, line_count, cursor_line, cursor_col)
<1>1. E!UpTo = Upto(lines)
  BY DEF E!UpTo, Upto
<1>2. E!FlatText = FlatOf(lines, line_count)
  BY <1>1 DEF E!FlatText, FlatOf
<1>3. E!FlatCursor = CursorOf(lines, line_count, cursor_line, cursor_col)
  BY <1>1 DEF E!FlatCursor, CursorOf
<1> QED BY <1>2, <1>3

LEMMA FlatIsNext ==
  /\ E!FlatText' = FlatOf(lines', line_count')
  /\ E!FlatCursor' = CursorOf(lines', line_count', cursor_line', cursor_col')
<1>1. E!UpTo' = Upto(lines')
  BY DEF E!UpTo, Upto
<1>2. E!FlatText' = FlatOf(lines', line_count')
  BY <1>1 DEF E!FlatText, FlatOf
<1>3. E!FlatCursor' = CursorOf(lines', line_count', cursor_line', cursor_col')
  BY <1>1 DEF E!FlatCursor, CursorOf
<1> QED BY <1>2, <1>3

(* Lines are within their length and the cursor is on one of them, in use  *)
(* or not.                                                                 *)
EditTyped == /\ lines \in Buffers
             /\ \A i \in E!LineIndex : Len(lines[i]) <= EDIT_MAX_LINE_LEN - 1
             /\ line_count \in Int /\ line_count <= EDIT_MAX_LINES
             /\ cursor_line \in E!LineIndex
             /\ cursor_col \in Nat

(* Nothing is typed yet.                                                   *)
LEMMA EditInit == E!Init => EditTyped /\ E!Flat!TextInit
<1> SUFFICES ASSUME E!Init PROVE EditTyped /\ E!Flat!TextInit
  OBVIOUS
<1>1. /\ EDIT_MAX_LINES \in Nat \ {0} /\ EDIT_MAX_LINE_LEN \in Nat \ {0}
      /\ E!LineIndex = 0 .. EDIT_MAX_LINES - 1 /\ 0 \in E!LineIndex
  BY EditorAssumed DEF E!EditorAssumption, E!LineIndex
<1>2. lines = [i \in E!LineIndex |-> << >>] /\ line_count = 1 /\ cursor_line = 0 /\ cursor_col = 0
  BY DEF E!Init
<1>3. EditTyped
  <2>1. << >> \in Seq(Chr) /\ Len(<< >>) = 0
    BY EmptySeq
  <2>2. lines \in Buffers
    BY <1>2, <2>1 DEF Buffers
  <2> QED BY <1>1, <1>2, <2>1, <2>2 DEF EditTyped
<1>4. Upto(lines)[0] = << >> /\ Upto(lines)[1] = <<NL>>
  <2>1. Upto(lines)[0] = << >>
    BY <1>3, UptoRuns DEF EditTyped
  <2>2. Upto(lines)[0 + 1] = Upto(lines)[0] \o lines[0] \o <<NL>>
    BY <1>1, <1>3, UptoRuns DEF EditTyped
  <2>3. lines[0] = << >>
    BY <1>1, <1>2
  <2>4. << >> \o << >> \o <<NL>> = <<NL>>
    BY EmptySeq, ConcatEmptySeq
  <2> QED BY <2>1, <2>2, <2>3, <2>4
<1>5. E!FlatText = << >>
  <2>1. E!Front(<<NL>>) = << >>
    BY SubSeqEmpty DEF E!Front
  <2> QED BY <1>2, <1>4, <2>1, FlatIs DEF FlatOf
<1>6. E!FlatCursor = 0
  <2>1. E!FlatCursor \in 0 .. Len(E!FlatText)
    <3>1. line_count \in 1 .. EDIT_MAX_LINES /\ cursor_line \in E!LineIndex /\ cursor_col \in Nat
      BY <1>1, <1>2
    <3> QED BY <1>3, <3>1, FlatIs, CursorIn DEF EditTyped
  <2> QED BY <1>5, <2>1
<1> QED BY <1>3, <1>5, <1>6 DEF E!Flat!TextInit

(* Line cl has P and Q in ls, and I between them in ms.                    *)
Inserted(ls, ms, n, cl, P, I, Q) ==
  /\ ls \in Buffers /\ ms \in Buffers
  /\ n \in 1 .. EDIT_MAX_LINES /\ cl \in 0 .. n - 1
  /\ P \in Seq(Chr) /\ I \in Seq(Chr) /\ Q \in Seq(Chr)
  /\ ls[cl] = P \o Q /\ ms[cl] = (P \o I) \o Q
  /\ \A i \in E!LineIndex : i # cl => ms[i] = ls[i]

(* I is between the same b and a, Len(b) characters from the front.        *)
InsertedFlat(ls, ms, n, cl, P, I) ==
  \E b, a \in Seq(Txt) : /\ Len(b) = Len(Upto(ls)[cl]) + Len(P)
                         /\ FlatOf(ls, n) = b \o a
                         /\ FlatOf(ms, n) = (b \o I) \o a

(* Characters that are inserted into a line are inserted into the text.    *)
LEMMA InsertFlat ==
  ASSUME NEW ls, NEW ms, NEW n, NEW cl, NEW P, NEW I, NEW Q, Inserted(ls, ms, n, cl, P, I, Q)
  PROVE  /\ Upto(ms)[cl] = Upto(ls)[cl] /\ Len(Upto(ls)[cl]) \in Nat
         /\ InsertedFlat(ls, ms, n, cl, P, I)
<1> USE DEF Inserted
<1>1. /\ n \in Nat /\ cl \in Nat /\ EDIT_MAX_LINES \in Nat
      /\ E!LineIndex = 0 .. EDIT_MAX_LINES - 1 /\ cl \in E!LineIndex
      /\ cl \in 0 .. EDIT_MAX_LINES
  BY EditorAssumed DEF E!EditorAssumption, E!LineIndex
<1>2. P \in Seq(Txt) /\ I \in Seq(Txt) /\ Q \in Seq(Txt)
  BY SeqMonotonic DEF Txt
<1> DEFINE u == Upto(ls)[cl]
<1>5. Upto(ms)[cl] = u /\ u \in Seq(Txt)
  <2>1. \A i \in 0 .. cl - 1 : ls[i] = ms[i]
    BY <1>1
  <2>2. u \in Seq(Txt)
    BY <1>1, UptoRuns
  <2> QED BY <1>1, <2>1, <2>2, SameFront
<1>6. PICK w \in Seq(Txt) : /\ FlatOf(ls, n) = u \o (ls[cl] \o w)
                            /\ FlatOf(ms, n) = u \o (ms[cl] \o w)
  <2>1. PICK d \in {-1, 0, 1} : d = 0
    OBVIOUS
  <2>2. cl + d = cl /\ n + d = n /\ cl + d >= 0 /\ n + d <= EDIT_MAX_LINES
    BY <1>1, <2>1
  <2>3. \A i \in cl + 1 .. n - 1 : ms[i + d] = ls[i]
    BY <1>1, <2>1
  <2> HIDE DEF u
  <2>4. \E w \in Seq(Txt) : /\ Len(w) > 0 => w[1] = NL
                            /\ FlatOf(ls, n) = Upto(ls)[cl] \o (ls[cl] \o w)
                            /\ FlatOf(ms, n + d) = Upto(ms)[cl + d] \o (ms[cl + d] \o w)
    BY <2>2, <2>3, FlatAround, Zenon
  <2> QED BY <1>5, <2>2, <2>4 DEF u
<1> DEFINE x == Q \o w
<1> HIDE DEF u
<1>7. u \o P \in Seq(Txt) /\ Len(u \o P) = Len(u) + Len(P) /\ x \in Seq(Txt)
  BY <1>2, <1>5, TextConcat, Zenon
<1>8. (P \o Q) \o w = P \o x /\ ((P \o I) \o Q) \o w = (P \o I) \o x
  <2>1. P \o I \in Seq(Txt)
    BY <1>2, TextConcat, Zenon
  <2>2. (P \o Q) \o w = P \o x
    BY <1>2, TextAssoc, Zenon
  <2>3. ((P \o I) \o Q) \o w = (P \o I) \o x
    BY <1>2, <2>1, TextAssoc, Zenon
  <2> QED BY <2>2, <2>3
<1> HIDE DEF x
<1>9. (u \o P) \o x = u \o (P \o x) /\ u \o ((P \o I) \o x) = ((u \o P) \o I) \o x
  <2>1. (u \o P) \o x = u \o (P \o x)
    BY <1>2, <1>5, <1>7, TextAssoc, Zenon
  <2>2. u \o ((P \o I) \o x) = ((u \o P) \o I) \o x
    <3> DEFINE z == P \o I
    <3>1. z \in Seq(Txt) /\ u \in Seq(Txt) /\ x \in Seq(Txt)
      BY <1>2, <1>5, <1>7, TextConcat, Zenon
    <3> HIDE DEF z
    <3>2. (u \o z) \o x = u \o (z \o x)
      BY <3>1, TextAssoc, Zenon
    <3>3. (u \o P) \o I = u \o (P \o I)
      BY <1>2, <1>5, TextAssoc, Zenon
    <3> QED BY <3>2, <3>3, Zenon DEF z
  <2> QED BY <2>1, <2>2
<1>10. FlatOf(ls, n) = (u \o P) \o x
  BY <1>6, <1>8, <1>9, Zenon
<1>11. FlatOf(ms, n) = ((u \o P) \o I) \o x
  BY <1>6, <1>8, <1>9, Zenon
<1>12. Len(u) \in Nat
  BY <1>5, LenProperties
<1>13. InsertedFlat(ls, ms, n, cl, P, I)
  <2> DEFINE b == u \o P
  <2>1. Len(b) = Len(Upto(ls)[cl]) + Len(P) /\ b \in Seq(Txt)
    BY <1>7 DEF u
  <2> HIDE DEF b
  <2> QED BY <1>7, <1>10, <1>11, <2>1, Zenon DEF InsertedFlat, b
<1> QED BY <1>5, <1>12, <1>13 DEF u

(* Line cl of ls is split into cl and cl + 1 of ms.                        *)
Split(ls, ms, n, cl) ==
  /\ ls \in Buffers /\ ms \in Buffers
  /\ n \in 1 .. EDIT_MAX_LINES - 1 /\ cl \in 0 .. n - 1
  /\ ls[cl] = ms[cl] \o ms[cl + 1]
  /\ \A i \in 0 .. cl - 1 : ls[i] = ms[i]
  /\ \A i \in cl + 1 .. n - 1 : ms[i + 1] = ls[i]

SplitInFlat(ls, ms, n, cl) ==
  \E b, a \in Seq(Txt) : /\ Len(b) = Len(Upto(ls)[cl]) + Len(ms[cl])
                         /\ Len(Upto(ms)[cl + 1]) = Len(b) + 1
                         /\ FlatOf(ls, n) = b \o a
                         /\ FlatOf(ms, n + 1) = (b \o <<NL>>) \o a

(* A line that is split is one NL more in the text.                        *)
LEMMA SplitFlat ==
  ASSUME NEW ls, NEW ms, NEW n, NEW cl, Split(ls, ms, n, cl)
  PROVE  SplitInFlat(ls, ms, n, cl)
<1> USE DEF Split
<1>1. /\ n \in Nat /\ cl \in Nat /\ EDIT_MAX_LINES \in Nat
      /\ E!LineIndex = 0 .. EDIT_MAX_LINES - 1 /\ cl \in E!LineIndex /\ cl + 1 \in E!LineIndex
      /\ cl \in 0 .. EDIT_MAX_LINES
  BY EditorAssumed DEF E!EditorAssumption, E!LineIndex
<1> DEFINE u == Upto(ls)[cl]
           P == ms[cl]
           Q == ms[cl + 1]
           e == <<NL>>
<1>2. P \in Seq(Txt) /\ Q \in Seq(Txt) /\ e \in Seq(Txt) /\ Len(e) = 1
  <2>1. P \in Seq(Txt) /\ e \in Seq(Txt) /\ Len(e) = 1
    BY <1>1, LinesAreText
  <2>2. Q \in Seq(Txt)
    BY <1>1, LinesAreText
  <2> QED BY <2>1, <2>2
<1>3. Upto(ms)[cl] = u /\ u \in Seq(Txt)
  <2>1. u \in Seq(Txt)
    BY <1>1, UptoRuns
  <2> QED BY <1>1, <2>1, SameFront
<1>4. Upto(ms)[cl + 1] = (u \o P) \o e
  BY <1>1, <1>3, UptoRuns
<1>5. PICK w \in Seq(Txt) : /\ FlatOf(ls, n) = u \o ((P \o Q) \o w)
                            /\ FlatOf(ms, n + 1) = ((u \o P) \o e) \o (Q \o w)
  <2>1. cl + 1 >= 0 /\ n + 1 <= EDIT_MAX_LINES /\ 1 \in {-1, 0, 1} /\ n \in 1 .. EDIT_MAX_LINES
    BY <1>1
  <2> HIDE DEF u, P, Q, e
  <2>2. \E w \in Seq(Txt) : /\ Len(w) > 0 => w[1] = NL
                            /\ FlatOf(ls, n) = Upto(ls)[cl] \o (ls[cl] \o w)
                            /\ FlatOf(ms, n + 1) = Upto(ms)[cl + 1] \o (ms[cl + 1] \o w)
    BY <2>1, FlatAround
  <2> QED BY <1>4, <2>2 DEF u, P, Q, e
<1> DEFINE x == Q \o w
<1> HIDE DEF u, P, Q, e
<1>6. u \o P \in Seq(Txt) /\ Len(u \o P) = Len(u) + Len(P) /\ x \in Seq(Txt)
  BY <1>2, <1>3, TextConcat, Zenon
<1>7. Len((u \o P) \o e) = Len(u \o P) + Len(e)
  BY <1>2, <1>6, TextConcat, Zenon
<1>8. (P \o Q) \o w = P \o x
  BY <1>2, TextAssoc, Zenon
<1> HIDE DEF x
<1>9. (u \o P) \o x = u \o (P \o x)
  BY <1>2, <1>3, <1>6, TextAssoc, Zenon
<1>10. FlatOf(ls, n) = (u \o P) \o x
  BY <1>5, <1>8, <1>9, Zenon
<1>11. FlatOf(ms, n + 1) = ((u \o P) \o e) \o x
  BY <1>5, Zenon DEF x
<1>12. Len(Upto(ms)[cl + 1]) = Len(u \o P) + 1
  BY <1>2, <1>4, <1>7
<1> DEFINE b == u \o P
<1>13. /\ Len(b) = Len(Upto(ls)[cl]) + Len(ms[cl]) /\ b \in Seq(Txt)
       /\ Len(Upto(ms)[cl + 1]) = Len(b) + 1
  BY <1>6, <1>12 DEF u, P
<1>14. FlatOf(ls, n) = b \o x /\ FlatOf(ms, n + 1) = (b \o <<NL>>) \o x
  BY <1>10, <1>11 DEF e
<1> HIDE DEF b
<1> QED BY <1>6, <1>13, <1>14, Zenon DEF SplitInFlat

(* Lines cl - 1 and cl of ls are one in ms, of which F is the second part. *)
Joined(ls, ms, n, cl, F) ==
  /\ ls \in Buffers /\ ms \in Buffers /\ F \in Seq(Chr)
  /\ n \in 1 .. EDIT_MAX_LINES /\ cl \in 1 .. n - 1
  /\ ms[cl - 1] = ls[cl - 1] \o F
  /\ \A i \in 0 .. cl - 2 : ls[i] = ms[i]
  /\ \A i \in cl + 1 .. n - 1 : ms[i - 1] = ls[i]

JoinedInFlat(ls, ms, n, cl, F) ==
  \E b, w \in Seq(Txt) : /\ Len(w) > 0 => w[1] = NL
                         /\ b = Upto(ls)[cl - 1] \o ls[cl - 1]
                         /\ Len(b) = Len(Upto(ls)[cl - 1]) + Len(ls[cl - 1])
                         /\ Len(Upto(ls)[cl]) = Len(b) + 1
                         /\ FlatOf(ls, n) = (b \o <<NL>>) \o (ls[cl] \o w)
                         /\ FlatOf(ms, n - 1) = (b \o F) \o w

(* Two lines that are joined are one NL less in the text, and lose what    *)
(* F leaves out of the second.                                             *)
LEMMA JoinFlat ==
  ASSUME NEW ls, NEW ms, NEW n, NEW cl, NEW F, Joined(ls, ms, n, cl, F)
  PROVE  /\ Upto(ms)[cl - 1] = Upto(ls)[cl - 1]
         /\ JoinedInFlat(ls, ms, n, cl, F)
<1> USE DEF Joined
<1>1. PICK d \in {-1, 0, 1}, c \in 0 .. n - 2 :
        d = -1 /\ c = cl - 1 /\ c + 1 = cl /\ cl + d = c /\ n + d = n - 1
  OBVIOUS
<1>2. /\ n \in Nat /\ cl \in Nat /\ EDIT_MAX_LINES \in Nat
      /\ E!LineIndex = 0 .. EDIT_MAX_LINES - 1 /\ cl \in E!LineIndex /\ c \in E!LineIndex
      /\ cl \in 0 .. EDIT_MAX_LINES /\ c \in 0 .. EDIT_MAX_LINES
  BY <1>1, EditorAssumed DEF E!EditorAssumption, E!LineIndex
<1> DEFINE u == Upto(ls)[c]
           p == ls[c]
           e == <<NL>>
<1>3. u \in Seq(Txt) /\ p \in Seq(Txt) /\ e \in Seq(Txt) /\ Len(e) = 1 /\ F \in Seq(Txt)
  <2>1. p \in Seq(Txt) /\ e \in Seq(Txt) /\ Len(e) = 1
    BY <1>2, LinesAreText
  <2>2. u \in Seq(Txt)
    BY <1>2, UptoRuns
  <2>3. F \in Seq(Txt)
    BY SeqMonotonic DEF Txt
  <2> QED BY <2>1, <2>2, <2>3
<1>4. Upto(ls)[cl] = (u \o p) \o e
  BY <1>1, <1>2, UptoRuns
<1>5. Upto(ms)[c] = u
  <2>1. \A i \in 0 .. c - 1 : ls[i] = ms[i]
    BY <1>1
  <2> QED BY <1>2, <2>1, SameFront
<1>6. PICK w \in Seq(Txt) : /\ Len(w) > 0 => w[1] = NL
                            /\ FlatOf(ls, n) = ((u \o p) \o e) \o (ls[cl] \o w)
                            /\ FlatOf(ms, n - 1) = u \o ((p \o F) \o w)
  <2>1. /\ cl + d >= 0 /\ n + d <= EDIT_MAX_LINES /\ cl \in 0 .. n - 1
        /\ \A i \in cl + 1 .. n - 1 : ms[i + d] = ls[i]
    BY <1>1, <1>2
  <2>2. \E w \in Seq(Txt) : /\ Len(w) > 0 => w[1] = NL
                            /\ FlatOf(ls, n) = Upto(ls)[cl] \o (ls[cl] \o w)
                            /\ FlatOf(ms, n + d) = Upto(ms)[cl + d] \o (ms[cl + d] \o w)
    <3> HIDE DEF u, p, e
    <3> QED BY <2>1, FlatAround
  <2>3. ms[c] = p \o F
    BY <1>1
  <2> QED BY <1>1, <1>4, <1>5, <2>2, <2>3
<1> HIDE DEF u, p, e
<1>7. u \o p \in Seq(Txt) /\ Len(u \o p) = Len(u) + Len(p)
  BY <1>3, TextConcat, Zenon
<1>8. Len((u \o p) \o e) = Len(u \o p) + Len(e)
  BY <1>3, <1>7, TextConcat, Zenon
<1>9. u \o ((p \o F) \o w) = ((u \o p) \o F) \o w
  <2> DEFINE z == p \o F
  <2>1. z \in Seq(Txt)
    BY <1>3, TextConcat, Zenon
  <2>2. (u \o p) \o F = u \o z
    BY <1>3, TextAssoc, Zenon
  <2> HIDE DEF z
  <2>3. (u \o z) \o w = u \o (z \o w)
    BY <1>3, <2>1, TextAssoc, Zenon
  <2> QED BY <2>2, <2>3, Zenon DEF z
<1>10. FlatOf(ms, n - 1) = ((u \o p) \o F) \o w
  BY <1>6, <1>9, Zenon
<1>11. Len(Upto(ls)[cl]) = Len(u \o p) + 1
  BY <1>3, <1>4, <1>8
<1>12. /\ u \o p = Upto(ls)[cl - 1] \o ls[cl - 1]
       /\ Len(u \o p) = Len(Upto(ls)[cl - 1]) + Len(ls[cl - 1])
       /\ Upto(ms)[cl - 1] = Upto(ls)[cl - 1]
  BY <1>1, <1>5, <1>7 DEF u, p
<1>13. FlatOf(ls, n) = ((u \o p) \o <<NL>>) \o (ls[cl] \o w)
  BY <1>6 DEF e
<1> DEFINE b == u \o p
<1>14. b \in Seq(Txt)
  BY <1>7
<1> HIDE DEF b
<1>15. /\ Len(w) > 0 => w[1] = NL
       /\ b = Upto(ls)[cl - 1] \o ls[cl - 1]
       /\ Len(b) = Len(Upto(ls)[cl - 1]) + Len(ls[cl - 1])
       /\ Len(Upto(ls)[cl]) = Len(b) + 1
       /\ FlatOf(ls, n) = (b \o <<NL>>) \o (ls[cl] \o w)
       /\ FlatOf(ms, n - 1) = (b \o F) \o w
  BY <1>6, <1>10, <1>11, <1>12, <1>13 DEF b
<1>16. JoinedInFlat(ls, ms, n, cl, F)
  BY <1>14, <1>15, Zenon DEF JoinedInFlat
<1> QED BY <1>12, <1>16

(* What is in front of a line is nothing, or ends a line.                  *)
LEMMA UptoEnds ==
  ASSUME NEW ls \in Buffers, NEW k \in 0 .. EDIT_MAX_LINES, Len(Upto(ls)[k]) > 0
  PROVE  Upto(ls)[k][Len(Upto(ls)[k])] = NL
<1>1. EDIT_MAX_LINES \in Nat /\ E!LineIndex = 0 .. EDIT_MAX_LINES - 1 /\ k \in Nat
  BY EditorAssumed DEF E!EditorAssumption, E!LineIndex
<1>2. k # 0
  <2>1. Upto(ls)[0] = << >>
    BY UptoRuns
  <2>2. Len(<< >>) = 0
    OBVIOUS
  <2>3. k = 0 => FALSE
    BY <2>1, <2>2
  <2> QED BY <2>3
<1>3. PICK i \in E!LineIndex : i + 1 = k /\ i \in 0 .. EDIT_MAX_LINES
  <2>1. k - 1 \in E!LineIndex /\ (k - 1) + 1 = k /\ k - 1 \in 0 .. EDIT_MAX_LINES
    BY <1>1, <1>2
  <2> QED BY <2>1
<1> DEFINE u == Upto(ls)[i] \o ls[i]
<1>4. Upto(ls)[k] = u \o <<NL>>
  BY <1>3, UptoRuns
<1>5. u \in Seq(Txt) /\ <<NL>> \in Seq(Txt)
  <2>1. ls[i] \in Seq(Txt) /\ <<NL>> \in Seq(Txt)
    BY <1>3, LinesAreText
  <2>2. Upto(ls)[i] \in Seq(Txt)
    BY <1>3, UptoRuns
  <2> QED BY <2>1, <2>2, TextConcat
<1> HIDE DEF u
<1>6. /\ Len(u \o <<NL>>) = Len(u) + 1 /\ Len(u) \in Nat
      /\ (u \o <<NL>>)[Len(u) + 1] = NL
  BY <1>5
<1> QED BY <1>4, <1>6

(* How much is before the first NL and behind the last one.                *)
LEMMA FirstLineIs ==
  ASSUME NEW s \in Seq(Txt)
  PROVE  /\ E!Flat!FirstLine(s) \in 0 .. Len(s)
         /\ \A k \in 0 .. Len(s) :
              (\A i \in 1 .. k : s[i] # NL) /\ (k < Len(s) => s[k + 1] = NL)
                => E!Flat!FirstLine(s) = k
<1> DEFINE ends == E!Flat!Ends(s) \cup {Len(s) + 1}
           m == E!Flat!Min(ends)
<1>1. Len(s) \in Nat /\ DOMAIN s = 1 .. Len(s)
  BY LenProperties
<1>2. /\ ends \in SUBSET Nat /\ Len(s) + 1 \in ends
      /\ \A i \in ends : i \in 1 .. Len(s) + 1 /\ (i <= Len(s) => s[i] = NL)
      /\ \A i \in 1 .. Len(s) : s[i] = NL => i \in ends
  BY <1>1 DEF E!Flat!Ends
<1>3. E!Flat!FirstLine(s) = m - 1
  BY DEF E!Flat!FirstLine
<1> HIDE DEF ends
<1>4. m \in ends /\ \A i \in ends : m <= i
  <2>1. PICK x \in ends : \A i \in ends : x <= i
    BY <1>2, LeastExists
  <2> QED BY <2>1 DEF E!Flat!Min
<1> HIDE DEF m
<1>5. m - 1 \in 0 .. Len(s)
  BY <1>1, <1>2, <1>4
<1>6. ASSUME NEW k \in 0 .. Len(s), \A i \in 1 .. k : s[i] # NL, k < Len(s) => s[k + 1] = NL
      PROVE  m - 1 = k
  <2>1. k + 1 \in ends
    BY <1>1, <1>2, <1>6
  <2>2. m \in 1 .. k + 1
    BY <1>1, <1>2, <1>4, <2>1
  <2>3. CASE m <= k
    BY <1>1, <1>2, <1>4, <1>6, <2>2, <2>3
  <2> QED BY <1>1, <2>2, <2>3
<1> QED BY <1>3, <1>5, <1>6

LEMMA LastLineIs ==
  ASSUME NEW s \in Seq(Txt), NEW k \in 0 .. Len(s),
         \A i \in k + 1 .. Len(s) : s[i] # NL, k > 0 => s[k] = NL
  PROVE  E!Flat!LastLine(s) = Len(s) - k
<1> DEFINE ends == E!Flat!Ends(s) \cup {0}
<1>1. Len(s) \in Nat /\ DOMAIN s = 1 .. Len(s)
  BY LenProperties
<1>2. k \in ends /\ \A i \in ends : k >= i /\ i \in Nat
  <2>1. k \in ends
    BY <1>1 DEF E!Flat!Ends
  <2>2. ASSUME NEW i \in ends PROVE k >= i /\ i \in Nat
    BY <1>1 DEF E!Flat!Ends
  <2> QED BY <2>1, <2>2
<1>3. E!Flat!LastLine(s) = Len(s) - E!Flat!Max(ends)
  BY DEF E!Flat!LastLine
<1> HIDE DEF ends
<1>4. E!Flat!Max(ends) \in ends /\ \A i \in ends : E!Flat!Max(ends) >= i
  BY <1>2 DEF E!Flat!Max
<1>5. E!Flat!Max(ends) = k
  <2>1. PICK m \in Nat : m = E!Flat!Max(ends)
    BY <1>2, <1>4
  <2>2. m >= k
    BY <1>2, <1>4, <2>1
  <2>3. k >= m
    BY <1>2, <1>4, <2>1
  <2> QED BY <1>1, <2>1, <2>2, <2>3
<1> QED BY <1>3, <1>5

-----------------------------------------------------------------------------
(* A sequence is what is up to a place and what is behind it.              *)
LEMMA CutInTwo ==
  ASSUME NEW K, NEW l \in Seq(K), NEW k \in 0 .. Len(l)
  PROVE  /\ SubSeq(l, 1, k) \in Seq(K) /\ Len(SubSeq(l, 1, k)) = k
         /\ SubSeq(l, k + 1, Len(l)) \in Seq(K) /\ Len(SubSeq(l, k + 1, Len(l))) = Len(l) - k
         /\ l = SubSeq(l, 1, k) \o SubSeq(l, k + 1, Len(l))
<1>1. Len(l) \in Nat /\ k \in Nat
  BY LenProperties
<1>2. \A i \in 1 .. Len(l) : l[i] \in K
  BY ElementOfSeq
<1>3. SubSeq(l, 1, k) \in Seq(K) /\ Len(SubSeq(l, 1, k)) = k
  <2>1. \A i \in 1 .. k : l[i] \in K
    BY <1>1, <1>2
  <2>2. SubSeq(l, 1, k) \in Seq(K) /\ Len(SubSeq(l, 1, k)) = IF 1 <= k THEN k - 1 + 1 ELSE 0
    BY <1>1, <2>1, SubSeqProperties
  <2> QED BY <1>1, <2>2
<1>4. SubSeq(l, k + 1, Len(l)) \in Seq(K) /\ Len(SubSeq(l, k + 1, Len(l))) = Len(l) - k
  <2>1. \A i \in k + 1 .. Len(l) : l[i] \in K
    BY <1>1, <1>2
  <2>2. k + 1 \in Int /\ Len(l) \in Int
    BY <1>1
  <2>3. /\ SubSeq(l, k + 1, Len(l)) \in Seq(K)
        /\ Len(SubSeq(l, k + 1, Len(l))) = IF k + 1 <= Len(l) THEN Len(l) - (k + 1) + 1 ELSE 0
    BY <2>1, <2>2, SubSeqProperties
  <2> QED BY <1>1, <2>3
<1>5. l = SubSeq(l, 1, k) \o SubSeq(l, k + 1, Len(l))
  <2>1. /\ 1 \in 1 .. Len(l) + 1 /\ k \in 1 - 1 .. Len(l) /\ Len(l) \in k .. Len(l)
    BY <1>1
  <2>2. SubSeq(l, 1, k) \o SubSeq(l, k + 1, Len(l)) = SubSeq(l, 1, Len(l))
    BY <2>1, ConcatAdjacentSubSeq
  <2> QED BY <2>2, SubSeqFull
<1> QED BY <1>3, <1>4, <1>5

(* The numbers of the editor.                                              *)
LEMMA EditNumbers ==
  ASSUME EditTyped
  PROVE  /\ EDIT_MAX_LINES \in Nat /\ EDIT_MAX_LINE_LEN \in Nat \ {0}
         /\ E!LineIndex = 0 .. EDIT_MAX_LINES - 1
         /\ line_count \in Int /\ line_count <= EDIT_MAX_LINES
         /\ cursor_line \in Nat /\ cursor_line \in E!LineIndex /\ cursor_col \in Nat
         /\ lines \in Buffers
         /\ cursor_line < line_count => line_count \in Nat \ {0} /\ line_count \in 1 .. EDIT_MAX_LINES
BY EditorAssumed DEF E!EditorAssumption, E!LineIndex, EditTyped

(* The line of the cursor, and the cursor in the text.                     *)
LEMMA CursorCuts ==
  ASSUME EditTyped, E!CursorInText
  PROVE  /\ E!Line = lines[cursor_line]
         /\ E!Line \in Seq(Chr) /\ Len(E!Line) \in Nat /\ cursor_col \in 0 .. Len(E!Line)
         /\ Len(E!Line) <= EDIT_MAX_LINE_LEN - 1
         /\ cursor_line \in 0 .. line_count - 1
         /\ line_count \in Nat \ {0} /\ line_count \in 1 .. EDIT_MAX_LINES
         /\ E!FlatCursor = Len(Upto(lines)[cursor_line]) + cursor_col
<1>1. E!Line = lines[cursor_line] /\ cursor_line < line_count /\ cursor_col <= Len(E!Line)
  BY DEF E!Line, E!CursorInText
<1>2. E!Line \in Seq(Chr) /\ Len(E!Line) \in Nat
  BY <1>1, EditNumbers, LinesAreText
<1>3. E!FlatCursor = Len(Upto(lines)[cursor_line]) + cursor_col
  BY <1>1, EditNumbers, FlatIs, CursorIn
<1>4. Len(E!Line) <= EDIT_MAX_LINE_LEN - 1
  BY <1>1 DEF EditTyped
<1> QED BY <1>1, <1>2, <1>3, <1>4, EditNumbers

(* What is before and behind the cursor in the text.                       *)
LEMMA TextCut ==
  ASSUME NEW b \in Seq(Txt), NEW a \in Seq(Txt), E!FlatText = b \o a, E!FlatCursor = Len(b)
  PROVE  E!Flat!Before = b /\ E!Flat!After = a
BY CutConcat DEF E!Flat!Before, E!Flat!After

(* Typing a run of characters.                                             *)
LEMMA RunStep ==
  ASSUME EditTyped, E!CursorInText, NEW c \in Chr, NEW k \in Nat, E!InsertRun(c, k)
  PROVE  E!CursorInText' /\ E!Flat!TypeSpaces
<1> DEFINE l == lines[cursor_line]
           P == SubSeq(l, 1, cursor_col)
           Q == SubSeq(l, cursor_col + 1, Len(l))
<1>1. /\ l \in Seq(Chr) /\ Len(l) \in Nat /\ cursor_col \in 0 .. Len(l) /\ cursor_col \in Nat
      /\ E!Line = l /\ cursor_line \in 0 .. line_count - 1
      /\ Len(l) <= EDIT_MAX_LINE_LEN - 1
      /\ E!FlatCursor = Len(Upto(lines)[cursor_line]) + cursor_col
  BY CursorCuts, EditNumbers
<1>2. PICK n \in Nat :
        /\ n > 0 /\ n <= EDIT_MAX_LINE_LEN - 1 - Len(l)
        /\ lines' = [lines EXCEPT ![cursor_line] = P \o [i \in 1 .. n |-> c] \o Q]
        /\ cursor_col' = cursor_col + n
        /\ line_count' = line_count /\ cursor_line' = cursor_line
  <2> DEFINE n == E!Min({k, E!RoomInLine})
  <2>1. E!RoomInLine = EDIT_MAX_LINE_LEN - 1 - Len(l) /\ E!RoomInLine \in Int
    BY <1>1, EditNumbers DEF E!RoomInLine
  <2>2. n = IF k <= E!RoomInLine THEN k ELSE E!RoomInLine
    BY <2>1, EditorMin
  <2>3. /\ n > 0
        /\ lines' = [lines EXCEPT ![cursor_line] = P \o [i \in 1 .. n |-> c] \o Q]
        /\ cursor_col' = cursor_col + n
        /\ line_count' = line_count /\ cursor_line' = cursor_line
    BY <1>1 DEF E!InsertRun
  <2> HIDE DEF n
  <2>4. n \in Nat /\ n <= EDIT_MAX_LINE_LEN - 1 - Len(l)
    BY <2>1, <2>2, <2>3
  <2> QED BY <2>3, <2>4
<1> DEFINE I == [i \in 1 .. n |-> c]
           new == P \o I \o Q
<1>3. I \in Seq(Chr) /\ Len(I) = n
  OBVIOUS
<1>4. /\ P \in Seq(Chr) /\ Len(P) = cursor_col
      /\ Q \in Seq(Chr) /\ Len(Q) = Len(l) - cursor_col /\ l = P \o Q
  BY <1>1, CutInTwo
<1> HIDE DEF P, Q, I
<1>5. new \in Seq(Chr) /\ Len(new) = Len(l) + n
  <2>1. P \o I \in Seq(Chr) /\ Len(P \o I) = cursor_col + n
    BY <1>3, <1>4, ConcatProperties
  <2>2. new \in Seq(Chr) /\ Len(new) = Len(P \o I) + Len(Q)
    BY <1>4, <2>1, ConcatProperties
  <2>3. ASSUME NEW x \in Nat, NEW q \in Nat PROVE (x + n) + (q - x) = q + n
    OBVIOUS
  <2>4. (cursor_col + n) + (Len(l) - cursor_col) = Len(l) + n
    BY <1>1, <2>3
  <2> QED BY <1>4, <2>1, <2>2, <2>4
<1>6. lines' = [lines EXCEPT ![cursor_line] = new]
  BY <1>2 DEF I
<1>7. new = (P \o I) \o Q
  OBVIOUS
<1> HIDE DEF new
<1>8. lines' \in Buffers /\ lines'[cursor_line] = new /\ \A i \in E!LineIndex : i # cursor_line => lines'[i] = lines[i]
  BY <1>5, <1>6, EditNumbers DEF Buffers
<1>9. /\ cursor_col + n \in Nat /\ cursor_col + n <= Len(lines'[cursor_line])
      /\ cursor_line < line_count /\ E!CursorInText'
  <2>1. PICK m \in Nat : m = Len(l)
    BY <1>1, LenProperties
  <2>2. cursor_col \in Nat /\ n \in Nat /\ cursor_col <= m /\ cursor_line < line_count
    BY <1>1, <1>2, <2>1, EditNumbers
  <2>3. Len(lines'[cursor_line]) = m + n
    BY <1>5, <1>8, <2>1
  <2>4. cursor_col + n \in Nat /\ cursor_col + n <= Len(lines'[cursor_line])
    BY <2>2, <2>3
  <2> QED BY <1>2, <2>2, <2>4 DEF E!CursorInText, E!Line
<1>10. PICK b \in Seq(Txt), a \in Seq(Txt) :
         /\ Upto(lines')[cursor_line] = Upto(lines)[cursor_line]
         /\ Len(Upto(lines)[cursor_line]) \in Nat
         /\ Len(b) = Len(Upto(lines)[cursor_line]) + cursor_col
         /\ FlatOf(lines, line_count) = b \o a
         /\ FlatOf(lines', line_count) = (b \o I) \o a
  <2>1. lines[cursor_line] = P \o Q /\ lines'[cursor_line] = (P \o I) \o Q
    BY <1>4, <1>7, <1>8
  <2>2. Inserted(lines, lines', line_count, cursor_line, P, I, Q)
    BY <1>1, <1>3, <1>4, <1>8, <2>1, EditNumbers DEF Inserted
  <2> HIDE DEF l
  <2>3. /\ Upto(lines')[cursor_line] = Upto(lines)[cursor_line]
        /\ Len(Upto(lines)[cursor_line]) \in Nat
        /\ InsertedFlat(lines, lines', line_count, cursor_line, P, I)
    BY <2>2, InsertFlat
  <2>4. Len(P) = cursor_col
    BY <1>4
  <2> QED BY <2>3, <2>4, Zenon DEF InsertedFlat
<1>11. E!Flat!Before = b /\ E!Flat!After = a /\ E!FlatCursor = Len(b)
  BY <1>1, <1>10, FlatIs, TextCut
<1>12. E!FlatText' = (b \o I) \o a
  BY <1>2, <1>10, FlatIsNext
<1>13. E!FlatCursor' = E!FlatCursor + n
  <2>2. CursorOf(lines', line_count, cursor_line, cursor_col + n)
          = Len(Upto(lines')[cursor_line]) + (cursor_col + n)
    BY <1>1, <1>8, <1>9, EditNumbers, CursorIn
  <2>3. E!FlatCursor' = Len(Upto(lines')[cursor_line]) + (cursor_col + n)
    BY <1>2, <2>2, FlatIsNext
  <2>4. PICK x \in Nat : x = Len(Upto(lines)[cursor_line])
    BY <1>10
  <2>5. E!FlatCursor' = x + (cursor_col + n) /\ E!FlatCursor = x + cursor_col
    BY <1>1, <1>10, <2>3, <2>4
  <2> QED BY <1>1, <2>5
<1>14. n \in 1 .. EDIT_MAX_LINE_LEN - 1
  BY <1>1, <1>2, EditNumbers
<1> QED BY <1>9, <1>11, <1>12, <1>13, <1>14 DEF E!Flat!TypeSpaces, I, Chr

(* Return splits the line: one NL is typed.                                *)
LEMMA NewlineStep ==
  ASSUME EditTyped, E!CursorInText, E!InsertNewline
  PROVE  E!CursorInText' /\ E!Flat!Type
<1> DEFINE l == lines[cursor_line]
           P == SubSeq(l, 1, cursor_col)
           Q == SubSeq(l, cursor_col + 1, Len(l))
           ms == [i \in E!LineIndex |->
                    IF i = cursor_line THEN P
                    ELSE IF i = cursor_line + 1 THEN Q
                    ELSE IF i > cursor_line + 1 /\ i <= line_count THEN lines[i - 1] ELSE lines[i]]
<1>1. /\ l \in Seq(Chr) /\ Len(l) \in Nat /\ cursor_col \in 0 .. Len(l) /\ cursor_col \in Nat
      /\ E!Line = l /\ cursor_line \in 0 .. line_count - 1
      /\ Len(l) <= EDIT_MAX_LINE_LEN - 1
      /\ E!FlatCursor = Len(Upto(lines)[cursor_line]) + cursor_col
  BY CursorCuts, EditNumbers
<1>2. /\ P \in Seq(Chr) /\ Len(P) = cursor_col
      /\ Q \in Seq(Chr) /\ Len(Q) = Len(l) - cursor_col /\ l = P \o Q
  BY <1>1, CutInTwo
<1>3. /\ line_count < EDIT_MAX_LINES
      /\ lines' = [E!MovedDown(cursor_line + 1) EXCEPT ![cursor_line] = P, ![cursor_line + 1] = Q]
      /\ line_count' = line_count + 1 /\ cursor_line' = cursor_line + 1 /\ cursor_col' = 0
  BY <1>1 DEF E!InsertNewline
<1> HIDE DEF P, Q
<1>4. lines' = ms
  <2>1. cursor_line \in E!LineIndex /\ cursor_line + 1 \in E!LineIndex /\ cursor_line # cursor_line + 1
    BY <1>1, <1>3, EditNumbers
  <2> QED BY <1>3, <2>1 DEF E!MovedDown
<1>5. \A i \in E!LineIndex : i - 1 \in E!LineIndex \/ i = 0
  BY EditNumbers
<1>6. /\ ms \in Buffers /\ \A i \in E!LineIndex : Len(ms[i]) <= EDIT_MAX_LINE_LEN - 1
  <2>1. Len(P) <= EDIT_MAX_LINE_LEN - 1 /\ Len(Q) <= EDIT_MAX_LINE_LEN - 1
    BY <1>1, <1>2, EditNumbers
  <2>2. ASSUME NEW i \in E!LineIndex
        PROVE  ms[i] \in Seq(Chr) /\ Len(ms[i]) <= EDIT_MAX_LINE_LEN - 1
    <3>1. CASE i > cursor_line + 1 /\ i <= line_count
      <4>1. i - 1 \in E!LineIndex
        BY <1>5, <3>1, EditNumbers
      <4>2. ms[i] = lines[i - 1]
        BY <3>1, EditNumbers
      <4> QED BY <4>1, <4>2 DEF EditTyped, Buffers
    <3>2. CASE ~ (i > cursor_line + 1 /\ i <= line_count)
      BY <1>2, <2>1, <3>2 DEF EditTyped, Buffers
    <3> QED BY <3>1, <3>2
  <2> QED BY <2>2 DEF Buffers
<1>7. Split(lines, ms, line_count, cursor_line)
  <2>1. ms[cursor_line] = P /\ ms[cursor_line + 1] = Q
    BY <1>1, <1>3, EditNumbers
  <2>2. \A i \in 0 .. cursor_line - 1 : lines[i] = ms[i]
    BY <1>1, <1>3, EditNumbers
  <2>3. \A i \in cursor_line + 1 .. line_count - 1 : ms[i + 1] = lines[i]
    <3> SUFFICES ASSUME NEW i \in cursor_line + 1 .. line_count - 1 PROVE ms[i + 1] = lines[i]
      OBVIOUS
    <3>1. /\ i \in Int /\ i + 1 \in E!LineIndex /\ i + 1 > cursor_line + 1 /\ i + 1 <= line_count /\ (i + 1) - 1 = i
          /\ i + 1 # cursor_line /\ i + 1 # cursor_line + 1
      BY <1>1, <1>3, EditNumbers
    <3> QED BY <3>1
  <2>4. line_count \in 1 .. EDIT_MAX_LINES - 1 /\ cursor_line \in 0 .. line_count - 1 /\ lines \in Buffers
    BY <1>1, <1>3, EditNumbers
  <2>5. lines[cursor_line] = ms[cursor_line] \o ms[cursor_line + 1]
    BY <1>2, <2>1
  <2> HIDE DEF ms
  <2> QED BY <1>6, <2>2, <2>3, <2>4, <2>5 DEF Split
<1>8. ms[cursor_line] = P
  BY EditNumbers
<1> HIDE DEF ms
<1>9. /\ line_count + 1 \in 1 .. EDIT_MAX_LINES /\ cursor_line + 1 \in E!LineIndex
      /\ cursor_line + 1 < line_count + 1 /\ 0 \in Nat /\ 0 <= Len(ms[cursor_line + 1])
      /\ E!CursorInText'
  <2>1. /\ line_count + 1 \in 1 .. EDIT_MAX_LINES /\ cursor_line + 1 \in E!LineIndex
        /\ cursor_line + 1 < line_count + 1 /\ 0 \in Nat
    BY <1>1, <1>3, EditNumbers
  <2>2. 0 <= Len(ms[cursor_line + 1])
    BY <1>6, <2>1, LinesAreText
  <2> QED BY <1>3, <1>4, <2>1, <2>2 DEF E!CursorInText, E!Line
<1>10. SplitInFlat(lines, ms, line_count, cursor_line)
  BY <1>7, SplitFlat
<1>11. PICK b \in Seq(Txt), a \in Seq(Txt) :
         /\ Len(b) = Len(Upto(lines)[cursor_line]) + Len(P)
         /\ Len(Upto(ms)[cursor_line + 1]) = Len(b) + 1
         /\ FlatOf(lines, line_count) = b \o a
         /\ FlatOf(ms, line_count + 1) = (b \o <<NL>>) \o a
  BY <1>8, <1>10 DEF SplitInFlat
<1>12. E!Flat!Before = b /\ E!Flat!After = a /\ E!FlatCursor = Len(b)
  <2>1. E!FlatText = b \o a /\ E!FlatCursor = Len(b)
    BY <1>1, <1>2, <1>11, FlatIs
  <2> QED BY <2>1, TextCut
<1>13. E!FlatText' = (b \o <<NL>>) \o a
  BY <1>3, <1>4, <1>11, FlatIsNext
<1>14. E!FlatCursor' = E!FlatCursor + 1
  <2>3. CursorOf(ms, line_count + 1, cursor_line + 1, 0) = Len(Upto(ms)[cursor_line + 1]) + 0
    BY <1>6, <1>9, CursorIn
  <2>4. E!FlatCursor' = Len(Upto(ms)[cursor_line + 1]) + 0
    BY <1>3, <1>4, <2>3, FlatIsNext
  <2>5. Len(b) \in Nat
    BY LenProperties
  <2> QED BY <1>11, <1>12, <2>4, <2>5
<1> QED BY <1>9, <1>12, <1>13, <1>14 DEF E!Flat!Type

(* What is around the character before the cursor.                         *)
LEMMA BeforeCursor ==
  ASSUME NEW b \in Seq(Txt), NEW a \in Seq(Txt), NEW ch \in Txt,
         E!FlatText = (b \o <<ch>>) \o a, E!FlatCursor = Len(b) + 1
  PROVE  /\ E!FlatCursor > 0 /\ SubSeq(E!FlatText, 1, E!FlatCursor - 1) = b
         /\ E!Flat!After = a /\ E!FlatText[E!FlatCursor] = ch
<1> DEFINE e == <<ch>>
           be == b \o e
           ea == e \o a
<1>1. e \in Seq(Txt) /\ Len(e) = 1 /\ e[1] = ch /\ Len(b) \in Nat
  BY LenProperties
<1> HIDE DEF e
<1>2. be \in Seq(Txt) /\ Len(be) = Len(b) + 1 /\ ea \in Seq(Txt) /\ Len(ea) = 1 + Len(a)
  BY <1>1, TextConcat
<1>3. be \o a = b \o ea
  BY <1>1, TextAssoc, Zenon
<1>4. E!FlatText = be \o a
  BY DEF e
<1>5. be[Len(b) + 1] = ch
  <2>1. \A i \in 1 .. Len(b) + Len(e) : be[i] = IF i <= Len(b) THEN b[i] ELSE e[i - Len(b)]
    BY <1>1, ConcatProperties
  <2>2. Len(b) + 1 \in 1 .. Len(b) + Len(e) /\ ~ (Len(b) + 1 <= Len(b)) /\ Len(b) + 1 - Len(b) = 1
    BY <1>1
  <2> HIDE DEF be
  <2>3. be[Len(b) + 1] = e[Len(b) + 1 - Len(b)]
    BY <2>1, <2>2
  <2> QED BY <1>1, <2>2, <2>3
<1> HIDE DEF be, ea
<1>6. E!Flat!After = a
  BY <1>2, <1>4, TextCut
<1>7. SubSeq(E!FlatText, 1, Len(b)) = b
  BY <1>2, <1>3, <1>4, CutConcat
<1>8. E!FlatText[Len(b) + 1] = ch
  <2>1. \A i \in 1 .. Len(be) + Len(a) : (be \o a)[i] = IF i <= Len(be) THEN be[i] ELSE a[i - Len(be)]
    BY <1>2, ConcatProperties
  <2>2. Len(b) + 1 \in 1 .. Len(be) + Len(a) /\ Len(b) + 1 <= Len(be)
    BY <1>1, <1>2, LenProperties
  <2> QED BY <1>4, <1>5, <2>1, <2>2
<1>9. Len(b) + 1 > 0 /\ Len(b) + 1 - 1 = Len(b)
  BY <1>1
<1> QED BY <1>6, <1>7, <1>8, <1>9

(* Deleting in a line takes the character before the cursor.               *)
LEMMA InLineStep ==
  ASSUME EditTyped, E!CursorInText, cursor_col > 0, E!DeleteInLine
  PROVE  E!CursorInText' /\ E!Flat!Backspace
<1> DEFINE l == lines[cursor_line]
           ch == l[cursor_col]
           P == SubSeq(l, 1, cursor_col - 1)
           I == <<ch>>
           Q == SubSeq(l, cursor_col + 1, Len(l))
           ms == [lines EXCEPT ![cursor_line] = P \o Q]
<1>1. /\ l \in Seq(Chr) /\ Len(l) \in Nat /\ cursor_col \in 1 .. Len(l) /\ cursor_col \in Nat
      /\ cursor_line \in 0 .. line_count - 1
      /\ Len(l) <= EDIT_MAX_LINE_LEN - 1
      /\ E!FlatCursor = Len(Upto(lines)[cursor_line]) + cursor_col
  BY CursorCuts, EditNumbers
<1>2. /\ P \in Seq(Chr) /\ Len(P) = cursor_col - 1
      /\ Q \in Seq(Chr) /\ Len(Q) = Len(l) - cursor_col
      /\ ch \in Chr /\ ch \in Txt /\ ch # NL /\ I \in Seq(Chr) /\ l = (P \o I) \o Q
  <2>1. /\ Q \in Seq(Chr) /\ Len(Q) = Len(l) - cursor_col
        /\ l = SubSeq(l, 1, cursor_col) \o Q
    BY <1>1, CutInTwo
  <2>2. PICK k \in 0 .. Len(l) : k = cursor_col - 1
    BY <1>1
  <2>3. P \in Seq(Chr) /\ Len(P) = cursor_col - 1
    BY <1>1, <2>2, CutInTwo
  <2>4. ch \in Chr
    BY <1>1, ElementOfSeq
  <2>5. ch \in Txt /\ ch # NL /\ I \in Seq(Chr)
    BY <2>4, EditorAssumed DEF E!EditorAssumption, Chr, Txt
  <2>6. SubSeq(l, 1, cursor_col) = P \o I
    BY <1>1, SubSeqRecursiveSecond
  <2> HIDE DEF P, Q, I, ch
  <2> QED BY <2>1, <2>3, <2>4, <2>5, <2>6
<1>3. lines' = ms /\ cursor_col' = cursor_col - 1 /\ line_count' = line_count /\ cursor_line' = cursor_line
  BY <1>1, CursorCuts, EditNumbers DEF E!DeleteInLine, E!RemoveAt, Buffers
<1> HIDE DEF P, Q, I, ch
<1>4. P \o Q \in Seq(Chr) /\ Len(P \o Q) = Len(l) - 1
  <2>1. P \o Q \in Seq(Chr) /\ Len(P \o Q) = Len(P) + Len(Q)
    BY <1>2, ConcatProperties
  <2>2. (cursor_col - 1) + (Len(l) - cursor_col) = Len(l) - 1
    <3>1. ASSUME NEW x \in Nat, NEW q \in Nat PROVE (x - 1) + (q - x) = q - 1
      OBVIOUS
    <3> QED BY <1>1, <3>1
  <2> QED BY <1>2, <2>1, <2>2
<1>5. ms \in Buffers /\ ms[cursor_line] = P \o Q /\ \A i \in E!LineIndex : i # cursor_line => ms[i] = lines[i]
  BY <1>4, EditNumbers DEF Buffers
<1> HIDE DEF ms
<1>6. E!CursorInText'
  <2>1. cursor_col - 1 <= Len(ms[cursor_line]) /\ cursor_line < line_count
    BY <1>1, <1>4, <1>5, EditNumbers
  <2> QED BY <1>3, <2>1 DEF E!CursorInText, E!Line
<1>7. Inserted(ms, lines, line_count, cursor_line, P, I, Q)
  <2>1. lines[cursor_line] = (P \o I) \o Q
    BY <1>2
  <2> QED BY <1>1, <1>2, <1>5, <2>1, EditNumbers DEF Inserted
<1>8. /\ Upto(lines)[cursor_line] = Upto(ms)[cursor_line]
      /\ Len(Upto(ms)[cursor_line]) \in Nat
      /\ InsertedFlat(ms, lines, line_count, cursor_line, P, I)
  BY <1>7, InsertFlat
<1>9. PICK b \in Seq(Txt), a \in Seq(Txt) :
        /\ Len(b) = Len(Upto(ms)[cursor_line]) + Len(P)
        /\ FlatOf(ms, line_count) = b \o a
        /\ FlatOf(lines, line_count) = (b \o I) \o a
  BY <1>8 DEF InsertedFlat
<1>10. E!FlatText = (b \o <<ch>>) \o a /\ E!FlatCursor = Len(b) + 1
  <2>1. PICK x \in Nat : x = Len(Upto(ms)[cursor_line])
    BY <1>8
  <2>2. Len(b) = x + (cursor_col - 1) /\ E!FlatCursor = x + cursor_col
    BY <1>1, <1>2, <1>8, <1>9, <2>1
  <2>3. E!FlatCursor = Len(b) + 1
    BY <1>1, <2>2
  <2>4. E!FlatText = (b \o I) \o a
    BY <1>9, FlatIs
  <2> QED BY <2>3, <2>4 DEF I
<1>11. /\ E!FlatCursor > 0 /\ SubSeq(E!FlatText, 1, E!FlatCursor - 1) = b
       /\ E!Flat!After = a /\ E!FlatText[E!FlatCursor] = ch
  BY <1>2, <1>10, BeforeCursor
<1>12. E!FlatText' = b \o a
  BY <1>3, <1>9, FlatIsNext
<1>13. E!FlatCursor' = E!FlatCursor - 1
  <2>1. PICK col \in Nat : col = cursor_col - 1 /\ col <= Len(ms[cursor_line])
    BY <1>1, <1>4, <1>5
  <2>2. cursor_line < line_count
    BY <1>1, EditNumbers
  <2>3. CursorOf(ms, line_count, cursor_line, col) = Len(Upto(ms)[cursor_line]) + col
    BY <1>5, <2>1, <2>2, EditNumbers, CursorIn
  <2>4. E!FlatCursor' = Len(Upto(ms)[cursor_line]) + col
    BY <1>3, <2>1, <2>3, FlatIsNext
  <2>5. PICK x \in Nat : x = Len(Upto(ms)[cursor_line])
    BY <1>8
  <2>6. E!FlatCursor' = x + col /\ E!FlatCursor = x + cursor_col
    BY <1>1, <1>8, <2>4, <2>5
  <2> QED BY <1>1, <2>1, <2>6
<1> DEFINE k == E!Flat!FirstLine(a)
<1>14. k \in 0 .. Len(a)
  BY FirstLineIs
<1> HIDE DEF k
<1>15. b \o a = b \o SubSeq(a, 1, k) \o SubSeq(a, k + 1, Len(a))
  <2> DEFINE x == SubSeq(a, 1, k)
             q == SubSeq(a, k + 1, Len(a))
  <2>1. x \in Seq(Txt) /\ q \in Seq(Txt) /\ a = x \o q
    BY <1>14, CutInTwo
  <2> HIDE DEF x, q
  <2>2. (b \o x) \o q = b \o (x \o q)
    BY <2>1, TextAssoc, Zenon
  <2>3. b \o a = (b \o x) \o q
    BY <2>1, <2>2
  <2> QED BY <2>3 DEF x, q
<1>16. E!FlatText' = b \o SubSeq(a, 1, k) \o SubSeq(a, k + 1, Len(a))
  BY <1>12, <1>15
<1> QED BY <1>2, <1>6, <1>11, <1>13, <1>16 DEF E!Flat!Backspace, k

LEMMA PlainMin ==
  ASSUME NEW a \in Int, NEW b \in Int
  PROVE  E!Flat!Min({a, b}) = IF a <= b THEN a ELSE b
<1>1. E!Flat!Min({a, b}) \in {a, b} /\ \A q \in {a, b} : E!Flat!Min({a, b}) <= q
  <2>1. \E x \in {a, b} : \A q \in {a, b} : x <= q
    OBVIOUS
  <2> QED BY <2>1 DEF E!Flat!Min
<1> QED BY <1>1

(* Of a line and what is behind it, the line is the first.                 *)
LEMMA LineIsFirst ==
  ASSUME NEW l \in Seq(Chr), NEW w \in Seq(Txt), Len(w) > 0 => w[1] = NL
  PROVE  E!Flat!FirstLine(l \o w) = Len(l)
<1>1. l \in Seq(Txt) /\ Len(l) \in Nat /\ Len(w) \in Nat
  BY SeqMonotonic, LenProperties DEF Txt
<1>2. \A i \in 1 .. Len(l) : l[i] # NL
  <2>1. \A i \in 1 .. Len(l) : l[i] \in Chr
    BY ElementOfSeq
  <2> QED BY <2>1, EditorAssumed DEF E!EditorAssumption, Chr
<1> DEFINE s == l \o w
<1>3. /\ s \in Seq(Txt) /\ Len(s) = Len(l) + Len(w)
      /\ \A i \in 1 .. Len(l) + Len(w) : s[i] = IF i <= Len(l) THEN l[i] ELSE w[i - Len(l)]
  BY <1>1, ConcatProperties
<1> HIDE DEF s
<1>4. Len(l) \in 0 .. Len(s) /\ \A i \in 1 .. Len(l) : s[i] # NL
  BY <1>1, <1>2, <1>3
<1>5. Len(l) < Len(s) => s[Len(l) + 1] = NL
  <2> SUFFICES ASSUME Len(l) < Len(s) PROVE s[Len(l) + 1] = NL
    OBVIOUS
  <2>1. /\ Len(w) > 0 /\ Len(l) + 1 \in 1 .. Len(l) + Len(w) /\ ~ (Len(l) + 1 <= Len(l))
        /\ (Len(l) + 1) - Len(l) = 1
    BY <1>1, <1>3
  <2>2. s[Len(l) + 1] = w[(Len(l) + 1) - Len(l)]
    BY <1>3, <2>1
  <2> QED BY <2>1, <2>2
<1>6. E!Flat!FirstLine(s) = Len(l)
  BY <1>3, <1>4, <1>5, FirstLineIs
<1> QED BY <1>6 DEF s

(* Of the text up to a line and that line, the line is the last.           *)
LEMMA LineIsLast ==
  ASSUME NEW ls \in Buffers, NEW c \in E!LineIndex
  PROVE  /\ Upto(ls)[c] \o ls[c] \in Seq(Txt)
         /\ E!Flat!LastLine(Upto(ls)[c] \o ls[c]) = Len(ls[c])
<1>1. c \in 0 .. EDIT_MAX_LINES
  BY EditorAssumed DEF E!EditorAssumption, E!LineIndex
<1> DEFINE u == Upto(ls)[c]
           l == ls[c]
           s == u \o l
<1>2. /\ u \in Seq(Txt) /\ Len(u) \in Nat /\ l \in Seq(Txt) /\ Len(l) \in Nat
      /\ Len(u) > 0 => u[Len(u)] = NL
      /\ \A i \in 1 .. Len(l) : l[i] # NL
  <2>1. l \in Seq(Txt) /\ Len(l) \in Nat /\ \A i \in 1 .. Len(l) : l[i] # NL
    BY LinesAreText
  <2>2. u \in Seq(Txt) /\ Len(u) \in Nat
    BY <1>1, UptoRuns, LenProperties
  <2>3. Len(u) > 0 => u[Len(u)] = NL
    BY <1>1, UptoEnds
  <2> QED BY <2>1, <2>2, <2>3
<1> HIDE DEF u, l
<1>3. /\ s \in Seq(Txt) /\ Len(s) = Len(u) + Len(l)
      /\ \A i \in 1 .. Len(u) + Len(l) : s[i] = IF i <= Len(u) THEN u[i] ELSE l[i - Len(u)]
  BY <1>2, ConcatProperties
<1> HIDE DEF s
<1>4. Len(u) \in 0 .. Len(s) /\ (Len(u) > 0 => s[Len(u)] = NL)
  BY <1>2, <1>3
<1>5. \A i \in Len(u) + 1 .. Len(s) : s[i] # NL
  <2> SUFFICES ASSUME NEW i \in Len(u) + 1 .. Len(s) PROVE s[i] # NL
    OBVIOUS
  <2>1. i - Len(u) \in 1 .. Len(l) /\ i \in 1 .. Len(u) + Len(l) /\ ~ (i <= Len(u))
    BY <1>2, <1>3
  <2>2. s[i] = l[i - Len(u)]
    BY <1>3, <2>1
  <2> QED BY <1>2, <2>1, <2>2
<1>6. E!Flat!LastLine(s) = Len(s) - Len(u)
  BY <1>3, <1>4, <1>5, LastLineIs
<1>7. E!Flat!LastLine(s) = Len(l)
  BY <1>2, <1>3, <1>6
<1> QED BY <1>3, <1>7 DEF s, u, l

(* Deleting at the front of a line takes the NL and joins two lines.       *)
LEMMA JoinStep ==
  ASSUME EditTyped, E!CursorInText, cursor_col = 0, cursor_line > 0, E!JoinLines
  PROVE  E!CursorInText' /\ E!Flat!Backspace
<1> DEFINE l == lines[cursor_line]
           prev == lines[cursor_line - 1]
           LIMIT == EDIT_MAX_LINE_LEN - 1
           m == E!Min({Len(l), EDIT_MAX_LINE_LEN - Len(prev) - 1})
           F == SubSeq(l, 1, m)
           H == SubSeq(l, m + 1, Len(l))
           ms == [i \in E!LineIndex |->
                    IF i = cursor_line - 1 THEN prev \o F
                    ELSE IF i >= cursor_line /\ i < line_count - 1 THEN lines[i + 1] ELSE lines[i]]
<1>1. /\ l \in Seq(Chr) /\ Len(l) \in Nat
      /\ E!Line = l /\ cursor_line \in 1 .. line_count - 1 /\ cursor_line \in Nat
      /\ E!FlatCursor = Len(Upto(lines)[cursor_line]) + cursor_col
  BY CursorCuts, EditNumbers
<1>2. /\ cursor_line - 1 \in E!LineIndex /\ line_count \in Nat /\ line_count <= EDIT_MAX_LINES
      /\ cursor_line - 1 < line_count - 1 /\ line_count - 1 \in 1 .. EDIT_MAX_LINES
  <2> HIDE DEF l
  <2> QED BY <1>1, EditNumbers
<1>3. prev \in Seq(Chr) /\ Len(prev) \in 0 .. LIMIT /\ LIMIT \in Nat
  <2>1. prev \in Seq(Chr) /\ Len(prev) \in Nat
    BY <1>2, EditNumbers, LinesAreText
  <2>2. Len(prev) <= LIMIT
    BY <1>2 DEF EditTyped
  <2> QED BY <2>1, <2>2, EditNumbers
<1>4. m \in 0 .. Len(l) /\ m = (IF Len(l) <= LIMIT - Len(prev) THEN Len(l) ELSE LIMIT - Len(prev))
  <2>1. PICK q \in Nat : q = EDIT_MAX_LINE_LEN - Len(prev) - 1 /\ q = LIMIT - Len(prev)
    BY <1>3, EditNumbers
  <2>2. m = IF Len(l) <= q THEN Len(l) ELSE q
    BY <1>1, <2>1, EditorMin
  <2> QED BY <1>1, <2>1, <2>2
<1> HIDE DEF m, LIMIT
<1>5. /\ F \in Seq(Chr) /\ Len(F) = m /\ H \in Seq(Chr) /\ l = F \o H
  BY <1>1, <1>4, CutInTwo
<1>6. lines' = ms /\ cursor_col' = Len(prev) /\ line_count' = line_count - 1 /\ cursor_line' = cursor_line - 1
  BY <1>1 DEF E!JoinLines, E!MovedUp, m
<1> HIDE DEF F, H
<1>7. prev \o F \in Seq(Chr) /\ Len(prev \o F) = Len(prev) + m /\ Len(prev) + m <= LIMIT
  <2>1. prev \o F \in Seq(Chr) /\ Len(prev \o F) = Len(prev) + Len(F)
    BY <1>3, <1>5, ConcatProperties
  <2>2. ASSUME NEW x \in Nat, NEW q \in Nat, NEW z \in 0 .. q
        PROVE  z + (IF x <= q - z THEN x ELSE q - z) <= q
    OBVIOUS
  <2>3. Len(prev) + m <= LIMIT
    BY <1>1, <1>3, <1>4, <2>2
  <2> QED BY <1>5, <2>1, <2>3
<1>8. /\ ms \in Buffers /\ \A i \in E!LineIndex : Len(ms[i]) <= LIMIT
  <2>1. ASSUME NEW i \in E!LineIndex
        PROVE  ms[i] \in Seq(Chr) /\ Len(ms[i]) <= LIMIT
    <3>1. CASE i # cursor_line - 1 /\ i >= cursor_line /\ i < line_count - 1
      <4>1. i + 1 \in E!LineIndex
        BY <1>2, <3>1, EditNumbers
      <4>2. ms[i] = lines[i + 1]
        BY <3>1
      <4> QED BY <4>1, <4>2 DEF EditTyped, Buffers, LIMIT
    <3>2. CASE ~ (i # cursor_line - 1 /\ i >= cursor_line /\ i < line_count - 1)
      <4>1. ms[i] = prev \o F \/ ms[i] = lines[i]
        BY <3>2
      <4>2. lines[i] \in Seq(Chr) /\ Len(lines[i]) <= LIMIT
        BY DEF EditTyped, Buffers, LIMIT
      <4>3. Len(prev \o F) <= LIMIT
        BY <1>7
      <4> QED BY <1>7, <4>1, <4>2, <4>3
    <3> QED BY <3>1, <3>2
  <2> QED BY <2>1 DEF Buffers
<1>9. Joined(lines, ms, line_count, cursor_line, F)
  <2>1. ms[cursor_line - 1] = prev \o F
    BY <1>2
  <2>2. \A i \in 0 .. cursor_line - 2 : lines[i] = ms[i]
    BY <1>1, <1>2, EditNumbers
  <2>3. \A i \in cursor_line + 1 .. line_count - 1 : ms[i - 1] = lines[i]
    <3> SUFFICES ASSUME NEW i \in cursor_line + 1 .. line_count - 1 PROVE ms[i - 1] = lines[i]
      OBVIOUS
    <3>1. /\ i \in Int /\ i - 1 \in E!LineIndex /\ i - 1 >= cursor_line /\ i - 1 < line_count - 1
          /\ (i - 1) + 1 = i /\ i - 1 # cursor_line - 1
      BY <1>1, <1>2, EditNumbers
    <3> QED BY <3>1
  <2> HIDE DEF ms
  <2> QED BY <1>1, <1>5, <1>8, <2>1, <2>2, <2>3, EditNumbers DEF Joined
<1>10. ms[cursor_line - 1] = prev \o F
  BY <1>2
<1> HIDE DEF ms
<1>11. /\ Len(prev) \in Nat /\ Len(prev) <= Len(ms[cursor_line - 1])
       /\ E!CursorInText'
  <2>1. Len(prev) \in Nat /\ Len(prev) <= Len(ms[cursor_line - 1])
    BY <1>3, <1>4, <1>7, <1>10, <1>1
  <2> QED BY <1>2, <1>6, <2>1 DEF E!CursorInText, E!Line
<1>12. /\ Upto(ms)[cursor_line - 1] = Upto(lines)[cursor_line - 1]
       /\ JoinedInFlat(lines, ms, line_count, cursor_line, F)
  BY <1>9, JoinFlat
<1>13. PICK b \in Seq(Txt), w \in Seq(Txt) :
         /\ Len(w) > 0 => w[1] = NL
         /\ b = Upto(lines)[cursor_line - 1] \o prev
         /\ Len(b) = Len(Upto(lines)[cursor_line - 1]) + Len(prev)
         /\ Len(Upto(lines)[cursor_line]) = Len(b) + 1
         /\ FlatOf(lines, line_count) = (b \o <<NL>>) \o (l \o w)
         /\ FlatOf(ms, line_count - 1) = (b \o F) \o w
  BY <1>12 DEF JoinedInFlat
<1> DEFINE a == l \o w
<1>14. a \in Seq(Txt) /\ l \in Seq(Txt) /\ F \in Seq(Txt) /\ H \in Seq(Txt) /\ NL \in Txt
  <2>1. l \in Seq(Txt) /\ F \in Seq(Txt) /\ H \in Seq(Txt) /\ NL \in Txt
    BY <1>1, <1>5, SeqMonotonic DEF Txt
  <2> QED BY <2>1, TextConcat
<1>15. E!Flat!FirstLine(a) = Len(l)
  <2> HIDE DEF l
  <2> QED BY <1>1, <1>13, LineIsFirst
<1>16. E!Flat!LastLine(b) = Len(prev)
  BY <1>2, <1>13, EditNumbers, LineIsLast
<1>17. E!FlatText = (b \o <<NL>>) \o a /\ E!FlatCursor = Len(b) + 1
  <2>1. Len(b) \in Nat
    BY LenProperties
  <2>2. E!FlatCursor = Len(b) + 1
    BY <1>1, <1>13, <2>1
  <2> QED BY <1>13, <2>2, FlatIs
<1>18. SubSeq(a, 1, m) = F /\ SubSeq(a, Len(l) + 1, Len(a)) = w
  <2>1. SubSeq(a, Len(l) + 1, Len(a)) = w
    BY <1>14, CutConcat
  <2> DEFINE x == H \o w
  <2>2. x \in Seq(Txt)
    BY <1>14, TextConcat, Zenon
  <2>3. (F \o H) \o w = F \o x
    BY <1>14, TextAssoc, Zenon
  <2>4. a = F \o x
    BY <1>5, <2>3
  <2> HIDE DEF x, a
  <2>5. SubSeq(a, 1, Len(F)) = F
    BY <1>14, <2>2, <2>4, CutConcat
  <2> QED BY <1>5, <2>1, <2>5
<1> HIDE DEF a, l, prev
<1>19. /\ E!FlatCursor > 0 /\ SubSeq(E!FlatText, 1, E!FlatCursor - 1) = b
       /\ E!Flat!After = a /\ E!FlatText[E!FlatCursor] = NL
  BY <1>14, <1>17, BeforeCursor
<1>20. E!FlatText' = b \o SubSeq(a, 1, m) \o SubSeq(a, Len(l) + 1, Len(a))
  BY <1>6, <1>13, <1>18, FlatIsNext
<1>21. E!FlatCursor' = E!FlatCursor - 1
  <2>1. Len(prev) \in Nat /\ Len(prev) <= Len(ms[cursor_line - 1])
    BY <1>11
  <2>2. cursor_line - 1 < line_count - 1 /\ line_count - 1 \in 1 .. EDIT_MAX_LINES
    BY <1>2
  <2>3. CursorOf(ms, line_count - 1, cursor_line - 1, Len(prev)) = Len(Upto(ms)[cursor_line - 1]) + Len(prev)
    BY <1>2, <1>8, <2>1, <2>2, CursorIn
  <2>4. E!FlatCursor' = Len(b)
    BY <1>6, <1>12, <1>13, <2>3, FlatIsNext
  <2>5. Len(b) \in Nat
    BY LenProperties
  <2> QED BY <1>17, <2>4, <2>5
<1>22. E!Flat!Min({Len(l), LIMIT - Len(prev)}) = m
  <2>1. PICK x \in Int, q \in Int : x = Len(l) /\ q = LIMIT - Len(prev)
    <3>1. Len(l) \in Int
      BY <1>1 DEF l
    <3>2. LIMIT - Len(prev) \in Int
      BY <1>3 DEF prev
    <3> QED BY <3>1, <3>2
  <2>2. E!Flat!Min({x, q}) = IF x <= q THEN x ELSE q
    BY PlainMin
  <2> QED BY <1>4, <2>1, <2>2 DEF l, prev
<1> QED BY <1>11, <1>15, <1>16, <1>19, <1>20, <1>21, <1>22 DEF E!Flat!Backspace, LIMIT

LEMMA ClampedIn ==
  ASSUME NEW x \in Int, NEW high \in Nat
  PROVE  E!Clamped(x, 0, high) \in 0 .. high
<1>1. E!Min({x, high}) = IF x <= high THEN x ELSE high
  BY EditorMin
<1>2. PICK q \in Int : q = E!Min({x, high}) /\ q <= high
  BY <1>1
<1>3. E!Max({0, q}) = IF 0 >= q THEN 0 ELSE q
  BY EditorMin
<1> QED BY <1>2, <1>3 DEF E!Clamped

(* Where a move sets the cursor.                                           *)
LEMMA MoveIsIn ==
  ASSUME EditTyped, line_count > 0, NEW dl \in Moves, NEW dc \in Moves, E!edit_move_cursor(dl, dc)
  PROVE  /\ lines' = lines /\ line_count' = line_count
         /\ cursor_line' \in 0 .. line_count - 1 /\ cursor_line' \in E!LineIndex
         /\ cursor_col' \in 0 .. Len(lines[cursor_line'])
         /\ cursor_col' \in Nat
<1>1. /\ cursor_line' = E!Clamped(cursor_line + dl, 0, line_count - 1)
      /\ cursor_col' = E!ColumnIn(cursor_col + dc, cursor_line')
      /\ lines' = lines /\ line_count' = line_count
  BY EditNumbers DEF E!edit_move_cursor, E!buffer
<1>2. dl \in Int /\ dc \in Int
  BY EditorAssumed DEF E!EditorAssumption
<1>3. cursor_line + dl \in Int /\ line_count - 1 \in Nat
  BY <1>2, EditNumbers
<1>4. cursor_line' \in 0 .. line_count - 1
  BY <1>1, <1>3, ClampedIn
<1>5. cursor_line' \in E!LineIndex
  BY <1>4, EditNumbers
<1>6. Len(lines[cursor_line']) \in Nat /\ cursor_col + dc \in Int
  BY <1>2, <1>5, EditNumbers, LinesAreText
<1>7. /\ E!Clamped(cursor_col + dc, 0, Len(lines[cursor_line'])) \in 0 .. Len(lines[cursor_line'])
      /\ E!Clamped(cursor_col + dc, 0, Len(lines[cursor_line'])) \in Nat
  <2>1. PICK x \in Int, q \in Nat : x = cursor_col + dc /\ q = Len(lines[cursor_line'])
    BY <1>6
  <2>2. E!Clamped(x, 0, q) \in 0 .. q
    BY ClampedIn
  <2>3. E!Clamped(x, 0, q) \in Nat
    BY <2>2
  <2> QED BY <2>1, <2>2, <2>3
<1> QED BY <1>1, <1>4, <1>5, <1>7 DEF E!ColumnIn

(* The cursor is moved, or set on a line that was found.                   *)
LEMMA PlaceStep ==
  ASSUME EditTyped, E!CursorInText,
         \/ \E dl, dc \in Moves : E!edit_move_cursor(dl, dc)
         \/ E!edit_find
  PROVE  (E!CursorInText' \/ E!edit_find) /\ E!Flat!Place
<1>1. line_count > 0 /\ line_count \in 1 .. EDIT_MAX_LINES /\ cursor_line < line_count
  BY CursorCuts, EditNumbers
<1>2. /\ lines' = lines /\ line_count' = line_count
      /\ cursor_line' \in 0 .. line_count - 1 /\ cursor_col' \in Nat
      /\ E!CursorInText' \/ E!edit_find
  <2>1. CASE E!edit_find
    BY <2>1, EditNumbers DEF E!edit_find, E!buffer
  <2>2. ASSUME NEW dl \in Moves, NEW dc \in Moves, E!edit_move_cursor(dl, dc)
        PROVE  /\ lines' = lines /\ line_count' = line_count
               /\ cursor_line' \in 0 .. line_count - 1 /\ cursor_col' \in Nat
               /\ E!CursorInText'
    <3>1. /\ lines' = lines /\ line_count' = line_count
          /\ cursor_line' \in 0 .. line_count - 1 /\ cursor_line' \in E!LineIndex
          /\ cursor_col' \in 0 .. Len(lines[cursor_line']) /\ cursor_col' \in Nat
      BY <1>1, <2>2, MoveIsIn
    <3>2. Len(lines[cursor_line']) \in Nat /\ line_count \in Nat
      BY <1>1, <3>1, EditNumbers, LinesAreText
    <3>3. cursor_line' < line_count' /\ cursor_col' <= Len(lines'[cursor_line'])
      BY <3>1, <3>2
    <3> QED BY <3>1, <3>3 DEF E!CursorInText, E!Line
  <2> QED BY <2>1, <2>2
<1>3. cursor_line' \in E!LineIndex
  BY <1>1, <1>2, EditNumbers
<1>4. CursorOf(lines, line_count, cursor_line', cursor_col') \in 0 .. Len(FlatOf(lines, line_count))
  BY <1>1, <1>2, <1>3, EditNumbers, CursorIn
<1>5. E!FlatText' = E!FlatText /\ E!FlatCursor' \in 0 .. Len(E!FlatText)
  BY <1>2, <1>4, FlatIs, FlatIsNext
<1> QED BY <1>2, <1>5 DEF E!Flat!Place

(* Where lines and cursor stay, the text and its cursor do.                *)
LEMMA SameFlat ==
  ASSUME lines' = lines, line_count' = line_count,
         cursor_line' = cursor_line, cursor_col' = cursor_col
  PROVE  /\ E!CursorInText => E!CursorInText'
         /\ UNCHANGED E!Flat!textVars
<1>1. E!FlatText' = E!FlatText /\ E!FlatCursor' = E!FlatCursor
  BY FlatIs, FlatIsNext
<1> QED BY <1>1 DEF E!Flat!textVars, E!CursorInText, E!Line

-----------------------------------------------------------------------------
(* Typing, wherever the cursor is.                                         *)

Fit == {s \in Seq(Chr) : Len(s) <= EDIT_MAX_LINE_LEN - 1}

LEMMA LinesFit ==
  ASSUME EditTyped
  PROVE  /\ \A i \in E!LineIndex : lines[i] \in Fit
         /\ E!Line = lines[cursor_line] /\ E!Line \in Fit
         /\ E!Line \in Seq(Chr) /\ Len(E!Line) \in Nat
<1>1. \A i \in E!LineIndex : lines[i] \in Fit
  BY DEF EditTyped, Buffers, Fit
<1>2. E!Line = lines[cursor_line] /\ E!Line \in Fit
  BY <1>1, EditNumbers DEF E!Line
<1> QED BY <1>1, <1>2, LenProperties DEF Fit

(* What a call must leave behind.                                          *)
LEMMA TypedNext ==
  ASSUME lines' \in [E!LineIndex -> Fit], line_count' \in Int, line_count' <= EDIT_MAX_LINES,
         cursor_line' \in E!LineIndex, cursor_col' \in Nat
  PROVE  EditTyped'
<1>1. lines' \in Buffers /\ \A i \in E!LineIndex : Len(lines'[i]) <= EDIT_MAX_LINE_LEN - 1
  BY DEF Buffers, Fit
<1> QED BY <1>1 DEF EditTyped, E!LineIndex

(* Return.                                                                 *)
LEMMA NewlineTyped ==
  ASSUME EditTyped, E!InsertNewline \/ E!NewlineBehind
  PROVE  EditTyped'
<1> DEFINE P == SubSeq(E!Line, 1, cursor_col)
           Q == SubSeq(E!Line, cursor_col + 1, Len(E!Line))
           md == E!MovedDown(cursor_line + 1)
<1>1. /\ line_count < EDIT_MAX_LINES /\ cursor_line + 1 \in E!LineIndex
      /\ line_count' = line_count + 1 /\ cursor_line' = cursor_line + 1 /\ cursor_col' = 0
  BY DEF E!InsertNewline, E!NewlineBehind
<1>2. line_count' \in Int /\ line_count' <= EDIT_MAX_LINES /\ cursor_line' \in E!LineIndex /\ cursor_col' \in Nat
  BY <1>1, EditNumbers
<1>3. md \in [E!LineIndex -> Fit]
  <2>1. ASSUME NEW i \in E!LineIndex
        PROVE  (IF i > cursor_line + 1 /\ i <= line_count THEN lines[i - 1] ELSE lines[i]) \in Fit
    <3>1. i > cursor_line + 1 => i - 1 \in E!LineIndex
      BY EditNumbers
    <3> QED BY <3>1, LinesFit
  <2> QED BY <2>1 DEF E!MovedDown
<1>4. lines' \in [E!LineIndex -> Fit]
  <2>1. CASE E!NewlineBehind
    BY <1>3, <2>1 DEF E!NewlineBehind
  <2>2. CASE E!InsertNewline
    <3>1. cursor_col \in 0 .. Len(E!Line)
      BY <2>2, EditNumbers, LinesFit DEF E!InsertNewline
    <3>2. P \in Seq(Chr) /\ Len(P) = cursor_col /\ Q \in Seq(Chr) /\ Len(Q) = Len(E!Line) - cursor_col
      BY <3>1, LinesFit, CutInTwo
    <3>3. P \in Fit /\ Q \in Fit
      <4>1. PICK x \in Nat : x = Len(E!Line) /\ x <= EDIT_MAX_LINE_LEN - 1
        BY LinesFit DEF Fit
      <4>2. Len(P) <= EDIT_MAX_LINE_LEN - 1 /\ Len(Q) <= EDIT_MAX_LINE_LEN - 1
        BY <3>1, <3>2, <4>1, EditNumbers
      <4> QED BY <3>2, <4>2 DEF Fit
    <3>4. lines' = [md EXCEPT ![cursor_line] = P, ![cursor_line + 1] = Q]
      BY <2>2 DEF E!InsertNewline
    <3> HIDE DEF md, P, Q
    <3> QED BY <1>3, <3>3, <3>4
  <2> QED BY <2>1, <2>2
<1> QED BY <1>2, <1>4, TypedNext

(* A run of characters.                                                    *)
LEMMA RunTyped ==
  ASSUME EditTyped, NEW c \in Chr, NEW k \in Nat, E!InsertRun(c, k)
  PROVE  EditTyped'
<1> DEFINE l == E!Line
           P == SubSeq(l, 1, cursor_col)
           Q == SubSeq(l, cursor_col + 1, Len(l))
<1>1. PICK x \in Nat : x = Len(l) /\ x <= EDIT_MAX_LINE_LEN - 1
  BY LinesFit DEF Fit
<1>2. PICK n \in Nat :
        /\ n > 0 /\ n <= EDIT_MAX_LINE_LEN - 1 - x /\ cursor_col \in 0 .. x
        /\ lines' = [lines EXCEPT ![cursor_line] = P \o [i \in 1 .. n |-> c] \o Q]
        /\ cursor_col' = cursor_col + n
        /\ line_count' = line_count /\ cursor_line' = cursor_line
  <2> DEFINE n == E!Min({k, E!RoomInLine})
  <2>1. E!RoomInLine = EDIT_MAX_LINE_LEN - 1 - x /\ E!RoomInLine \in Int
    BY <1>1, EditNumbers DEF E!RoomInLine
  <2>2. n = IF k <= E!RoomInLine THEN k ELSE E!RoomInLine
    BY <2>1, EditorMin
  <2>3. /\ n > 0 /\ cursor_col <= x
        /\ lines' = [lines EXCEPT ![cursor_line] = P \o [i \in 1 .. n |-> c] \o Q]
        /\ cursor_col' = cursor_col + n
        /\ line_count' = line_count /\ cursor_line' = cursor_line
    BY <1>1 DEF E!InsertRun
  <2> HIDE DEF n
  <2>4. n \in Nat /\ n <= EDIT_MAX_LINE_LEN - 1 - x /\ cursor_col \in 0 .. x
    BY <2>1, <2>2, <2>3, EditNumbers
  <2> QED BY <2>3, <2>4
<1> DEFINE I == [i \in 1 .. n |-> c]
<1>3. I \in Seq(Chr) /\ Len(I) = n
  OBVIOUS
<1>4. P \in Seq(Chr) /\ Len(P) = cursor_col /\ Q \in Seq(Chr) /\ Len(Q) = x - cursor_col
  BY <1>1, <1>2, LinesFit, CutInTwo
<1> HIDE DEF P, Q, I
<1>5. P \o I \o Q \in Fit
  <2>1. P \o I \in Seq(Chr) /\ Len(P \o I) = cursor_col + n
    BY <1>3, <1>4, ConcatProperties
  <2> DEFINE pi == P \o I
  <2> HIDE DEF pi
  <2>2. pi \o Q \in Seq(Chr) /\ Len(pi \o Q) = Len(pi) + Len(Q)
    BY <1>4, <2>1, ConcatProperties DEF pi
  <2>3. (cursor_col + n) + (x - cursor_col) <= EDIT_MAX_LINE_LEN - 1
    BY <1>1, <1>2, EditNumbers
  <2>4. Len(pi \o Q) <= EDIT_MAX_LINE_LEN - 1
    BY <1>4, <2>1, <2>2, <2>3 DEF pi
  <2> QED BY <2>2, <2>4 DEF Fit, pi
<1>6. lines' \in [E!LineIndex -> Fit]
  BY <1>2, <1>5, LinesFit DEF I, EditTyped, Buffers
<1> QED BY <1>2, <1>6, EditNumbers, TypedNext

(* Deleting.                                                               *)
LEMMA DeleteTyped ==
  ASSUME EditTyped, cursor_col \in 1 .. Len(E!Line) + 1, E!DeleteInLine
  PROVE  EditTyped'
<1> DEFINE l == E!Line
           P == SubSeq(l, 1, cursor_col - 1)
           Q == SubSeq(l, cursor_col + 1, Len(l))
<1>1. PICK x \in Nat : x = Len(l) /\ x <= EDIT_MAX_LINE_LEN - 1
  BY LinesFit DEF Fit
<1>2. /\ lines' = IF cursor_col > x THEN lines ELSE [lines EXCEPT ![cursor_line] = P \o Q]
      /\ cursor_col' = cursor_col - 1 /\ line_count' = line_count /\ cursor_line' = cursor_line
  BY <1>1, LinesFit, EditNumbers DEF E!DeleteInLine, E!RemoveAt, EditTyped, Buffers
<1>3. lines' \in [E!LineIndex -> Fit]
  <2>1. CASE cursor_col > x
    BY <1>2, <2>1, LinesFit DEF EditTyped, Buffers
  <2>2. CASE cursor_col <= x
    <3>1. PICK k \in 0 .. x : k = cursor_col - 1
      BY <1>1, <2>2, EditNumbers
    <3>2. cursor_col \in 0 .. x
      BY <1>1, <2>2, EditNumbers
    <3>3. P \in Seq(Chr) /\ Len(P) = k /\ Q \in Seq(Chr) /\ Len(Q) = x - cursor_col
      BY <1>1, <3>1, <3>2, LinesFit, CutInTwo
    <3> HIDE DEF P, Q
    <3>4. P \o Q \in Seq(Chr) /\ Len(P \o Q) = k + (x - cursor_col)
      BY <3>3, ConcatProperties
    <3>5. k + (x - cursor_col) <= EDIT_MAX_LINE_LEN - 1
      BY <1>1, <3>1, <3>2, EditNumbers
    <3>6. P \o Q \in Fit
      BY <3>4, <3>5 DEF Fit
    <3>7. lines' = [lines EXCEPT ![cursor_line] = P \o Q]
      BY <1>2, <3>2
    <3> QED BY <3>6, <3>7, LinesFit DEF EditTyped, Buffers
  <2> QED BY <1>1, <2>1, <2>2, EditNumbers
<1>4. cursor_col' \in Nat
  BY <1>1, <1>2, EditNumbers
<1> QED BY <1>2, <1>3, <1>4, EditNumbers, TypedNext

(* Joining.                                                                *)
LEMMA JoinTyped ==
  ASSUME EditTyped, cursor_line > 0, E!JoinLines
  PROVE  EditTyped'
<1> DEFINE l == E!Line
           prev == lines[cursor_line - 1]
           m == E!Min({Len(l), EDIT_MAX_LINE_LEN - Len(prev) - 1})
           F == SubSeq(l, 1, m)
<1>1. cursor_line - 1 \in E!LineIndex
  BY EditNumbers
<1>2. PICK x \in Nat : x = Len(l) /\ x <= EDIT_MAX_LINE_LEN - 1
  BY LinesFit DEF Fit
<1>3. prev \in Seq(Chr) /\ prev \in Fit
  BY <1>1, LinesFit DEF Fit
<1>4. PICK q \in Nat : q = Len(prev) /\ q <= EDIT_MAX_LINE_LEN - 1
  BY <1>3, LenProperties DEF Fit
<1>5. m \in 0 .. x /\ q + m <= EDIT_MAX_LINE_LEN - 1
  <2>1. PICK r \in Nat : r = EDIT_MAX_LINE_LEN - q - 1
    BY <1>4, EditNumbers
  <2>2. m = IF x <= r THEN x ELSE r
    BY <1>2, <1>4, <2>1, EditorMin
  <2> QED BY <2>1, <2>2, EditNumbers
<1>6. /\ lines' = E!MovedUp(cursor_line, prev \o F) /\ cursor_col' = q
      /\ line_count' = line_count - 1 /\ cursor_line' = cursor_line - 1
  BY <1>4 DEF E!JoinLines
<1>7. prev \o F \in Fit
  <2>1. F \in Seq(Chr) /\ Len(F) = m
    <3>1. PICK k \in 0 .. Len(l) : k = m
      BY <1>2, <1>5
    <3>2. l \in Seq(Chr)
      BY LinesFit
    <3> HIDE DEF m, l
    <3>3. SubSeq(l, 1, k) \in Seq(Chr) /\ Len(SubSeq(l, 1, k)) = k
      BY <3>2, CutInTwo
    <3> QED BY <3>1, <3>3
  <2> HIDE DEF prev, F, m
  <2>2. prev \o F \in Seq(Chr) /\ Len(prev \o F) = q + m
    BY <1>3, <1>4, <2>1, ConcatProperties
  <2> QED BY <1>5, <2>2 DEF Fit
<1> HIDE DEF prev, F, m
<1>8. lines' \in [E!LineIndex -> Fit]
  <2>1. ASSUME NEW i \in E!LineIndex
        PROVE  (IF i = cursor_line - 1 THEN prev \o F
                ELSE IF i >= cursor_line /\ i < line_count - 1 THEN lines[i + 1] ELSE lines[i]) \in Fit
    <3>1. i < line_count - 1 => i + 1 \in E!LineIndex
      BY EditNumbers
    <3> QED BY <1>7, <3>1, LinesFit
  <2> QED BY <1>6, <2>1 DEF E!MovedUp
<1>9. line_count' \in Int /\ line_count' <= EDIT_MAX_LINES
  BY <1>6, EditNumbers
<1> QED BY <1>1, <1>4, <1>6, <1>8, <1>9, TypedNext

(* A call that keeps the lines.                                            *)
LEMMA LinesKept ==
  ASSUME EditTyped, lines' = lines, line_count' \in Int, line_count' <= EDIT_MAX_LINES,
         cursor_line' \in E!LineIndex, cursor_col' \in Nat
  PROVE  EditTyped'
<1>1. lines' \in [E!LineIndex -> Fit]
  BY LinesFit DEF EditTyped, Buffers
<1> QED BY <1>1, TypedNext

LEMMA LeavesTyped ==
  ASSUME EditTyped, E!Leaves \/ UNCHANGED E!vars \/ UNCHANGED <<E!buffer, cursor_line, cursor_col>>
  PROVE  EditTyped'
BY EditNumbers, LinesKept DEF E!Leaves, E!vars, E!buffer

LEMMA EditKeepsTypes ==
  ASSUME EditTyped, [E!Next]_(E!vars)
  PROVE  EditTyped'
<1>1. CASE E!edit_insert_char
  <2>1. CASE E!InsertNewline \/ E!NewlineBehind
    BY <2>1, NewlineTyped
  <2>2. CASE \E c \in Chr : E!InsertRun(c, 1)
    BY <2>2, RunTyped
  <2>3. CASE E!InsertRun(SPACE, EDIT_TAB)
    <3>1. SPACE \in Chr /\ EDIT_TAB \in Nat
      BY EditorAssumed DEF E!EditorAssumption, Chr
    <3> QED BY <2>3, <3>1, RunTyped
  <2>4. CASE E!RunBehind
    BY <2>4, EditNumbers, LinesKept DEF E!RunBehind, E!buffer
  <2>5. CASE E!Leaves
    BY <2>5, LeavesTyped
  <2> QED BY <1>1, <2>1, <2>2, <2>3, <2>4, <2>5 DEF E!edit_insert_char, Chr
<1>2. CASE E!edit_delete_char
  BY <1>2, DeleteTyped, JoinTyped, LeavesTyped DEF E!edit_delete_char
<1>3. ASSUME NEW dl \in Moves, NEW dc \in Moves, E!edit_move_cursor(dl, dc) PROVE EditTyped'
  <2>1. CASE line_count > 0
    <3>1. /\ lines' = lines /\ line_count' = line_count
          /\ cursor_line' \in E!LineIndex /\ cursor_col' \in Nat
      BY <1>3, <2>1, MoveIsIn
    <3> QED BY <3>1, EditNumbers, LinesKept
  <2>2. CASE ~ (line_count > 0)
    BY <1>3, <2>2, LeavesTyped DEF E!edit_move_cursor
  <2> QED BY <2>1, <2>2
<1>4. CASE E!edit_find
  <2>1. cursor_line' \in E!LineIndex
    BY <1>4, EditNumbers DEF E!edit_find
  <2> QED BY <1>4, <2>1, EditNumbers, LinesKept DEF E!edit_find, E!buffer
<1>5. CASE E!edit_open
  <2>1. 1 <= EDIT_MAX_LINES
    BY EditorAssumed DEF E!EditorAssumption
  <2> QED BY <1>5, <2>1, EditNumbers, LinesKept DEF E!edit_open
<1>6. CASE E!edit_save
  BY <1>6, LeavesTyped DEF E!edit_save
<1>7. CASE UNCHANGED E!vars
  BY <1>7, LeavesTyped
<1> QED BY <1>1, <1>2, <1>3, <1>4, <1>5, <1>6, <1>7 DEF E!Next, E!Call

(* While the cursor is in the text each call is a step of the plain text.  *)
EditsPlainly == E!CursorInText => /\ ~lost'
                                  /\ E!CursorInText' \/ E!edit_find \/ E!edit_open
                                  /\ E!edit_open \/ E!Flat!TextNext \/ UNCHANGED E!Flat!textVars

(* There no call leaves the lines.                                         *)
LEMMA StaysInLines ==
  ASSUME EditTyped, E!CursorInText, ~lost, E!Call
  PROVE  ~lost' /\ ~E!NewlineBehind /\ ~E!RunBehind
<1>1. PICK x \in Nat : x = Len(E!Line) /\ cursor_col <= x /\ x <= EDIT_MAX_LINE_LEN - 1 /\ cursor_col \in Nat
  BY CursorCuts, EditNumbers
<1>2. line_count \in Nat \ {0} /\ cursor_line < line_count
  BY CursorCuts, EditNumbers
<1>3. ~E!NewlineLeaves
  <2>1. E!Min({x + 1, EDIT_MAX_LINE_LEN - 1}) = IF x + 1 <= EDIT_MAX_LINE_LEN - 1 THEN x + 1 ELSE EDIT_MAX_LINE_LEN - 1
    BY EditNumbers, EditorMin
  <2>2. cursor_col <= E!Min({x + 1, EDIT_MAX_LINE_LEN - 1})
    BY <1>1, <2>1, EditNumbers
  <2>3. line_count < EDIT_MAX_LINES => cursor_line + 1 \in E!LineIndex
    BY <1>2, EditNumbers
  <2>4. ~ (cursor_col > E!Min({x + 1, EDIT_MAX_LINE_LEN - 1}))
    BY <1>1, <2>1, EditNumbers
  <2> QED BY <1>1, <2>3, <2>4 DEF E!NewlineLeaves
<1>4. ~E!RunLeaves(1) /\ ~E!RunLeaves(EDIT_TAB) /\ ~E!RunBehind /\ ~E!NewlineBehind
  BY <1>1 DEF E!RunLeaves, E!RunBehind, E!NewlineBehind
<1>5. ~ (cursor_col > Len(E!Line) + 1) /\ ~ (line_count <= 0)
  BY <1>1, <1>2
<1> QED BY <1>3, <1>4, <1>5 DEF E!Call, E!edit_insert_char, E!edit_delete_char, E!edit_move_cursor,
                                 E!edit_find, E!edit_open, E!edit_save

LEMMA EditStep ==
  ASSUME EditTyped, [E!Next]_(E!vars)
  PROVE  [EditsPlainly]_(E!vars)
<1> SUFFICES ASSUME ~ UNCHANGED E!vars, E!CursorInText
             PROVE  /\ ~lost'
                    /\ E!CursorInText' \/ E!edit_find \/ E!edit_open
                    /\ E!edit_open \/ E!Flat!TextNext \/ UNCHANGED E!Flat!textVars
  BY DEF EditsPlainly
<1>0. ~lost /\ E!Call /\ ~lost' /\ ~E!NewlineBehind /\ ~E!RunBehind
  BY StaysInLines DEF E!Next
<1>1. CASE E!edit_insert_char
  <2>1. CASE E!InsertNewline
    BY <1>0, <2>1, NewlineStep DEF E!Flat!TextNext
  <2>2. CASE \E c \in Chr : E!InsertRun(c, 1)
    BY <1>0, <2>2, RunStep DEF E!Flat!TextNext
  <2>3. CASE E!InsertRun(SPACE, EDIT_TAB)
    <3>1. SPACE \in Chr /\ EDIT_TAB \in Nat
      BY EditorAssumed DEF E!EditorAssumption, Chr
    <3> QED BY <1>0, <2>3, <3>1, RunStep DEF E!Flat!TextNext
  <2> QED BY <1>0, <1>1, <2>1, <2>2, <2>3 DEF E!edit_insert_char, E!Leaves, Chr
<1>2. CASE E!edit_delete_char
  <2>1. CASE cursor_col > 0 /\ E!DeleteInLine
    BY <1>0, <2>1, InLineStep DEF E!Flat!TextNext
  <2>2. CASE cursor_col = 0 /\ cursor_line > 0 /\ E!JoinLines
    BY <1>0, <2>2, JoinStep DEF E!Flat!TextNext
  <2>3. CASE UNCHANGED <<E!buffer, cursor_line, cursor_col>>
    BY <1>0, <2>3, SameFlat DEF E!buffer
  <2>4. cursor_col \in 1 .. Len(E!Line) + 1 => cursor_col > 0
    BY LinesFit
  <2> QED BY <1>0, <1>2, <2>1, <2>2, <2>3, <2>4 DEF E!edit_delete_char, E!Leaves
<1>3. CASE \E dl, dc \in Moves : E!edit_move_cursor(dl, dc)
  BY <1>0, <1>3, PlaceStep DEF E!Flat!TextNext
<1>4. CASE E!edit_find
  BY <1>0, <1>4, PlaceStep DEF E!Flat!TextNext
<1>5. CASE E!edit_open
  BY <1>0, <1>5
<1>6. CASE E!edit_save
  BY <1>0, <1>6, SameFlat DEF E!edit_save, E!buffer
<1> QED BY <1>0, <1>1, <1>2, <1>3, <1>4, <1>5, <1>6 DEF E!Call

-----------------------------------------------------------------------------
(* All of them.                                                            *)

(* A step of the composition is one of each part, or rests.                *)
LEMMA DesktopPartsRun == DesktopSpec => Spec /\ G!Spec /\ C!Spec
<1>1. DesktopInit => Init /\ G!Init /\ C!Init
  BY DEF DesktopInit
<1>2. [DesktopNext]_desktopVars => [Next]_vars
  BY DEF DesktopNext, desktopVars
<1>3. [DesktopNext]_desktopVars => [G!Next]_(G!vars)
  BY DEF DesktopNext, desktopVars, terminalVars, G!vars
<1>4. [DesktopNext]_desktopVars => [C!Next]_(C!vars)
  BY DEF DesktopNext, desktopVars, menuVars, C!vars, C!menu
<1> QED BY <1>1, <1>2, <1>3, <1>4, PTL DEF DesktopSpec, Spec, G!Spec, C!Spec

(* Between the prompt and the cursor the screen shows what the shell will  *)
(* get, for a screen and a window of any size; what the cells behind the   *)
(* cursor show is not said.                                                *)
THEOREM LineBeforeCursor == DesktopSpec => []InputBeforeCursor
<1>1. TerminalInv => InputBeforeCursor
  BY DEF TerminalInv, InputBeforeCursor
<1> QED BY <1>1, DesktopPartsRun, TerminalInvariance, PTL

(* Whatever prints into a new row brings the row into the window.          *)
THEOREM OutputComesIntoView == DesktopSpec => OutputIsInView
BY DesktopPartsRun, TerminalInvariance, PTL
   DEF OutputIsInView, G!OutputIsInView, InView

(* A click in the box calls what the item drawn under the pointer calls,   *)
(* and a click anywhere else nothing, whatever callbacks do to the menu.   *)
THEOREM ClicksRunDrawn == DesktopSpec => ClicksRunWhatIsDrawn
BY DesktopPartsRun, MenuRuns, PTL DEF ClicksRunWhatIsDrawn

(* While the cursor is in the text, typing, deleting, splitting and joining*)
(* do to the text what they do at the cursor of a plain text, however many *)
(* lines of whatever length there may be: no other character is lost,      *)
(* doubled or moved, no call leaves the lines, and the cursor leaves the   *)
(* text in no other way than by finding a text or opening a file.  What    *)
(* the calls made outside of the text do is no plain editing.              *)
THEOREM EditingIsPlain ==
  DesktopSpec => EditsPlainText
<1>1. DesktopInit => E!Init
  BY DEF DesktopInit
<1>2. [DesktopNext]_desktopVars => [E!Next]_(E!vars)
  BY DEF DesktopNext, desktopVars, editorVars, E!vars, E!buffer
<1>3. E!Init => EditTyped /\ E!Flat!TextInit
  BY EditInit
<1>4. EditTyped /\ [E!Next]_(E!vars) => EditTyped' /\ [EditsPlainly]_(E!vars)
  BY EditStep, EditKeepsTypes
<1> QED BY <1>1, <1>2, <1>3, <1>4, PTL DEF DesktopSpec, EditsPlainText, E!EditsPlainText, EditsPlainly
=============================================================================
