----------------------------- MODULE LiveProofs -----------------------------
(***************************************************************************)
(* What is proved of the keyboard, the timer and the animations for every  *)
(* size of their tables: the keyboard's handler and reader, which share    *)
(* the ring without a lock, together are a queue that drops keys only when *)
(* full; a sleep is long enough wherever the ticks fall between the loads  *)
(* of the counter; and the ends of animations are reported, whatever the   *)
(* callbacks start and stop.                                               *)
(***************************************************************************)
EXTENDS MCLive, RingFacts, SequenceTheorems, TLAPS

USE BufferAssumption, KeyAssumption

(* The reader has seen a character from its poll to its advance, and what  *)
(* it fetched stays in the cell under the head until then: the handler     *)
(* writes at the tail, and never moves it up to the head.                  *)
ReaderSafe == /\ pc \in {"fetch", "advance"} => head # tail
              /\ pc = "advance" => c = buffer[head]

Typed == /\ buffer \in [Cell -> Char \cup {NoChar}]
         /\ head \in Cell /\ tail \in Cell
         /\ shift \in BOOLEAN /\ caps \in BOOLEAN
         /\ pc \in {"idle", "poll", "fetch", "advance"}

Inv == Typed /\ ReaderSafe

NextCellOf(x) == (x + 1) % KB_BUFFER_SIZE

(* The next cell, with the wrap spelled out.                               *)
LEMMA NextCellIs ==
  ASSUME NEW x \in Cell
  PROVE  /\ NextCellOf(x) \in Cell
         /\ NextCellOf(x) = IF x + 1 < KB_BUFFER_SIZE THEN x + 1 ELSE 0
<1> DEFINE a == x + 1
<1>1. a \in 0 .. 2 * KB_BUFFER_SIZE - 1 /\ NextCellOf(x) = a % KB_BUFFER_SIZE
  BY DEF Cell, NextCellOf
<1> HIDE DEF a
<1>2. a % KB_BUFFER_SIZE = IF a < KB_BUFFER_SIZE THEN a ELSE a - KB_BUFFER_SIZE
  BY <1>1, ModWrap
<1> QED BY <1>1, <1>2 DEF a, Cell

(* How many cells from h up to t.                                          *)
Apart(h, t) == (t - h + KB_BUFFER_SIZE) % KB_BUFFER_SIZE

(* The distance, with the wrap spelled out.                                *)
LEMMA ApartIs ==
  ASSUME NEW h \in Cell, NEW t \in Cell
  PROVE  /\ Apart(h, t) \in 0 .. KB_BUFFER_SIZE - 1
         /\ Apart(h, t) = IF h <= t THEN t - h ELSE t - h + KB_BUFFER_SIZE
<1> DEFINE a == t - h + KB_BUFFER_SIZE
<1>1. a \in 0 .. 2 * KB_BUFFER_SIZE - 1 /\ Apart(h, t) = a % KB_BUFFER_SIZE
  BY DEF Cell, Apart
<1> HIDE DEF a
<1>2. a % KB_BUFFER_SIZE = IF a < KB_BUFFER_SIZE THEN a ELSE a - KB_BUFFER_SIZE
  BY <1>1, ModWrap
<1> QED BY <1>1, <1>2 DEF a, Cell

(* The cell of the i-th character from h on.                               *)
Place(h, i) == (h + i - 1) % KB_BUFFER_SIZE

(* The place of a cell behind the head, with the wrap spelled out.         *)
LEMMA PlaceIs ==
  ASSUME NEW h \in Cell, NEW i \in 1 .. KB_BUFFER_SIZE
  PROVE  /\ Place(h, i) \in Cell
         /\ Place(h, i) = IF h + i - 1 < KB_BUFFER_SIZE THEN h + i - 1
                                                  ELSE h + i - 1 - KB_BUFFER_SIZE
<1> DEFINE a == h + i - 1
<1>1. a \in 0 .. 2 * KB_BUFFER_SIZE - 1 /\ Place(h, i) = a % KB_BUFFER_SIZE
  BY DEF Cell, Place
<1> HIDE DEF a
<1>2. a % KB_BUFFER_SIZE = IF a < KB_BUFFER_SIZE THEN a ELSE a - KB_BUFFER_SIZE
  BY <1>1, ModWrap
<1> QED BY <1>1, <1>2 DEF a, Cell

(* What is pending is a sequence of characters, one for each cell.         *)
LEMMA PendingIs ==
  ASSUME Typed
  PROVE  /\ Waiting = Apart(head, tail)
         /\ Pending = [i \in 1 .. Waiting |-> buffer[Place(head, i)]]
         /\ Pending \in Seq(Char \cup {NoChar})
         /\ Len(Pending) = Waiting
         /\ Waiting \in 0 .. KB_BUFFER_SIZE - 1
         /\ Waiting = 0 <=> head = tail
<1>1. Waiting = Apart(head, tail)
  BY DEF Waiting, Apart
<1>2. /\ Waiting \in 0 .. KB_BUFFER_SIZE - 1
      /\ Waiting = IF head <= tail THEN tail - head ELSE tail - head + KB_BUFFER_SIZE
  BY <1>1, ApartIs DEF Typed
<1>3. Pending = [i \in 1 .. Waiting |-> buffer[Place(head, i)]]
  BY DEF Pending, Place
<1>4. ASSUME NEW i \in 1 .. Waiting PROVE buffer[Place(head, i)] \in Char \cup {NoChar}
  <2>1. i \in 1 .. KB_BUFFER_SIZE
    BY <1>2
  <2> QED BY <2>1, PlaceIs DEF Typed
<1>5. Pending \in Seq(Char \cup {NoChar}) /\ Len(Pending) = Waiting
  <2>1. Waiting \in Nat
    BY <1>2
  <2> HIDE DEF Waiting, Place
  <2> QED BY <1>3, <1>4, <2>1
<1>6. Waiting = 0 <=> head = tail
  BY <1>2 DEF Typed, Cell
<1> QED BY <1>1, <1>2, <1>3, <1>5, <1>6

-----------------------------------------------------------------------------
(* The handler stores a character behind those that wait.                  *)
LEMMA StoreAppends ==
  ASSUME Typed, Typed', HasRoom, NEW x,
         buffer' = [buffer EXCEPT ![tail] = x],
         tail' = NextCellOf(tail), head' = head
  PROVE  /\ Waiting < KB_BUFFER_SIZE - 1
         /\ Waiting' = Waiting + 1
         /\ Pending' = Append(Pending, x)
<1> DEFINE n == Waiting
           p == Pending
<1>1. /\ head \in Cell /\ tail \in Cell /\ KB_BUFFER_SIZE \in Nat \ {0}
      /\ buffer \in [Cell -> Char \cup {NoChar}]
  BY DEF Typed
<1>2. n = IF head <= tail THEN tail - head ELSE tail - head + KB_BUFFER_SIZE
  BY <1>1, PendingIs, ApartIs
<1>3. tail' = IF tail + 1 < KB_BUFFER_SIZE THEN tail + 1 ELSE 0
  BY <1>1, NextCellIs
<1>4. tail' # head
  BY DEF HasRoom, NextCellOf
<1>5. n \in 0 .. KB_BUFFER_SIZE - 2
  BY <1>1, <1>2, <1>3, <1>4 DEF Cell
<1>6. Waiting' = n + 1
  <2>1. Waiting' = Apart(head, tail') /\ tail' \in Cell
    BY DEF Waiting, Apart, Typed
  <2>2. Waiting' = IF head <= tail' THEN tail' - head ELSE tail' - head + KB_BUFFER_SIZE
    BY <1>1, <2>1, ApartIs
  <2> QED BY <1>1, <1>2, <1>3, <1>4, <2>2 DEF Cell
<1>7. Place(head, n + 1) = tail
  <2>1. n + 1 \in 1 .. KB_BUFFER_SIZE
    BY <1>5
  <2>2. Place(head, n + 1) = IF head + (n + 1) - 1 < KB_BUFFER_SIZE
                               THEN head + (n + 1) - 1
                               ELSE head + (n + 1) - 1 - KB_BUFFER_SIZE
    BY <1>1, <2>1, PlaceIs
  <2> QED BY <1>1, <1>2, <2>2 DEF Cell
<1>8. ASSUME NEW i \in 1 .. n PROVE Place(head, i) \in Cell \ {tail}
  <2>1. i \in 1 .. KB_BUFFER_SIZE
    BY <1>5
  <2>2. /\ Place(head, i) \in Cell
        /\ Place(head, i) = IF head + i - 1 < KB_BUFFER_SIZE THEN head + i - 1
                                                    ELSE head + i - 1 - KB_BUFFER_SIZE
    BY <1>1, <2>1, PlaceIs
  <2> QED BY <1>1, <1>2, <1>5, <2>2 DEF Cell
<1>9. Pending' = [i \in 1 .. n + 1 |-> buffer'[Place(head, i)]]
  BY <1>6 DEF Pending, Place
<1>10. /\ p \in Seq(Char \cup {NoChar}) /\ Len(p) = n
       /\ p = [i \in 1 .. n |-> buffer[Place(head, i)]]
  BY PendingIs
<1> HIDE DEF n, p, Place
<1>11. ASSUME NEW i \in 1 .. n + 1
       PROVE  buffer'[Place(head, i)] = IF i <= n THEN p[i] ELSE x
  <2>1. CASE i \in 1 .. n
    BY <1>1, <1>5, <1>8, <1>10, <2>1
  <2>2. CASE i = n + 1
    BY <1>1, <1>5, <1>7, <2>2
  <2> QED BY <1>5, <2>1, <2>2
<1>12. Append(p, x) = [i \in 1 .. n + 1 |-> IF i <= n THEN p[i] ELSE x]
  BY <1>5, <1>10
<1>13. Pending' = Append(p, x)
  BY <1>9, <1>11, <1>12
<1> QED BY <1>5, <1>6, <1>13 DEF n, p

(* The reader's advance takes the oldest of them.                          *)
LEMMA AdvanceTakes ==
  ASSUME Typed, Typed', head # tail,
         head' = NextCellOf(head), UNCHANGED <<buffer, tail>>
  PROVE  /\ Pending # << >>
         /\ Head(Pending) = buffer[head]
         /\ Pending' = Tail(Pending)
<1> DEFINE n == Waiting
           p == Pending
<1>1. head \in Cell /\ tail \in Cell /\ KB_BUFFER_SIZE \in Nat \ {0}
  BY DEF Typed
<1>2. /\ n = IF head <= tail THEN tail - head ELSE tail - head + KB_BUFFER_SIZE
      /\ n \in 1 .. KB_BUFFER_SIZE - 1
  <2>1. n = IF head <= tail THEN tail - head ELSE tail - head + KB_BUFFER_SIZE
    BY <1>1, PendingIs, ApartIs
  <2> QED BY <1>1, <2>1 DEF Cell
<1>3. head' = IF head + 1 < KB_BUFFER_SIZE THEN head + 1 ELSE 0
  BY <1>1, NextCellIs
<1>4. Waiting' = n - 1
  <2>1. Waiting' = Apart(head', tail) /\ head' \in Cell
    BY DEF Waiting, Apart, Typed
  <2>2. Waiting' = IF head' <= tail THEN tail - head' ELSE tail - head' + KB_BUFFER_SIZE
    BY <1>1, <2>1, ApartIs
  <2> QED BY <1>1, <1>2, <1>3, <2>2 DEF Cell
<1>5. ASSUME NEW i \in 1 .. n - 1 PROVE Place(head', i) = Place(head, i + 1)
  <2>1. i \in 1 .. KB_BUFFER_SIZE /\ i + 1 \in 1 .. KB_BUFFER_SIZE /\ head' \in Cell
    BY <1>2 DEF Typed
  <2>2. Place(head', i) = IF head' + i - 1 < KB_BUFFER_SIZE THEN head' + i - 1
                                                 ELSE head' + i - 1 - KB_BUFFER_SIZE
    BY <2>1, PlaceIs
  <2>3. Place(head, i + 1) = IF head + (i + 1) - 1 < KB_BUFFER_SIZE THEN head + (i + 1) - 1
                                           ELSE head + (i + 1) - 1 - KB_BUFFER_SIZE
    BY <1>1, <2>1, PlaceIs
  <2> QED BY <1>1, <1>2, <1>3, <2>2, <2>3 DEF Cell
<1>6. Place(head, 1) = head
  <2>1. 1 \in 1 .. KB_BUFFER_SIZE
    BY <1>1
  <2>2. Place(head, 1) = IF head + 1 - 1 < KB_BUFFER_SIZE THEN head + 1 - 1
                                                ELSE head + 1 - 1 - KB_BUFFER_SIZE
    BY <1>1, <2>1, PlaceIs
  <2> QED BY <1>1, <2>2 DEF Cell
<1>7. Pending' = [i \in 1 .. n - 1 |-> buffer[Place(head', i)]]
  BY <1>4 DEF Pending, Place
<1>8. /\ p \in Seq(Char \cup {NoChar}) /\ Len(p) = n
      /\ p = [i \in 1 .. n |-> buffer[Place(head, i)]]
  BY PendingIs
<1> HIDE DEF n, p, Place
<1>9. p # << >> /\ Head(p) = buffer[head]
  BY <1>2, <1>6, <1>8
<1>10. Tail(p) = [i \in 1 .. n - 1 |-> p[i + 1]]
  BY <1>2, <1>8
<1>11. ASSUME NEW i \in 1 .. n - 1 PROVE buffer[Place(head', i)] = p[i + 1]
  <2>1. i + 1 \in 1 .. n
    BY <1>2
  <2> QED BY <1>5, <1>8, <2>1
<1>12. Pending' = Tail(p)
  BY <1>7, <1>10, <1>11
<1> QED BY <1>9, <1>12 DEF p

-----------------------------------------------------------------------------
(* The driver starts in the invariant.                                     *)
LEMMA InvInit == Init => Inv
<1> SUFFICES ASSUME Init PROVE Inv
  OBVIOUS
<1>1. 0 \in Cell
  BY DEF Cell
<1>2. pc = "idle" /\ shift = FALSE /\ caps = FALSE
  BY DEF Init
<1>3. buffer \in [Cell -> Char \cup {NoChar}] /\ head \in Cell /\ tail \in Cell
  BY <1>1 DEF Init
<1> QED BY <1>2, <1>3 DEF Inv, Typed, ReaderSafe

(* What the handler does to the ring: nothing, or it stores a character    *)
(* because there is room.                                                  *)
Stores(x) == /\ HasRoom
             /\ buffer' = [buffer EXCEPT ![tail] = x]
             /\ tail' = NextCellOf(tail)
             /\ head' = head

(* The handler stores one character or nothing, and a key with room.       *)
LEMMA HandlerStores ==
  ASSUME Typed, NEW k \in Key, NEW rel \in BOOLEAN, keyboard_irq_handler(k, rel)
  PROVE  /\ shift' \in BOOLEAN /\ caps' \in BOOLEAN
         /\ UNCHANGED ringVars \/ \E x \in Char : Stores(x)
         /\ k \in CharKey /\ ~rel /\ HasRoom => \E x \in Char : Stores(x)
<1>1. CASE ShiftKey(k, rel) \/ HoldKey(k, rel) \/ CapsKey(k, rel)
  <2>1. k \notin CharKey
    BY <1>1, ModifierAssumption DEF ShiftKey, HoldKey, CapsKey
  <2> QED BY <1>1, <2>1 DEF ShiftKey, HoldKey, CapsKey, ringVars, Typed
<1>2. CASE OtherKey(k, rel)
  <2>1. shift' \in BOOLEAN /\ caps' \in BOOLEAN
    BY <1>2 DEF OtherKey, flags, Typed
  <2>2. CASE ~rel /\ k \in CharKey /\ HasRoom
    <3>1. <<k, shift # caps>> \in Char
      BY <2>2 DEF Char
    <3>2. Stores(<<k, shift # caps>>)
      BY <1>2, <2>2 DEF OtherKey, Stores, NextCellOf
    <3> QED BY <2>1, <3>1, <3>2
  <2>3. CASE ~(~rel /\ k \in CharKey /\ HasRoom)
    <3>1. UNCHANGED ringVars
      BY <1>2, <2>3 DEF OtherKey
    <3> QED BY <2>1, <2>3, <3>1
  <2> QED BY <2>2, <2>3
<1> QED BY <1>1, <1>2 DEF keyboard_irq_handler

(* A store does not touch what the reader holds.                           *)
LEMMA StoreKeepsInv ==
  ASSUME Inv, NEW x \in Char, Stores(x), UNCHANGED <<pc, c>>,
         shift' \in BOOLEAN, caps' \in BOOLEAN
  PROVE  Inv'
<1>1. tail' \in Cell /\ tail' # head
  BY NextCellIs DEF Stores, HasRoom, NextCellOf, Inv, Typed
<1>2. Typed'
  BY <1>1 DEF Inv, Typed, Stores
<1>3. ReaderSafe'
  BY <1>1 DEF Inv, Typed, ReaderSafe, Stores
<1> QED BY <1>2, <1>3 DEF Inv

(* The handler keeps the invariant, between any two steps of the reader.   *)
LEMMA HandlerKeepsInv ==
  ASSUME Inv, NEW k \in Key, Press(k) \/ Release(k)
  PROVE  /\ Inv'
         /\ got' = got
         /\ UNCHANGED ringVars \/ \E x \in Char : Stores(x)
<1>1. PICK rel \in BOOLEAN : keyboard_irq_handler(k, rel) /\ UNCHANGED <<pc, c, got>>
  BY DEF Press, Release
<1>2. /\ shift' \in BOOLEAN /\ caps' \in BOOLEAN
      /\ UNCHANGED ringVars \/ \E x \in Char : Stores(x)
  BY <1>1, HandlerStores DEF Inv
<1>3. CASE UNCHANGED ringVars
  <2>1. Typed'
    BY <1>1, <1>2, <1>3 DEF Inv, Typed, ringVars
  <2>2. ReaderSafe'
    BY <1>1, <1>3 DEF Inv, ReaderSafe, ringVars
  <2> QED BY <1>1, <1>3, <2>1, <2>2 DEF Inv
<1>4. ASSUME NEW x \in Char, Stores(x) PROVE Inv'
  <2>1. UNCHANGED <<pc, c>>
    BY <1>1
  <2> QED BY <1>2, <1>4, <2>1, StoreKeepsInv
<1>5. got' = got
  BY <1>1
<1> QED BY <1>2, <1>3, <1>4, <1>5

(* Every step keeps the invariant.                                         *)
LEMMA InvStep ==
  ASSUME Inv, [Next]_vars
  PROVE  Inv'
<1>1. CASE Call
  BY <1>1 DEF Call, ringVars, flags, Inv, Typed, ReaderSafe
<1>2. CASE Poll
  BY <1>2 DEF Poll, ringVars, flags, Inv, Typed, ReaderSafe
<1>3. CASE Fetch
  BY <1>3 DEF Fetch, ringVars, flags, Inv, Typed, ReaderSafe
<1>4. CASE Advance
  <2>1. head' \in Cell
    BY <1>4, NextCellIs DEF Advance, HeadNext, NextCellOf, Inv, Typed
  <2> QED BY <1>4, <2>1 DEF Advance, flags, Inv, Typed, ReaderSafe
<1>5. ASSUME NEW k \in Key, Press(k) \/ Release(k) PROVE Inv'
  BY <1>5, HandlerKeepsInv
<1>6. CASE UNCHANGED vars
  BY <1>6 DEF vars, Inv, Typed, ReaderSafe
<1> QED BY <1>1, <1>2, <1>3, <1>4, <1>5, <1>6 DEF Next, keyboard_getchar

(* Between its poll and its advance the reader has a character to take,    *)
(* and the one it fetched is still the oldest when it advances.            *)
THEOREM ReaderIsSafe == Spec => []ReaderSafe
<1>1. Inv /\ [Next]_vars => Inv'
  BY InvStep
<1>2. Inv => ReaderSafe
  BY DEF Inv
<1> QED BY <1>1, <1>2, InvInit, PTL DEF Spec

-----------------------------------------------------------------------------
(* The driver starts as the abstract queue does.                           *)
LEMMA RefineInit == Init => Stream!Init
<1> SUFFICES ASSUME Init PROVE Stream!Init
  OBVIOUS
<1>1. Typed /\ head = tail
  BY InvInit DEF Inv, Init
<1>2. Pending = << >>
  BY <1>1, PendingIs
<1> QED BY <1>2 DEF Init, Stream!Init

(* Every step is one of the abstract queue, or changes nothing of it.      *)
LEMMA RefineStep ==
  ASSUME Inv, [Next]_vars
  PROVE  [Stream!Next]_(Stream!vars)
<1>0. Typed /\ Typed'
  BY InvStep DEF Inv
<1>1. ASSUME NEW x \in Char, Stores(x), UNCHANGED got PROVE Stream!Next
  <2>1. /\ Waiting < KB_BUFFER_SIZE - 1
        /\ Pending' = Append(Pending, x)
    BY <1>0, <1>1, StoreAppends DEF Stores
  <2>2. Len(Pending) < KB_BUFFER_SIZE - 1
    BY <1>0, <2>1, PendingIs
  <2> QED BY <1>1, <2>1, <2>2 DEF Stream!Next, Stream!Arrive
<1>2. CASE Advance
  <2>1. head # tail /\ c = buffer[head]
    BY <1>2 DEF Advance, Inv, ReaderSafe
  <2>2. /\ Pending # << >>
        /\ Head(Pending) = buffer[head]
        /\ Pending' = Tail(Pending)
    BY <1>0, <1>2, <2>1, AdvanceTakes DEF Advance, HeadNext, NextCellOf
  <2>3. got' = Head(Pending)
    BY <1>2, <2>1, <2>2 DEF Advance
  <2> QED BY <2>2, <2>3 DEF Stream!Next, Stream!Take
<1>3. UNCHANGED ringVars /\ got' = got => UNCHANGED Stream!vars
  BY DEF ringVars, Stream!vars, Pending, Waiting
<1>4. CASE Call \/ Poll \/ Fetch \/ UNCHANGED vars
  BY <1>3, <1>4 DEF Call, Poll, Fetch, vars, ringVars
<1>5. ASSUME NEW k \in Key, Press(k) \/ Release(k)
      PROVE  [Stream!Next]_(Stream!vars)
  BY <1>1, <1>3, <1>5, HandlerKeepsInv
<1> QED BY <1>2, <1>4, <1>5 DEF Next, keyboard_getchar

(* A press that finds room makes one more character wait.                  *)
LEMMA PressStores ==
  ASSUME Inv, Typed', NEW k \in CharKey, Press(k), Waiting < KB_BUFFER_SIZE - 1
  PROVE  Waiting' = Waiting + 1
<1>1. k \in Key /\ keyboard_irq_handler(k, FALSE)
  BY DEF Press
<1>2. HasRoom
  <2>1. /\ head \in Cell /\ tail \in Cell
        /\ Waiting = IF head <= tail THEN tail - head ELSE tail - head + KB_BUFFER_SIZE
    BY PendingIs, ApartIs DEF Inv, Typed
  <2>2. NextCellOf(tail) = IF tail + 1 < KB_BUFFER_SIZE THEN tail + 1 ELSE 0
    BY <2>1, NextCellIs
  <2>3. NextCellOf(tail) # head
    BY <2>1, <2>2 DEF Cell
  <2> QED BY <2>3 DEF HasRoom, NextCellOf
<1>3. PICK x \in Char : Stores(x)
  BY <1>1, <1>2, HandlerStores DEF Inv
<1> QED BY <1>3, StoreAppends DEF Inv, Stores

(* What the handler does to the modifiers when a key goes down or up.      *)
LEMMA HandlerModifies ==
  ASSUME Typed, NEW k \in Key, NEW rel \in BOOLEAN, keyboard_irq_handler(k, rel)
  PROVE  /\ ctrl' = IF k = "CTRL" THEN ~rel ELSE ctrl
         /\ alt' = IF k = "ALT" THEN ~rel ELSE alt
         /\ shift' = IF k \in {"LSHIFT", "RSHIFT"} THEN ~rel ELSE shift
BY DEF keyboard_irq_handler, ShiftKey, HoldKey, CapsKey, OtherKey, flags

(* A key that goes down or up takes its modifier along, and no other.      *)
LEMMA ModifiersKept ==
  ASSUME Inv, ModifiersFollow, [Next]_vars
  PROVE  ModifiersFollow'
<1>1. ASSUME NEW k \in Key, Press(k) PROVE ModifiersFollow'
  <2>1. down' = down \cup {k} /\ keyboard_irq_handler(k, FALSE)
    BY <1>1 DEF Press
  <2>2. /\ ctrl' = IF k = "CTRL" THEN TRUE ELSE ctrl
        /\ alt' = IF k = "ALT" THEN TRUE ELSE alt
        /\ shift' = IF k \in {"LSHIFT", "RSHIFT"} THEN TRUE ELSE shift
    BY <2>1, HandlerModifies DEF Inv
  <2> QED BY <2>1, <2>2 DEF ModifiersFollow
<1>2. ASSUME NEW k \in Key, Release(k) PROVE ModifiersFollow'
  <2>1. down' = down \ {k} /\ keyboard_irq_handler(k, TRUE)
    BY <1>2 DEF Release
  <2>2. /\ ctrl' = IF k = "CTRL" THEN FALSE ELSE ctrl
        /\ alt' = IF k = "ALT" THEN FALSE ELSE alt
        /\ shift' = IF k \in {"LSHIFT", "RSHIFT"} THEN FALSE ELSE shift
    BY <2>1, HandlerModifies DEF Inv
  <2> QED BY <2>1, <2>2 DEF ModifiersFollow
<1>3. CASE UNCHANGED <<flags, down>>
  BY <1>3 DEF flags, ModifiersFollow
<1>4. CASE keyboard_getchar \/ UNCHANGED vars
  BY <1>3, <1>4 DEF keyboard_getchar, Call, Poll, Fetch, Advance, flags, vars
<1> QED BY <1>1, <1>2, <1>4 DEF Next

(* The driver is a queue that loses, doubles and reorders nothing, for     *)
(* every size of the ring and every interleaving of handler and reader,    *)
(* and drops a key only when the ring is full, and no modifier with it.    *)
THEOREM KeysArriveInOrder == Spec => KeysInOrder
<1> DEFINE Stored == \A k \in CharKey : Press(k) /\ Waiting < KB_BUFFER_SIZE - 1
                                           => Waiting' = Waiting + 1
<1>1. Inv /\ [Next]_vars => Inv'
  BY InvStep
<1>2. Inv /\ [Next]_vars => [Stream!Next]_(Stream!vars)
  BY RefineStep
<1>3. Inv /\ [Next]_vars => [Stored]_vars
  BY InvStep, PressStores DEF Inv
<1>4. Inv /\ ModifiersFollow /\ [Next]_vars => ModifiersFollow'
  BY ModifiersKept
<1>5. Init => ModifiersFollow
  BY DEF Init, ModifiersFollow
<1> QED
  BY <1>1, <1>2, <1>3, <1>4, <1>5, InvInit, RefineInit, PTL
     DEF Spec, KeysInOrder, Stream!Spec, DroppedOnlyWhenFull

-----------------------------------------------------------------------------
(* The sleeper of drivers/timer.c.                                         *)

Asleep == sleeper # "idle"

TimerTyped == /\ lo \in 0 .. HALF - 1 /\ hi \in Nat
              /\ sleeper \in {"idle", "end1", "end2", "cmp1", "cmp2", "halt", "hlt"}
              /\ loaded \in {"lo", "hi"} \X Nat
              /\ end \in Nat /\ need \in Nat /\ asked \in Nat /\ start \in Nat
              /\ torn \in BOOLEAN

(* A load of which no half is outdated by a carry.                         *)
LoadIsWhole == /\ loaded[1] = "hi" => loaded[2] = hi
               /\ loaded[1] = "lo" => loaded[2] <= lo /\ start <= hi * HALF + loaded[2]

(* While a sleep goes on: time passes; a torn load had a carry since its   *)
(* start; and without one, what is loaded is no later than now and no      *)
(* earlier than the start, so that the end is not too early.               *)
SleepInv == Asleep =>
  /\ start <= T!Now
  /\ torn => start < hi * HALF
  /\ ~torn /\ T!Loading => LoadIsWhole
  /\ ~torn /\ sleeper \notin {"end1", "end2"} => start + need <= end

TimerInv == TimerTyped /\ SleepInv

(* Whole turns of the low half.                                            *)
LEMMA HiTimes ==
  ASSUME HALF \in Nat \ {0}, NEW h \in Nat
  PROVE  h * HALF \in Nat /\ (h + 1) * HALF = h * HALF + HALF
OBVIOUS

(* A tick goes on to the next number, through the carry.                   *)
LEMMA TickCounts ==
  ASSUME HALF \in Nat \ {0}, TimerTyped, T!timer_irq_handler
  PROVE  /\ lo' \in 0 .. HALF - 1 /\ hi' \in Nat
         /\ T!Now <= T!Now' /\ hi * HALF <= hi' * HALF
         /\ T!Now \in Nat /\ T!Now' \in Nat /\ hi * HALF \in Nat /\ hi' * HALF \in Nat
         /\ hi' = hi => lo <= lo'
         /\ hi' # hi => hi' * HALF = hi * HALF + HALF
<1>1. lo \in 0 .. HALF - 1 /\ hi \in Nat /\ HALF \in Nat \ {0}
  BY DEF TimerTyped
<1>2. hi * HALF \in Nat /\ (hi + 1) * HALF = hi * HALF + HALF
  BY <1>1, HiTimes
<1>3. T!Now = hi * HALF + lo /\ T!Now' = hi' * HALF + lo'
  BY DEF T!Now
<1>4. CASE UNCHANGED <<lo, hi>>
  BY <1>1, <1>2, <1>3, <1>4
<1>5. CASE lo' = (lo + 1) % HALF /\ hi' = T!HiNext
  <2>1. CASE lo = HALF - 1
    <3>1. lo' = 0
      BY <1>1, <1>5, <2>1
    <3>2. hi' = hi + 1
      BY <1>5, <2>1 DEF T!HiNext
    <3>3. hi' * HALF = hi * HALF + HALF
      BY <1>2, <3>2
    <3> QED BY <1>1, <1>2, <1>3, <2>1, <3>1, <3>2, <3>3
  <2>2. CASE lo # HALF - 1
    <3>1. lo' = lo + 1
      BY <1>1, <1>5, <2>2
    <3>2. hi' = hi
      BY <1>5, <2>2 DEF T!HiNext
    <3> QED BY <1>1, <1>2, <1>3, <2>2, <3>1, <3>2
  <2> QED BY <2>1, <2>2
<1> QED BY <1>4, <1>5 DEF T!timer_irq_handler

(* A tick keeps the invariant, wherever the sleeper is.                    *)
LEMMA TickKeeps ==
  ASSUME HALF \in Nat \ {0}, TimerInv, T!timer_irq_handler
  PROVE  TimerInv'
<1>1. /\ lo' \in 0 .. HALF - 1 /\ hi' \in Nat
      /\ T!Now <= T!Now' /\ hi * HALF <= hi' * HALF /\ T!Now \in Nat /\ T!Now' \in Nat /\ hi * HALF \in Nat /\ hi' * HALF \in Nat
      /\ hi' = hi => lo <= lo'
      /\ hi' # hi => hi' * HALF = hi * HALF + HALF
  BY TickCounts DEF TimerInv
<1>2. /\ sleeper' = IF sleeper = "hlt" THEN "cmp1" ELSE sleeper
      /\ torn' = (torn \/ (T!Loading /\ hi' # hi))
      /\ UNCHANGED <<loaded, end, need, asked, start>>
  BY DEF T!timer_irq_handler, T!Interrupt
<1>3. TimerTyped /\ SleepInv
  BY DEF TimerInv
<1>4. TimerTyped'
  BY <1>1, <1>2, <1>3 DEF TimerTyped
<1>5. T!Now = hi * HALF + lo /\ T!Now' = hi' * HALF + lo'
  BY DEF T!Now
<1>6. ASSUME Asleep' PROVE SleepInv'
  <2>1. Asleep /\ T!Loading' = T!Loading
    BY <1>2, <1>6 DEF Asleep, T!Loading
  <2>0. /\ start <= T!Now /\ (torn => start < hi * HALF)
        /\ start \in Nat /\ start' = start
    BY <1>2, <1>3, <2>1 DEF SleepInv, TimerTyped
  <2>2. start' <= T!Now'
    BY <1>1, <2>0
  <2>3. torn' => start' < hi' * HALF
    <3>1. PICK m \in Nat : m = hi * HALF
      BY <1>1
    <3>2. PICK n \in Nat : n = hi' * HALF
      BY <1>1
    <3>3. m <= n /\ (hi' # hi => n = m + HALF)
      BY <1>1, <3>1, <3>2
    <3>4. start \in Nat /\ start' = start /\ start <= m + lo /\ (torn => start < m)
      BY <1>5, <2>0, <3>1
    <3>5. lo \in Nat /\ lo < HALF
      BY <1>3 DEF TimerTyped
    <3>6. torn' => torn \/ hi' # hi
      BY <1>2
    <3>7. torn' => start < n
      BY <3>3, <3>4, <3>5, <3>6
    <3> QED BY <3>2, <3>4, <3>7
  <2>4. ASSUME ~torn', T!Loading' PROVE LoadIsWhole'
    <3>1. ~torn /\ T!Loading /\ hi' = hi
      BY <1>2, <2>1, <2>4
    <3>2. LoadIsWhole /\ lo <= lo'
      BY <1>1, <1>3, <2>1, <3>1 DEF SleepInv
    <3> QED BY <1>1, <1>2, <1>3, <3>1, <3>2 DEF LoadIsWhole, TimerTyped
  <2>5. ~torn' /\ sleeper' \notin {"end1", "end2"} => start' + need' <= end'
    BY <1>2, <1>3, <2>1 DEF SleepInv
  <2> QED BY <2>2, <2>3, <2>4, <2>5 DEF SleepInv
<1> QED BY <1>4, <1>6 DEF TimerInv, SleepInv

(* A load's first half is whole when it is made.                           *)
LEMMA LoadBegins ==
  ASSUME HALF \in Nat \ {0}, TimerInv, NEW from, NEW to, T!LoadFirst(from, to),
         <<from, to>> \in {<<"end1", "end2">>, <<"cmp1", "cmp2">>}
  PROVE  TimerInv'
<1>1. /\ sleeper = from /\ sleeper' = to /\ UNCHANGED <<lo, hi, end, need, asked, start, torn>>
      /\ loaded' \in {<<"lo", lo>>, <<"hi", hi>>}
  BY DEF T!LoadFirst, T!Step
<1>2. TimerTyped /\ SleepInv /\ Asleep
  BY <1>1 DEF TimerInv, Asleep
<1>3. TimerTyped'
  BY <1>1, <1>2 DEF TimerTyped
<1>4. T!Now' = T!Now /\ start' = start /\ start <= T!Now /\ (torn' => start' < hi' * HALF)
  BY <1>1, <1>2 DEF T!Now, SleepInv
<1>5. LoadIsWhole'
  BY <1>1, <1>2, <1>4 DEF LoadIsWhole, TimerTyped, T!Now
<1>6. ~torn' /\ sleeper' \notin {"end1", "end2"} => start' + need' <= end'
  BY <1>1, <1>2 DEF SleepInv
<1>7. SleepInv'
  BY <1>4, <1>5, <1>6 DEF SleepInv
<1> QED BY <1>3, <1>7 DEF TimerInv

(* What a load makes that no carry tore: not less than the count was at    *)
(* the start of the sleep, not more than it is now.                        *)
LEMMA WholeLoad ==
  ASSUME HALF \in Nat \ {0}, TimerTyped, SleepInv, Asleep, ~torn, T!Loading
  PROVE  start <= T!Loaded /\ T!Loaded <= T!Now
<1>1. LoadIsWhole /\ start <= T!Now
  BY DEF SleepInv
<1>2. loaded[1] \in {"lo", "hi"} /\ loaded[2] \in Nat /\ lo \in Nat /\ start \in Nat
  BY DEF TimerTyped
<1>3. PICK m \in Nat : m = hi * HALF
  BY HiTimes DEF TimerTyped
<1>4. T!Now = m + lo
  BY <1>3 DEF T!Now
<1>5. CASE loaded[1] = "lo"
  <2>1. T!Loaded = m + loaded[2]
    BY <1>3, <1>5 DEF T!Loaded
  <2>2. loaded[2] <= lo /\ start <= m + loaded[2]
    BY <1>1, <1>3, <1>5 DEF LoadIsWhole
  <2> QED BY <1>2, <1>4, <2>1, <2>2
<1>6. CASE loaded[1] = "hi"
  <2>1. T!Loaded = m + lo
    BY <1>1, <1>3, <1>6 DEF T!Loaded, LoadIsWhole
  <2> QED BY <1>1, <1>2, <1>3, <1>4, <2>1
<1> QED BY <1>2, <1>5, <1>6

(* Whatever is loaded is a number of ticks.                                *)
LEMMA LoadedIsNat ==
  ASSUME HALF \in Nat \ {0}, TimerTyped
  PROVE  T!Loaded \in Nat
<1>1. hi * HALF \in Nat /\ loaded[2] * HALF \in Nat /\ lo \in Nat /\ loaded[2] \in Nat
  BY HiTimes DEF TimerTyped
<1> QED BY <1>1 DEF T!Loaded

(* The end that is computed is as far off as the ticks that are needed.    *)
LEMMA EndComputed ==
  ASSUME HALF \in Nat \ {0}, TimerInv, T!ComputeEnd
  PROVE  TimerInv'
<1>1. /\ sleeper = "end2" /\ sleeper' = "cmp1" /\ end' = T!Loaded + need
      /\ UNCHANGED <<lo, hi, loaded, need, asked, start, torn>>
  BY DEF T!ComputeEnd, T!Step
<1>2. TimerTyped /\ SleepInv /\ Asleep /\ T!Loading /\ ~T!Loading'
  BY <1>1 DEF TimerInv, Asleep, T!Loading
<1>3. T!Loaded \in Nat /\ need \in Nat /\ start \in Nat
  BY <1>2, LoadedIsNat DEF TimerTyped
<1>4. TimerTyped'
  BY <1>1, <1>2, <1>3 DEF TimerTyped
<1>5. T!Now' = T!Now /\ start' = start /\ start <= T!Now /\ (torn' => start' < hi' * HALF)
  BY <1>1, <1>2 DEF T!Now, SleepInv
<1>6. ~torn' => start' + need' <= end'
  <2>1. CASE ~torn
    <3>1. start <= T!Loaded
      BY <1>2, <2>1, WholeLoad
    <3> QED BY <1>1, <1>3, <3>1
  <2> QED BY <1>1, <2>1
<1>7. SleepInv'
  BY <1>2, <1>5, <1>6 DEF SleepInv
<1> QED BY <1>4, <1>7 DEF TimerInv

(* The interrupt of boot/idt.c wakes the sleeper, and moves nothing else.  *)
LEMMA WakeKeeps ==
  ASSUME TimerInv, T!irq0_handler
  PROVE  TimerInv'
<1>1. /\ sleeper' = IF sleeper = "hlt" THEN "cmp1" ELSE sleeper
      /\ UNCHANGED <<lo, hi, loaded, end, need, asked, start, torn>>
  BY DEF T!irq0_handler, T!Interrupt
<1>2. TimerTyped'
  BY <1>1 DEF TimerInv, TimerTyped
<1>3. SleepInv'
  BY <1>1 DEF TimerInv, SleepInv, Asleep, T!Now, T!Loading, LoadIsWhole
<1> QED BY <1>2, <1>3 DEF TimerInv

(* The steps that load nothing.                                            *)
LEMMA OtherStepKeeps ==
  ASSUME TimerInv, T!Compare \/ T!Halt
  PROVE  TimerInv'
<1>1. /\ sleeper \in {"cmp2", "halt"} /\ sleeper' \in {"idle", "halt", "hlt"}
      /\ UNCHANGED <<lo, hi, loaded, end, need, asked, start, torn>>
  BY DEF T!Compare, T!Halt, T!Step
<1>2. TimerTyped /\ SleepInv /\ Asleep /\ ~T!Loading'
  BY <1>1 DEF TimerInv, Asleep, T!Loading
<1>3. TimerTyped'
  BY <1>1, <1>2 DEF TimerTyped
<1>4. SleepInv'
  BY <1>1, <1>2 DEF SleepInv, T!Now
<1> QED BY <1>3, <1>4 DEF TimerInv

(* A call of timer_sleep starts in the invariant.                          *)
LEMMA SleepStarts ==
  ASSUME T!TimerAssumption, TimerInv, NEW ms \in Ms, T!timer_sleep(ms)
  PROVE  TimerInv'
<1>1. /\ sleeper' = "end1" /\ start' = T!Now /\ torn' = FALSE
      /\ need' = T!TicksFor(ms) /\ asked' = T!TicksIn(ms)
      /\ UNCHANGED <<lo, hi, loaded, end>>
  BY DEF T!timer_sleep, T!Step
<1>2. T!TicksFor(ms) \in Nat /\ T!TicksIn(ms) \in Nat
  <2>1. ms * HZ \in Nat /\ WIDTH \in Nat \ {0}
    BY DEF T!TimerAssumption
  <2>2. (ms * HZ) % WIDTH \in Nat
    BY <2>1
  <2> QED BY <2>1, <2>2 DEF T!TicksFor, T!TicksIn
<1>3. T!Now \in Nat /\ T!Now' = T!Now
  <2>1. hi * HALF \in Nat /\ lo \in Nat
    BY HiTimes DEF TimerInv, TimerTyped, T!TimerAssumption
  <2> QED BY <1>1, <2>1 DEF T!Now
<1>4. TimerTyped'
  BY <1>1, <1>2, <1>3 DEF TimerInv, TimerTyped
<1>5. SleepInv'
  BY <1>1, <1>3 DEF SleepInv, T!Loading
<1> QED BY <1>4, <1>5 DEF TimerInv

(* The timer starts in the invariant, and every step keeps it.             *)
LEMMA TimerInit ==
  ASSUME T!TimerAssumption, T!Init
  PROVE  TimerInv
<1>1. /\ lo = 0 /\ hi = 0 /\ sleeper = "idle" /\ end = 0 /\ need = 0 /\ asked = 0 /\ start = 0
      /\ torn = FALSE
  BY DEF T!Init
<1>2. lo \in 0 .. HALF - 1
  BY <1>1 DEF T!TimerAssumption
<1>3. loaded \in {"lo", "hi"} \X Nat
  BY DEF T!Init
<1> QED BY <1>1, <1>2, <1>3 DEF TimerInv, TimerTyped, SleepInv, Asleep

LEMMA TimerStep ==
  ASSUME T!TimerAssumption, TimerInv, [T!Next]_(T!vars)
  PROVE  TimerInv'
<1>0. HALF \in Nat \ {0}
  BY DEF T!TimerAssumption
<1>1. CASE T!timer_irq_handler
  BY <1>0, <1>1, TickKeeps
<1>8. CASE T!irq0_handler
  BY <1>8, WakeKeeps
<1>2. CASE T!LoadFirst("end1", "end2")
  BY <1>0, <1>2, LoadBegins
<1>3. CASE T!LoadFirst("cmp1", "cmp2")
  BY <1>0, <1>3, LoadBegins
<1>4. CASE T!ComputeEnd
  BY <1>0, <1>4, EndComputed
<1>5. CASE T!Compare \/ T!Halt
  BY <1>5, OtherStepKeeps
<1>6. ASSUME NEW ms \in Ms, T!timer_sleep(ms) PROVE TimerInv'
  BY <1>6, SleepStarts
<1>7. CASE UNCHANGED T!vars
  BY <1>7 DEF T!vars, TimerInv, TimerTyped, SleepInv, Asleep, T!Now, T!Loading, LoadIsWhole
<1> QED BY <1>1, <1>2, <1>3, <1>4, <1>5, <1>6, <1>7, <1>8 DEF T!Next, T!Sleeper

(* A sleeper that finds its end reached has slept for the ticks it         *)
(* computed, unless its load was torn by a carry, which came after the     *)
(* sleep began.                                                            *)
LEMMA DueIsLate ==
  ASSUME T!TimerAssumption, TimerInv, [T!Next]_(T!vars),
         sleeper = "cmp2", sleeper' = "idle", T!Now < start + need
  PROVE  torn /\ hi > start \div HALF
<1>1. T!Due
  BY DEF T!Next, T!Sleeper, T!timer_irq_handler, T!irq0_handler, T!Interrupt, T!LoadFirst, T!ComputeEnd, T!Compare, T!Halt,
         T!timer_sleep, T!Step, T!vars
<1>2. HALF \in Nat \ {0} /\ TimerTyped /\ SleepInv /\ Asleep /\ T!Loading
  BY DEF T!TimerAssumption, TimerInv, Asleep, T!Loading
<1>3. T!Loaded \in Nat /\ end \in Nat /\ need \in Nat /\ start \in Nat /\ hi \in Nat
  BY <1>2, LoadedIsNat DEF TimerTyped
<1>4. torn
  <2> SUFFICES ASSUME ~torn PROVE FALSE
    OBVIOUS
  <2>1. T!Loaded <= T!Now /\ start + need <= end
    BY <1>2, WholeLoad DEF SleepInv
  <2>2. end <= T!Loaded
    BY <1>1, <1>3 DEF T!Due
  <2>3. T!Now \in Nat
    BY <1>2, HiTimes DEF T!Now, TimerTyped
  <2> QED BY <1>3, <2>1, <2>2, <2>3
<1>5. start < hi * HALF
  BY <1>2, <1>4 DEF SleepInv
<1>6. hi > start \div HALF
  <2>1. PICK q \in Nat : q = start \div HALF
    BY <1>2, <1>3
  <2>2. q * HALF <= start
    BY <1>2, <1>3, <2>1
  <2>3. q * HALF < hi * HALF
    <3>1. q * HALF \in Nat /\ hi * HALF \in Nat
      BY <1>2, <1>3, <2>1, HiTimes
    <3> QED BY <1>3, <1>5, <2>2, <3>1
  <2>4. q < hi
    <3> SUFFICES ASSUME hi <= q PROVE FALSE
      BY <1>3, <2>1
    <3>1. hi * HALF <= q * HALF
      BY <1>2, <1>3, <2>1
    <3> QED BY <1>2, <1>3, <2>1, <2>3, <3>1, HiTimes
  <2> QED BY <1>3, <2>1, <2>4
<1> QED BY <1>4, <1>6

(* What it computed is what it was asked for, or the product ran over; the *)
(* wrapped product is never the larger of the two.                         *)
LEMMA SleptForAsked ==
  ASSUME T!TimerAssumption, TimerInv, [T!Next]_(T!vars),
         sleeper = "cmp2", sleeper' = "idle"
  PROVE  \/ T!Now >= start + asked
         \/ torn /\ hi > start \div HALF
         \/ need < asked /\ T!Now >= start + need
<1>1. need \in Nat /\ asked \in Nat /\ start \in Nat
  BY DEF TimerInv, TimerTyped
<1>2. T!Now \in Nat
  BY HiTimes DEF T!Now, TimerInv, TimerTyped, T!TimerAssumption
<1>3. CASE T!Now < start + need
  BY <1>3, DueIsLate
<1>4. CASE T!Now >= start + need /\ need >= asked
  BY <1>1, <1>2, <1>4
<1>5. CASE T!Now >= start + need /\ need < asked
  BY <1>5
<1> QED BY <1>1, <1>2, <1>3, <1>4, <1>5

(* A sleep returns only when as many ticks have passed as are in the       *)
(* milliseconds it was asked for, wherever the interrupts fall between the *)
(* loads of the two halves of the counter, and for every width of them and *)
(* of the product, but for two reasons: a carry of the low half has torn   *)
(* its load, or the product ran over and was what it slept for.            *)
THEOREM SleepsAreLong == T!Spec => SleepLongEnough
<1> DEFINE Long == sleeper = "cmp2" /\ sleeper' = "idle" =>
                     \/ T!Now >= start + asked
                     \/ torn /\ hi > start \div HALF
                     \/ need < asked /\ T!Now >= start + need
<1>1. T!Init => TimerInv
  BY TimerInit, LiveAssumption
<1>2. TimerInv /\ [T!Next]_(T!vars) => TimerInv'
  BY TimerStep, LiveAssumption
<1>3. TimerInv /\ [T!Next]_(T!vars) => [Long]_(T!vars)
  BY SleptForAsked, LiveAssumption
<1> QED BY <1>1, <1>2, <1>3, PTL DEF T!Spec, SleepLongEnough, T!SleepLongEnough

-----------------------------------------------------------------------------
(* The animations of animation.c.                                          *)

Easings == {"linear"} \cup {k.easing : k \in Kinds}

AnimRecord == [active : BOOLEAN, duration : Nat, elapsed : Nat,
               easing : Easings, current : Nat, on_complete : BOOLEAN, userdata : Nat]

(* The slots whose value is on the way between start and end.              *)
Anims == {a \in AnimRecord : a.current <= A!ONE(a.duration)}

AnimTyped == /\ anims \in [A!Slot -> Anims]
             /\ phase \in {"idle", "loop", "update", "complete"}
             /\ at \in Nat /\ (phase \in {"update", "complete"} => at \in A!Slot)
             /\ phase # "idle" => delta \in Deltas
             /\ started \in Nat
             /\ ended \subseteq 1 .. started

(* The time of an animation that runs is not up, and its number is its     *)
(* own.                                                                    *)
Running(a) == /\ a.userdata # 0
              /\ a.elapsed <= a.duration
              /\ \A d \in Deltas : a.duration + d < WIDTH

AnimsRun == \A i \in A!Slot : anims[i].active => Running(anims[i])

NumbersDiffer == \A i \in A!Slot :
  /\ anims[i].userdata <= started
  /\ \A j \in A!Slot \ {i} : anims[i].userdata # 0 => anims[j].userdata # anims[i].userdata

(* Who has ended stands still at its end.                                  *)
EndedStand == \A i \in A!Slot :
  anims[i].userdata \in ended => ~anims[i].active /\ anims[i].current = A!ONE(anims[i].duration)

(* After a step an inactive slot has ended, or has been stopped.           *)
StoppedIsKnown == phase = "update" /\ ~anims[at].active /\ anims[at].on_complete
                    => anims[at].userdata \in ended \cup halted

(* Every end but that of this very step is accounted for; this one will be *)
(* reported if it is still in its slot.                                    *)
Accounted(e) == \/ e \in reported \cup replaced
                \/ /\ phase = "update" /\ e = step
                   /\ anims[at].userdata = step
                   /\ ~anims[at].active /\ anims[at].on_complete

AnimInv == /\ AnimTyped /\ AnimsRun /\ NumbersDiffer /\ EndedStand /\ StoppedIsKnown
           /\ reported \subseteq ended \cup halted
           /\ \A e \in ended : Accounted(e)

(* Squares are ordered as the numbers are, on both sides of zero.          *)
LEMMA SquareBound ==
  ASSUME NEW n \in Int, NEW m \in Nat, -m <= n, n <= m
  PROVE  A!Sq(n) \in Nat /\ A!Sq(n) <= A!Sq(m)
<1>1. CASE n >= 0
  <2>1. n * n <= n * m /\ n * m <= m * m /\ n * n >= 0
    BY <1>1
  <2> QED BY <2>1 DEF A!Sq
<1>2. CASE n < 0
  <2> DEFINE k == -n
  <2>1. k \in Nat /\ k <= m /\ n * n = k * k
    BY <1>2
  <2> HIDE DEF k
  <2>2. k * k <= k * m /\ k * m <= m * m /\ k * k >= 0
    BY <2>1
  <2> QED BY <2>1, <2>2 DEF A!Sq
<1> QED BY <1>1, <1>2

(* The square of a multiple.                                               *)
LEMMA SquareTimes ==
  ASSUME NEW d \in Nat
  PROVE  /\ A!Sq(d) \in Nat
         /\ A!Sq(2 * d) = 4 * A!Sq(d)
         /\ A!Sq(4 * d) = 16 * A!Sq(d)
         /\ A!Sq(8 * d) = 64 * A!Sq(d)
BY DEF A!Sq

(* The bounce keeps to the way and ends at its end.                        *)
LEMMA BounceBounds ==
  ASSUME NEW d \in Nat, NEW e \in 0 .. d
  PROVE  /\ A!Bounce(e, d) \in Nat /\ A!Bounce(e, d) <= A!ONE(d)
         /\ e = d => A!Bounce(e, d) = A!ONE(d)
<1>1. PICK n \in Nat : n = 22 * e
  OBVIOUS
<1>2. PICK q \in Nat : q = A!Sq(d)
  BY SquareTimes
<1>3. A!ONE(d) = 64 * q
  BY <1>2 DEF A!ONE
<1>4. n <= 22 * d /\ (e = d => n = 22 * d)
  BY <1>1
<1>5. CASE n < 8 * d
  <2>1. A!Bounce(e, d) = A!Sq(n) /\ e # d
    BY <1>1, <1>4, <1>5 DEF A!Bounce
  <2>2. A!Sq(n) \in Nat /\ A!Sq(n) <= A!Sq(8 * d)
    BY <1>5, SquareBound
  <2>3. A!Sq(8 * d) = 64 * q
    BY <1>2, SquareTimes
  <2> QED BY <1>3, <2>1, <2>2, <2>3
<1>6. CASE 8 * d <= n /\ n < 16 * d
  <2>1. PICK x \in Int : x = n - 12 * d
    OBVIOUS
  <2>2. A!Bounce(e, d) = A!Sq(x) + 48 * q /\ e # d
    BY <1>1, <1>2, <1>4, <1>6, <2>1 DEF A!Bounce
  <2>3. A!Sq(x) \in Nat /\ A!Sq(x) <= A!Sq(4 * d)
    BY <1>6, <2>1, SquareBound
  <2>4. A!Sq(4 * d) = 16 * q
    BY <1>2, SquareTimes
  <2> QED BY <1>3, <2>2, <2>3, <2>4
<1>7. CASE 16 * d <= n /\ n < 20 * d
  <2>1. PICK x \in Int : x = n - 18 * d
    OBVIOUS
  <2>2. A!Bounce(e, d) = A!Sq(x) + 60 * q /\ e # d
    BY <1>1, <1>2, <1>4, <1>7, <2>1 DEF A!Bounce
  <2>3. A!Sq(x) \in Nat /\ A!Sq(x) <= A!Sq(2 * d)
    BY <1>7, <2>1, SquareBound
  <2>4. A!Sq(2 * d) = 4 * q
    BY <1>2, SquareTimes
  <2> QED BY <1>3, <2>2, <2>3, <2>4
<1>8. CASE n >= 20 * d /\ ~(n < 8 * d) /\ ~(8 * d <= n /\ n < 16 * d)
  <2>1. PICK x \in Int : x = n - 21 * d
    OBVIOUS
  <2>2. A!Bounce(e, d) = A!Sq(x) + 63 * q
    BY <1>1, <1>2, <1>4, <1>8, <2>1 DEF A!Bounce
  <2>3. A!Sq(x) \in Nat /\ A!Sq(x) <= A!Sq(d)
    BY <1>4, <1>8, <2>1, SquareBound
  <2>4. e = d => x = d
    BY <1>4, <2>1
  <2> QED BY <1>2, <1>3, <2>2, <2>3, <2>4
<1> QED BY <1>5, <1>6, <1>7, <1>8

(* The easings keep to the way and end at its end, for every duration.     *)
LEMMA EaseBounds ==
  ASSUME NEW d \in Nat, NEW t \in 0 .. d, NEW easing
  PROVE  /\ A!anim_ease(t, d, easing) \in 0 .. A!ONE(d)
         /\ t = d => A!anim_ease(t, d, easing) = A!ONE(d)
<1>1. PICK q \in Nat : q = A!Sq(d)
  BY SquareTimes
<1>2. A!ONE(d) = 64 * q
  BY <1>1 DEF A!ONE
<1>3. PICK near \in Nat : near = A!Sq(t)
  BY SquareBound
<1>4. PICK far \in Nat : far = A!Sq(d - t)
  BY SquareBound
<1>5. near <= q /\ far <= q
  BY <1>1, <1>3, <1>4, SquareBound
<1>6. t = d => near = q /\ far = 0
  BY <1>1, <1>3, <1>4 DEF A!Sq
<1>7. 2 * t < d => 4 * near <= q /\ t # d
  <2> SUFFICES ASSUME 2 * t < d PROVE 4 * near <= q
    OBVIOUS
  <2>1. A!Sq(2 * t) <= A!Sq(d)
    BY SquareBound
  <2> QED BY <1>1, <1>3, <2>1, SquareTimes
<1>8. 2 * t >= d => 4 * far <= q
  <2> SUFFICES ASSUME 2 * t >= d PROVE 4 * far <= q
    OBVIOUS
  <2>1. A!Sq(2 * (d - t)) <= A!Sq(d)
    BY SquareBound
  <2>2. A!Sq(2 * (d - t)) = 4 * A!Sq(d - t)
    BY SquareTimes
  <2> QED BY <1>1, <1>4, <2>1, <2>2
<1> DEFINE e == A!anim_ease(t, d, easing)
<1>9. /\ easing = "in" => e = 64 * near
      /\ easing = "out" => e = 64 * q - 64 * far
      /\ easing = "in_out" /\ 2 * t < d => e = 128 * near
      /\ easing = "in_out" /\ 2 * t >= d => e = 64 * q - 128 * far
      /\ easing = "bounce" => e = A!Bounce(t, d)
      /\ easing \notin {"in", "out", "in_out", "bounce"} => e = 64 * (t * d)
  BY <1>2, <1>3, <1>4 DEF A!anim_ease
<1>10. PICK b \in Nat : b = A!Bounce(t, d) /\ b <= 64 * q /\ (t = d => b = 64 * q)
  BY <1>2, BounceBounds
<1>11. PICK m \in Nat : m = t * d /\ m <= q /\ (t = d => m = q)
  <2>1. t * d \in Nat /\ t * d <= d * d
    OBVIOUS
  <2> QED BY <1>1, <2>1 DEF A!Sq
<1> HIDE DEF e
<1>12. e \in 0 .. 64 * q /\ (t = d => e = 64 * q)
  <2>1. CASE easing = "in"
    BY <1>5, <1>6, <1>9, <2>1
  <2>2. CASE easing = "out"
    BY <1>5, <1>6, <1>9, <2>2
  <2>3. CASE easing = "in_out" /\ 2 * t < d
    BY <1>7, <1>9, <2>3
  <2>4. CASE easing = "in_out" /\ 2 * t >= d
    BY <1>6, <1>8, <1>9, <2>4
  <2>5. CASE easing = "bounce"
    BY <1>9, <1>10, <2>5
  <2>6. CASE easing \notin {"in", "out", "in_out", "bounce"}
    BY <1>9, <1>11, <2>6
  <2> QED BY <2>1, <2>2, <2>3, <2>4, <2>5, <2>6
<1> QED BY <1>2, <1>12 DEF e

-----------------------------------------------------------------------------
(* The table starts in the invariant.                                      *)
LEMMA AnimInit ==
  ASSUME A!Init
  PROVE  AnimInv
<1>1. /\ anims = [i \in A!Slot |-> A!Unused] /\ phase = "idle" /\ at = ANIM_MAX
      /\ started = 0 /\ ended = {} /\ reported = {}
  BY DEF A!Init, A!anim_init
<1>2. A!Unused \in Anims /\ A!Unused.userdata = 0 /\ ~A!Unused.active
  BY DEF A!Unused, Anims, AnimRecord, Easings, A!ONE, A!Sq
<1>3. ANIM_MAX \in Nat
  BY LiveAssumption DEF A!AnimationAssumption
<1>4. AnimTyped
  BY <1>1, <1>2, <1>3 DEF AnimTyped
<1>5. AnimsRun /\ NumbersDiffer /\ EndedStand /\ StoppedIsKnown
  BY <1>1, <1>2 DEF AnimsRun, NumbersDiffer, EndedStand, StoppedIsKnown
<1> QED BY <1>1, <1>4, <1>5 DEF AnimInv

(* A start, also one in the slot whose step is being taken.                *)
LEMMA StartKeeps ==
  ASSUME AnimInv, NEW kind \in Kinds, A!anim_start(kind)
  PROVE  AnimInv'
<1> DEFINE new == [active |-> TRUE, duration |-> kind.ms, elapsed |-> 0,
                   easing |-> kind.easing, current |-> 0, on_complete |-> kind.reports,
                   userdata |-> started + 1]
<1>1. PICK i \in A!Slot :
        /\ A!FirstInactive(i)
        /\ anims' = [anims EXCEPT ![i] = new]
        /\ replaced' = IF phase = "update" /\ i = at THEN replaced \cup {step} ELSE replaced
  BY DEF A!anim_start
<1>2. /\ started' = started + 1
      /\ UNCHANGED <<phase, at, delta, step, ended, halted, reported>>
  BY DEF A!anim_start
<1>3. /\ AnimTyped /\ AnimsRun /\ NumbersDiffer /\ EndedStand /\ StoppedIsKnown
      /\ reported \subseteq ended \cup halted
      /\ \A e \in ended : Accounted(e)
  BY DEF AnimInv
<1>4. /\ kind.ms \in Nat /\ kind.reports \in BOOLEAN
      /\ \A d \in Deltas : kind.ms + d < WIDTH
  BY LiveAssumption DEF A!AnimationAssumption
<1>5. /\ new \in Anims /\ new.active /\ new.userdata = started + 1
      /\ new.elapsed = 0 /\ new.duration = kind.ms
  <2>1. kind.easing \in Easings
    BY DEF Easings
  <2>2. kind.ms \in Nat /\ kind.reports \in BOOLEAN /\ started + 1 \in Nat
    BY <1>3, <1>4 DEF AnimTyped
  <2>3. 0 <= A!ONE(kind.ms)
    BY <2>2, SquareTimes DEF A!ONE
  <2>4. new \in Anims
    BY <2>1, <2>2, <2>3 DEF Anims, AnimRecord
  <2>5. QED BY <2>4
<1> HIDE DEF new
<1>6. /\ anims \in [A!Slot -> Anims] /\ started \in Nat /\ ended \subseteq 1 .. started
      /\ \A j \in A!Slot : anims[j].userdata \in Nat
  BY <1>3 DEF AnimTyped, Anims, AnimRecord
<1>7. anims'[i] = new /\ \A j \in A!Slot \ {i} : anims'[j] = anims[j]
  BY <1>1, <1>6
<1>8. AnimTyped'
  <2>1. anims' \in [A!Slot -> Anims]
    BY <1>1, <1>5, <1>6
  <2>2. started' \in Nat /\ ended' \subseteq 1 .. started'
    BY <1>2, <1>6
  <2> QED BY <1>2, <1>3, <2>1, <2>2 DEF AnimTyped
<1>9. AnimsRun'
  <2>1. Running(new)
    BY <1>4, <1>5, <1>6 DEF Running
  <2> QED BY <1>3, <1>7, <2>1 DEF AnimsRun
<1>10. NumbersDiffer'
  <2>1. \A j \in A!Slot : anims[j].userdata <= started
    BY <1>3 DEF NumbersDiffer
  <2>2. ASSUME NEW j \in A!Slot
        PROVE  /\ anims'[j].userdata <= started'
               /\ \A k \in A!Slot \ {j} :
                    anims'[j].userdata # 0 => anims'[k].userdata # anims'[j].userdata
    <3>1. CASE j = i
      BY <1>2, <1>5, <1>6, <1>7, <2>1, <3>1
    <3>2. CASE j # i
      <4>1. anims'[j] = anims[j] /\ anims[j].userdata <= started
        BY <1>7, <2>1, <3>2
      <4>2. ASSUME NEW k \in A!Slot \ {j}, anims[j].userdata # 0
            PROVE  anims'[k].userdata # anims[j].userdata
        <5>1. CASE k = i
          BY <1>5, <1>6, <1>7, <4>1, <5>1
        <5>2. CASE k # i
          BY <1>3, <1>7, <4>2, <5>2 DEF NumbersDiffer
        <5> QED BY <5>1, <5>2
      <4> QED BY <1>2, <1>6, <4>1, <4>2
    <3> QED BY <3>1, <3>2
  <2> QED BY <2>2 DEF NumbersDiffer
<1>11. EndedStand'
  <2>1. new.userdata \notin ended
    BY <1>5, <1>6
  <2> QED BY <1>2, <1>3, <1>7, <2>1 DEF EndedStand
<1>12. StoppedIsKnown'
  <2> SUFFICES ASSUME phase' = "update", ~anims'[at'].active, anims'[at'].on_complete
               PROVE  anims'[at'].userdata \in ended' \cup halted'
    BY DEF StoppedIsKnown
  <2>1. at \in A!Slot /\ at # i
    BY <1>2, <1>3, <1>5, <1>7 DEF AnimTyped
  <2> QED BY <1>2, <1>3, <1>7, <2>1 DEF StoppedIsKnown
<1>13. ASSUME NEW e \in ended' PROVE Accounted(e)'
  <2>1. Accounted(e)
    BY <1>2, <1>3
  <2>2. CASE e \in reported \cup replaced
    BY <1>1, <1>2, <2>2 DEF Accounted
  <2>3. CASE e \notin reported \cup replaced
    <3>1. /\ phase = "update" /\ e = step /\ anims[at].userdata = step
          /\ ~anims[at].active /\ anims[at].on_complete
      BY <2>1, <2>3 DEF Accounted
    <3>2. CASE at = i
      BY <1>1, <1>2, <3>1, <3>2 DEF Accounted
    <3>3. CASE at # i
      <4>1. anims'[at] = anims[at]
        BY <1>3, <1>7, <3>1, <3>3 DEF AnimTyped
      <4> QED BY <1>2, <3>1, <4>1 DEF Accounted
    <3> QED BY <3>2, <3>3
  <2> QED BY <2>2, <2>3
<1> QED BY <1>2, <1>3, <1>8, <1>9, <1>10, <1>11, <1>12, <1>13 DEF AnimInv

(* A stop, also of the slot whose step is being taken.                     *)
LEMMA StopKeeps ==
  ASSUME AnimInv, NEW id \in A!Slot, A!anim_stop(id)
  PROVE  AnimInv'
<1>1. /\ anims' = [anims EXCEPT ![id].active = FALSE]
      /\ halted' = IF phase = "update" /\ anims[id].active /\ id = at
                   THEN halted \cup {anims[id].userdata} ELSE halted
      /\ UNCHANGED <<phase, at, delta, step, started, ended, replaced, reported>>
  BY DEF A!anim_stop
<1>2. /\ AnimTyped /\ AnimsRun /\ NumbersDiffer /\ EndedStand /\ StoppedIsKnown
      /\ reported \subseteq ended \cup halted
      /\ \A e \in ended : Accounted(e)
  BY DEF AnimInv
<1>3. anims \in [A!Slot -> Anims]
  BY <1>2 DEF AnimTyped
<1>4. /\ anims'[id] = [anims[id] EXCEPT !.active = FALSE]
      /\ \A j \in A!Slot \ {id} : anims'[j] = anims[j]
  BY <1>1, <1>3
<1>5. /\ anims'[id] \in Anims /\ ~anims'[id].active
      /\ anims'[id].userdata = anims[id].userdata
      /\ anims'[id].current = anims[id].current
      /\ anims'[id].duration = anims[id].duration
      /\ anims'[id].on_complete = anims[id].on_complete
  <2>1. anims[id] \in Anims
    BY <1>3
  <2>2. PICK a \in Anims : a = anims[id]
    BY <2>1
  <2>3. LET b == [a EXCEPT !.active = FALSE]
        IN  b \in Anims /\ ~b.active /\ b.userdata = a.userdata
            /\ b.current = a.current /\ b.on_complete = a.on_complete
            /\ b.duration = a.duration
    BY DEF Anims, AnimRecord
  <2>4. anims'[id] = [a EXCEPT !.active = FALSE]
    BY <1>4, <2>2
  <2> QED BY <2>2, <2>3, <2>4
<1>6. AnimTyped'
  <2>1. anims' \in [A!Slot -> Anims]
    BY <1>1, <1>3, <1>5
  <2> QED BY <1>1, <1>2, <2>1 DEF AnimTyped
<1>7. AnimsRun'
  BY <1>2, <1>4, <1>5 DEF AnimsRun
<1>8. \A j \in A!Slot : anims'[j].userdata = anims[j].userdata
                        /\ anims'[j].current = anims[j].current
                        /\ anims'[j].duration = anims[j].duration
                        /\ anims'[j].on_complete = anims[j].on_complete
                        /\ (anims'[j].active => anims[j].active)
                        /\ (j # id => anims'[j].active = anims[j].active)
  BY <1>4, <1>5
<1>9. NumbersDiffer' /\ EndedStand'
  BY <1>1, <1>2, <1>8 DEF NumbersDiffer, EndedStand
<1>10. StoppedIsKnown'
  <2> SUFFICES ASSUME phase' = "update", ~anims'[at'].active, anims'[at'].on_complete
               PROVE  anims'[at'].userdata \in ended' \cup halted'
    BY DEF StoppedIsKnown
  <2>1. at \in A!Slot /\ phase = "update" /\ at' = at
    BY <1>1, <1>2 DEF AnimTyped
  <2>2. anims[at].on_complete /\ anims'[at].userdata = anims[at].userdata
    BY <1>8, <2>1
  <2>3. CASE anims[at].active
    <3>1. at = id
      BY <1>8, <2>1, <2>3
    <3> QED BY <1>1, <2>1, <2>2, <2>3, <3>1
  <2>4. CASE ~anims[at].active
    BY <1>1, <1>2, <2>1, <2>2, <2>4 DEF StoppedIsKnown
  <2> QED BY <2>3, <2>4
<1>11. ASSUME NEW e \in ended' PROVE Accounted(e)'
  <2>1. Accounted(e)
    BY <1>1, <1>2
  <2> QED BY <1>1, <1>2, <1>8, <2>1 DEF Accounted, AnimTyped
<1> QED BY <1>1, <1>2, <1>6, <1>7, <1>9, <1>10, <1>11 DEF AnimInv

(* What a step makes of a slot.                                            *)
LEMMA AdvancedIs ==
  ASSUME NEW a \in Anims, Running(a), delta \in Deltas
  PROVE  /\ A!Advanced(a) \in Anims
         /\ A!Advanced(a).active = ~A!Finished(a)
         /\ A!Advanced(a).userdata = a.userdata
         /\ A!Advanced(a).on_complete = a.on_complete
         /\ A!Advanced(a).duration = a.duration
         /\ A!Finished(a) => A!Advanced(a).current = A!ONE(a.duration)
         /\ ~A!Finished(a) => Running(A!Advanced(a))
<1>1. /\ a.elapsed \in Nat /\ a.duration \in Nat /\ a.elapsed <= a.duration /\ delta \in Nat
      /\ WIDTH \in Nat /\ a.duration + delta < WIDTH
  BY LiveAssumption DEF A!AnimationAssumption, T!TimerAssumption, Anims, AnimRecord, Running
<1> DEFINE s == a.elapsed + delta
<1>2. A!Elapsed(a) = s /\ s \in Nat
  <2>1. s \in Nat /\ s < WIDTH
    BY <1>1
  <2>2. A!Elapsed(a) = s % WIDTH
    BY DEF A!Elapsed
  <2> HIDE DEF s
  <2>3. s % WIDTH = s
    BY <1>1, <2>1
  <2> QED BY <2>1, <2>2, <2>3
<1>3. A!Finished(a) <=> s >= a.duration
  BY <1>2 DEF A!Finished
<1> HIDE DEF s
<1>4. A!Time(a) \in 0 .. a.duration /\ (A!Finished(a) => A!Time(a) = a.duration)
  BY <1>1, <1>2, <1>3 DEF A!Time
<1>5. /\ A!anim_ease(A!Time(a), a.duration, a.easing) \in 0 .. A!ONE(a.duration)
      /\ A!Finished(a) => A!anim_ease(A!Time(a), a.duration, a.easing) = A!ONE(a.duration)
  BY <1>1, <1>4, EaseBounds
<1> DEFINE eased == A!anim_ease(A!Time(a), a.duration, a.easing)
           b == A!Advanced(a)
           done == A!Finished(a)
<1>6. b = [a EXCEPT !.elapsed = s, !.active = ~done, !.current = eased]
  BY <1>2 DEF A!Advanced
<1>7. done \in BOOLEAN /\ eased \in Nat /\ eased <= A!ONE(a.duration)
  <2>1. A!ONE(a.duration) \in Nat
    BY <1>1, SquareTimes DEF A!ONE
  <2> QED BY <1>5, <2>1 DEF A!Finished
<1> HIDE DEF b, eased, done
<1>8. b \in Anims /\ b.active = ~done /\ b.userdata = a.userdata
      /\ b.on_complete = a.on_complete /\ b.current = eased /\ b.elapsed = s /\ b.duration = a.duration
  BY <1>2, <1>6, <1>7 DEF Anims, AnimRecord
<1>9. ~done => Running(b)
  BY <1>1, <1>2, <1>3, <1>8 DEF Running, done
<1> QED BY <1>5, <1>8, <1>9 DEF b, eased, done

(* A step, before on_update is called.                                     *)
LEMMA AdvanceKeeps ==
  ASSUME AnimInv, A!Advance
  PROVE  AnimInv'
<1> DEFINE a == anims[at]
           b == A!Advanced(a)
           done == A!Finished(a)
<1>1. /\ phase = "loop" /\ at < ANIM_MAX /\ a.active
      /\ anims' = [anims EXCEPT ![at] = b]
      /\ step' = a.userdata /\ phase' = "update"
      /\ ended' = IF done /\ a.on_complete THEN ended \cup {a.userdata} ELSE ended
      /\ UNCHANGED <<at, delta, started, halted, replaced, reported>>
  BY DEF A!Advance
<1>2. /\ AnimTyped /\ AnimsRun /\ NumbersDiffer /\ EndedStand
      /\ reported \subseteq ended \cup halted
      /\ \A e \in ended : Accounted(e)
  BY DEF AnimInv
<1>3. at \in A!Slot /\ anims \in [A!Slot -> Anims] /\ delta \in Deltas /\ started \in Nat
  BY <1>1, <1>2, LiveAssumption DEF AnimTyped, A!Slot, A!AnimationAssumption
<1>4. a \in Anims /\ Running(a)
  BY <1>1, <1>2, <1>3 DEF AnimsRun
<1>5. /\ b \in Anims /\ b.active = ~done /\ b.userdata = a.userdata
      /\ b.on_complete = a.on_complete
      /\ b.duration = a.duration
      /\ done => b.current = A!ONE(b.duration)
      /\ ~done => Running(b)
  BY <1>3, <1>4, AdvancedIs
<1>6. a.userdata \in 1 .. started /\ done \in BOOLEAN /\ a.on_complete \in BOOLEAN
  BY <1>2, <1>3, <1>4 DEF Running, NumbersDiffer, Anims, AnimRecord, A!Finished
<1> HIDE DEF b, done
<1>7. anims'[at] = b /\ \A j \in A!Slot \ {at} : anims'[j] = anims[j]
  BY <1>1, <1>3
<1>8. AnimTyped'
  <2>1. anims' \in [A!Slot -> Anims]
    BY <1>1, <1>3, <1>5
  <2>2. ended' \subseteq 1 .. started'
    BY <1>1, <1>2, <1>6 DEF AnimTyped
  <2> QED BY <1>1, <1>2, <1>3, <2>1, <2>2 DEF AnimTyped
<1>9. AnimsRun'
  BY <1>2, <1>5, <1>7 DEF AnimsRun
<1>10. \A j \in A!Slot : anims'[j].userdata = anims[j].userdata
  BY <1>5, <1>7
<1>11. NumbersDiffer'
  BY <1>1, <1>2, <1>10 DEF NumbersDiffer
<1>12. EndedStand'
  <2>1. ASSUME NEW j \in A!Slot, anims'[j].userdata \in ended'
        PROVE  ~anims'[j].active /\ anims'[j].current = A!ONE(anims'[j].duration)
    <3>1. CASE j = at
      <4>1. a.userdata \notin ended
        BY <1>1, <1>2, <1>3 DEF EndedStand
      <4>2. done
        BY <1>1, <1>10, <2>1, <3>1, <4>1
      <4> QED BY <1>5, <1>7, <3>1, <4>2
    <3>2. CASE j # at
      <4>1. anims'[j] = anims[j] /\ anims[j].userdata # a.userdata
        BY <1>2, <1>3, <1>6, <1>7, <3>2 DEF NumbersDiffer
      <4>2. anims[j].userdata \in ended
        BY <1>1, <2>1, <4>1
      <4> QED BY <1>2, <4>1, <4>2 DEF EndedStand
    <3> QED BY <3>1, <3>2
  <2> QED BY <2>1 DEF EndedStand
<1>13. StoppedIsKnown'
  BY <1>1, <1>5, <1>6, <1>7 DEF StoppedIsKnown
<1>14. ASSUME NEW e \in ended' PROVE Accounted(e)'
  <2>1. CASE e \in ended
    BY <1>1, <1>2, <2>1 DEF Accounted
  <2>2. CASE e \notin ended
    <3>1. done /\ a.on_complete /\ e = a.userdata
      BY <1>1, <1>14, <2>2
    <3> QED BY <1>1, <1>5, <1>7, <3>1 DEF Accounted
  <2> QED BY <2>1, <2>2
<1>15. reported' \subseteq ended' \cup halted'
  BY <1>1, <1>2
<1> QED BY <1>8, <1>9, <1>11, <1>12, <1>13, <1>14, <1>15 DEF AnimInv

(* on_update returns, and on_complete is called or not.                    *)
LEMMA ReturnKeeps ==
  ASSUME AnimInv, A!UpdateReturns
  PROVE  AnimInv'
<1> DEFINE a == anims[at]
<1>1. /\ phase = "update"
      /\ UNCHANGED <<anims, delta, step, started, ended, halted, replaced>>
      /\ IF A!Reports(a)
           THEN phase' = "complete" /\ reported' = reported \cup {a.userdata} /\ at' = at
           ELSE phase' = "loop" /\ at' = at + 1 /\ reported' = reported
  BY DEF A!UpdateReturns, A!NextSlot
<1>2. /\ AnimTyped /\ AnimsRun /\ NumbersDiffer /\ EndedStand /\ StoppedIsKnown
      /\ reported \subseteq ended \cup halted
      /\ \A e \in ended : Accounted(e)
  BY DEF AnimInv
<1>3. AnimTyped'
  BY <1>1, <1>2 DEF AnimTyped
<1>4. AnimsRun' /\ NumbersDiffer' /\ EndedStand' /\ StoppedIsKnown'
  BY <1>1, <1>2 DEF AnimsRun, NumbersDiffer, EndedStand, StoppedIsKnown
<1>5. reported' \subseteq ended' \cup halted'
  <2>1. A!Reports(a) => a.userdata \in ended \cup halted
    BY <1>1, <1>2 DEF A!Reports, StoppedIsKnown
  <2> QED BY <1>1, <1>2, <2>1
<1>6. ASSUME NEW e \in ended' PROVE Accounted(e)'
  <2>1. Accounted(e)
    BY <1>1, <1>2
  <2>2. CASE e \in reported \cup replaced
    BY <1>1, <2>2 DEF Accounted
  <2>3. CASE e \notin reported \cup replaced
    <3>1. A!Reports(a) /\ e = a.userdata
      BY <2>1, <2>3 DEF Accounted, A!Reports
    <3> QED BY <1>1, <3>1 DEF Accounted
  <2> QED BY <2>2, <2>3
<1> QED BY <1>3, <1>4, <1>5, <1>6 DEF AnimInv

(* The steps of anim_tick that change no slot.                             *)
LEMMA WalkKeeps ==
  ASSUME AnimInv,
         \/ \E ms \in Deltas : A!anim_tick(ms)
         \/ A!Skip \/ A!CompleteReturns \/ A!TickReturns \/ UNCHANGED A!vars
  PROVE  AnimInv'
<1>1. /\ UNCHANGED <<anims, started, ended, halted, replaced, reported, step>>
      /\ \/ phase' \in {"loop", "idle"} /\ phase # "update" /\ at' \in {0, at, at + 1}
         \/ phase' = phase /\ at' = at
      /\ delta' \in Deltas \/ (delta' = delta /\ phase # "idle") \/ phase' = "idle"
  <2>1. CASE \E ms \in Deltas : A!anim_tick(ms)
    BY <2>1 DEF A!anim_tick, A!history
  <2>2. CASE A!Skip
    BY <2>2 DEF A!Skip, A!NextSlot, A!history
  <2>3. CASE A!CompleteReturns
    BY <2>3 DEF A!CompleteReturns, A!NextSlot, A!history
  <2>4. CASE A!TickReturns
    BY <2>4 DEF A!TickReturns, A!history
  <2>5. CASE UNCHANGED A!vars
    BY <2>5 DEF A!vars, A!history
  <2> QED BY <2>1, <2>2, <2>3, <2>4, <2>5
<1>2. /\ AnimTyped /\ AnimsRun /\ NumbersDiffer /\ EndedStand /\ StoppedIsKnown
      /\ reported \subseteq ended \cup halted
      /\ \A e \in ended : Accounted(e)
  BY DEF AnimInv
<1>3. AnimTyped'
  BY <1>1, <1>2 DEF AnimTyped
<1>4. AnimsRun' /\ NumbersDiffer' /\ EndedStand' /\ StoppedIsKnown'
  BY <1>1, <1>2 DEF AnimsRun, NumbersDiffer, EndedStand, StoppedIsKnown
<1>5. \A e \in ended' : Accounted(e)'
  BY <1>1, <1>2 DEF Accounted
<1> QED BY <1>1, <1>2, <1>3, <1>4, <1>5 DEF AnimInv

(* Every step keeps the invariant.                                         *)
LEMMA AnimStep ==
  ASSUME AnimInv, [A!Next]_(A!vars)
  PROVE  AnimInv'
<1>1. ASSUME NEW kind \in Kinds, A!anim_start(kind) PROVE AnimInv'
  BY <1>1, StartKeeps
<1>2. ASSUME NEW id \in A!Slot, A!anim_stop(id) PROVE AnimInv'
  BY <1>2, StopKeeps
<1>3. CASE A!Tick \/ UNCHANGED A!vars
  BY <1>3, AdvanceKeeps, ReturnKeeps, WalkKeeps DEF A!Tick
<1> QED BY <1>1, <1>2, <1>3 DEF A!Next, A!Call

(* Every animation that reached its end is reported, but where its last    *)
(* on_update put another into its slot, and no other is that was not       *)
(* stopped from its own on_update: for every number of slots, every easing *)
(* and duration, and whatever the callbacks start and stop.                *)
THEOREM EndsReported == A!Spec => []EndsAreReported
<1>1. A!Init => AnimInv
  BY AnimInit
<1>2. AnimInv /\ [A!Next]_(A!vars) => AnimInv'
  BY AnimStep
<1>3. AnimInv => EndsAreReported
  <2> SUFFICES ASSUME AnimInv PROVE EndsAreReported
    OBVIOUS
  <2>1. phase = "idle" => ended \subseteq reported \cup replaced
    BY DEF AnimInv, Accounted
  <2>2. phase = "complete" /\ anims[at].userdata \in ended => anims[at].current = A!ONE(anims[at].duration)
    BY DEF AnimInv, AnimTyped, EndedStand
  <2>3. \A i \in A!Slot : anims[i].current \in 0 .. A!ONE(anims[i].duration)
    <3> SUFFICES ASSUME NEW i \in A!Slot
                 PROVE  anims[i].current \in 0 .. A!ONE(anims[i].duration)
      OBVIOUS
    <3>1. /\ anims[i].current \in Nat /\ anims[i].duration \in Nat
          /\ anims[i].current <= A!ONE(anims[i].duration)
      BY DEF AnimInv, AnimTyped, Anims, AnimRecord
    <3>2. A!ONE(anims[i].duration) \in Nat
      BY <3>1, SquareTimes DEF A!ONE
    <3> QED BY <3>1, <3>2
  <2> QED BY <2>1, <2>2, <2>3 DEF EndsAreReported, A!EndsAreReported, AnimInv
<1> QED BY <1>1, <1>2, <1>3, PTL DEF A!Spec

-----------------------------------------------------------------------------
(* The parts side by side are behaviours of each part.                     *)
LEMMA LivePartsRun == LiveSpec => Spec /\ T!Spec /\ A!Spec
<1>1. LiveInit => Init /\ T!Init /\ A!Init
  BY DEF LiveInit
<1>2. [LiveNext]_liveVars => [Next]_vars /\ [T!Next]_(T!vars) /\ [A!Next]_(A!vars)
  <2> SUFFICES ASSUME [LiveNext]_liveVars
               PROVE  [Next]_vars /\ [T!Next]_(T!vars) /\ [A!Next]_(A!vars)
    OBVIOUS
  <2>1. UNCHANGED vars \/ Next
    BY DEF LiveNext, OfScheduler, OfKeyboard, OfTimer, OfAnimation, liveVars
  <2>2. UNCHANGED timerVars \/ T!Next
    BY DEF LiveNext, OfScheduler, OfKeyboard, OfTimer, OfAnimation, liveVars
  <2>3. UNCHANGED animationVars \/ A!Next
    BY DEF LiveNext, OfScheduler, OfKeyboard, OfTimer, OfAnimation, liveVars
  <2>4. /\ UNCHANGED timerVars => UNCHANGED T!vars
        /\ UNCHANGED animationVars => UNCHANGED A!vars
    BY DEF timerVars, animationVars, T!vars, A!vars, A!history
  <2> QED BY <2>1, <2>2, <2>3, <2>4
<1> QED BY <1>1, <1>2, PTL DEF LiveSpec, Spec, T!Spec, A!Spec

(* In the system the runs check, the keys arrive in order, the sleeps are  *)
(* long enough and the ends of animations are reported.                    *)
THEOREM LiveIsSafe == LiveSpec => KeysInOrder /\ SleepLongEnough /\ []EndsAreReported
BY LivePartsRun, KeysArriveInOrder, SleepsAreLong, EndsReported, PTL
=============================================================================
