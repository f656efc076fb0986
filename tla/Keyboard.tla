------------------------------ MODULE Keyboard ------------------------------
(***************************************************************************)
(* The keyboard driver, drivers/keyboard.c: an interrupt handler that      *)
(* fills a ring of characters and keyboard_getchar, which empties it with  *)
(* no interrupt disabled.                                                  *)
(*                                                                         *)
(* The handler runs to its end between any two steps of the reader; the    *)
(* reader's steps are its loads and stores of the shared ring.  The build  *)
(* compiles without optimisation (Makefile, CFLAGS), so each of them       *)
(* really is one access and the polling loop reads memory every time.      *)
(* The keyboard itself is external: a key is pressed, repeats while it is  *)
(* held, and is released.  A character is its key and whether it was       *)
(* shifted; sc_map and sc_shift are that choice and no more.               *)
(*                                                                         *)
(* Bound: MAX_HELD keys are held at once.                                  *)
(***************************************************************************)
EXTENDS Integers, Sequences, FiniteSets

CONSTANTS Key,            \* the keys of the keyboard, by name
          CharKey,        \* the keys the two tables give a character to
          KB_BUFFER_SIZE, \* cells of the ring (256)
          MAX_HELD

ASSUME KeyAssumption == CharKey \subseteq Key
ASSUME BufferAssumption == KB_BUFFER_SIZE \in Nat \ {0} /\ MAX_HELD \in Nat
ASSUME ModifierAssumption == CharKey \cap {"LSHIFT", "RSHIFT", "CTRL", "ALT", "CAPS"} = {}

VARIABLES buffer, head, tail,      \* the ring of keyboard_t
          shift, ctrl, alt, caps,  \* its modifier flags
          down,                    \* keys physically held
          pc, c,                   \* where keyboard_getchar is, and its local c
          got                      \* what it last returned

ringVars == <<buffer, head, tail>>
flags == <<shift, ctrl, alt, caps>>
vars == <<buffer, head, tail, shift, ctrl, alt, caps, down, pc, c, got>>

Cell == 0 .. KB_BUFFER_SIZE - 1

Char == CharKey \X BOOLEAN      \* the key, and TRUE for sc_shift

NoChar == <<"none", FALSE>>     \* the zeroed cell

Init == /\ buffer = [j \in Cell |-> NoChar]
        /\ head = 0
        /\ tail = 0
        /\ shift = FALSE /\ ctrl = FALSE /\ alt = FALSE /\ caps = FALSE
        /\ down = {}
        /\ pc = "idle"
        /\ c = NoChar
        /\ got = NoChar

-----------------------------------------------------------------------------
(* keyboard_irq_handler, for a key going down or up.                       *)

ShiftKey(k, rel) == /\ k \in {"LSHIFT", "RSHIFT"}
                    /\ shift' = ~rel
                    /\ UNCHANGED <<ringVars, ctrl, alt, caps>>

HoldKey(k, rel) == \/ /\ k = "CTRL"
                      /\ ctrl' = ~rel
                      /\ UNCHANGED <<ringVars, shift, alt, caps>>
                   \/ /\ k = "ALT"
                      /\ alt' = ~rel
                      /\ UNCHANGED <<ringVars, shift, ctrl, caps>>

CapsKey(k, rel) == /\ k = "CAPS"
                   /\ caps' = IF rel THEN caps ELSE ~caps
                   /\ UNCHANGED <<ringVars, shift, ctrl, alt>>

(* Mutant: the room check leaves two cells free.                           *)
RoomForTwo == /\ (tail + 1) % KB_BUFFER_SIZE # head
              /\ (tail + 2) % KB_BUFFER_SIZE # head

(* One cell is always left free, so that a full ring is not an empty one.  *)
HasRoom == (tail + 1) % KB_BUFFER_SIZE # head

OtherKey(k, rel) ==
  /\ k \notin {"LSHIFT", "RSHIFT", "CTRL", "ALT", "CAPS"}
  /\ IF ~rel /\ k \in CharKey /\ HasRoom
       THEN /\ buffer' = [buffer EXCEPT ![tail] = <<k, shift # caps>>]
            /\ tail' = (tail + 1) % KB_BUFFER_SIZE
            /\ UNCHANGED head
       ELSE UNCHANGED ringVars
  /\ UNCHANGED flags

keyboard_irq_handler(k, rel) ==
  ShiftKey(k, rel) \/ HoldKey(k, rel) \/ CapsKey(k, rel) \/ OtherKey(k, rel)

(* The device: a press, or the repeat of a key held, and a release.        *)
Press(k) == /\ Cardinality(down \ {k}) < MAX_HELD
            /\ down' = down \cup {k}
            /\ keyboard_irq_handler(k, FALSE)
            /\ UNCHANGED <<pc, c, got>>

Release(k) == /\ k \in down
              /\ down' = down \ {k}
              /\ keyboard_irq_handler(k, TRUE)
              /\ UNCHANGED <<pc, c, got>>

-----------------------------------------------------------------------------
(* keyboard_getchar, one shared access per step.                           *)

Call == /\ pc = "idle"
        /\ pc' = "poll"
        /\ UNCHANGED <<ringVars, flags, down, c, got>>

(* keyboard_has_input: the loop goes round while it is false.              *)
Poll == /\ pc = "poll"
        /\ head # tail
        /\ pc' = "fetch"
        /\ UNCHANGED <<ringVars, flags, down, c, got>>

Fetch == /\ pc = "fetch"
         /\ c' = buffer[head]
         /\ pc' = "advance"
         /\ UNCHANGED <<ringVars, flags, down, got>>

(* Mutant: the head is set back to the start.                              *)
HeadReset == 0

HeadNext == (head + 1) % KB_BUFFER_SIZE

Advance == /\ pc = "advance"
           /\ head' = HeadNext
           /\ got' = c
           /\ pc' = "idle"
           /\ UNCHANGED <<buffer, tail, flags, down, c>>

keyboard_getchar == Call \/ Poll \/ Fetch \/ Advance

Next == keyboard_getchar \/ \E k \in Key : Press(k) \/ Release(k)

Spec == Init /\ [][Next]_vars

(* The reader's processor runs, and the reader comes back for more.        *)
FairSpec == Spec /\ WF_vars(keyboard_getchar)

-----------------------------------------------------------------------------
(* The characters waiting, oldest first.                                   *)
Waiting == (tail - head + KB_BUFFER_SIZE) % KB_BUFFER_SIZE

Pending == [i \in 1 .. Waiting |-> buffer[(head + i - 1) % KB_BUFFER_SIZE]]

Stream == INSTANCE LossyFifo
            WITH Item <- Char, Capacity <- KB_BUFFER_SIZE - 1, None <- NoChar,
                 q <- Pending

(* A key is dropped only when all but one of the cells wait for the        *)
(* reader, wherever the reader happens to be interrupted.                  *)
DroppedOnlyWhenFull ==
  [][\A k \in CharKey : Press(k) /\ Waiting < KB_BUFFER_SIZE - 1
        => Waiting' = Waiting + 1]_vars

(* The modifiers follow the keys that are held, also past keys that find   *)
(* the ring full: Ctrl and Alt are on exactly while theirs is down, Shift  *)
(* never without one of its two.  (It goes off with the first of the two   *)
(* that is released.)                                                      *)
ModifiersFollow == /\ ctrl <=> "CTRL" \in down
                   /\ alt <=> "ALT" \in down
                   /\ shift => {"LSHIFT", "RSHIFT"} \cap down # {}

(* The handler and the reader share the ring without a lock and still no   *)
(* key that entered it is lost, doubled, reordered or overwritten between  *)
(* the reader's fetch and its advance; every key enters it that has a cell *)
(* to go to; and a dropped key takes no modifier along.                    *)
KeysInOrder == Stream!Spec /\ DroppedOnlyWhenFull /\ []ModifiersFollow

(* A typed key never gets stuck: with a reader that keeps calling, the     *)
(* oldest waiting key is always taken.                                     *)
NoKeyStuck == \A h \in Cell : (head = h /\ head # tail) ~> (head # h)
=============================================================================
