------------------------------ MODULE LossyFifo ------------------------------
(***************************************************************************)
(* What the keyboard driver promises: keys queue up in the order they are  *)
(* typed, a key typed when Capacity of them wait is dropped, and a reader  *)
(* gets the oldest key, once.                                              *)
(***************************************************************************)
EXTENDS Integers, Sequences

CONSTANTS Item, Capacity, None

VARIABLES q,    \* what waits, oldest first
          got   \* what the last read returned, None before the first

vars == <<q, got>>

Init == q = << >> /\ got = None

Arrive(x) == Len(q) < Capacity /\ q' = Append(q, x) /\ UNCHANGED got

Take == q # << >> /\ got' = Head(q) /\ q' = Tail(q)

Next == Take \/ \E x \in Item : Arrive(x)

Spec == Init /\ [][Next]_vars
=============================================================================
