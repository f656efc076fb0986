----------------------------- MODULE BoundedFifo -----------------------------
(***************************************************************************)
(* What an IPC channel of kernel/ipc.c promises, without its ring: a       *)
(* handle names an open channel, an open channel is a queue of at most     *)
(* Capacity items, a write appends the longest prefix that fits and says   *)
(* whether that was everything, and a read takes items from the front.     *)
(* A pipe is such a channel of bytes, a message queue one of messages.     *)
(***************************************************************************)
EXTENDS Integers, Sequences

CONSTANTS Chan,      \* the handles the kernel can give out
          Handle,    \* the handles callers may pass, Chan among them
          Capacity,  \* items a channel holds
          Bursts,    \* the sequences of items a caller may write at once
          Sizes      \* the numbers of items a caller may ask for

VARIABLES open,   \* the channels in use
          q,      \* the items of every channel, oldest first
          reply   \* <<operation, what it returned>> of the last call

vars == <<open, q, reply>>

Shorter(a, b) == IF a < b THEN a ELSE b

Init == open = {} /\ q = [c \in Chan |-> << >>] /\ reply = <<"init", TRUE>>

Create(c) == /\ c \notin open
             /\ open' = open \cup {c}
             /\ q' = [q EXCEPT ![c] = << >>]
             /\ reply' = <<"create", c>>

CreateFails == open = Chan /\ reply' = <<"create", -1>> /\ UNCHANGED <<open, q>>

Write(c, s) ==
  LET room == Capacity - Len(q[c])
      kept == SubSeq(s, 1, Shorter(Len(s), room))
  IN  /\ c \in open
      /\ q' = [q EXCEPT ![c] = @ \o kept]
      /\ reply' = <<"write", Len(s) <= room>>
      /\ UNCHANGED open

Read(c, n) ==
  LET k == Shorter(n, Len(q[c]))
  IN  /\ c \in open
      /\ q' = [q EXCEPT ![c] = SubSeq(@, k + 1, Len(@))]
      /\ reply' = <<"read", SubSeq(q[c], 1, k)>>
      /\ UNCHANGED open

Close(c) == /\ open' = open \ {c}
            /\ q' = [q EXCEPT ![c] = << >>]
            /\ reply' = <<"close", TRUE>>

(* A call through a handle that names no open channel changes nothing.     *)
Refused(h) == /\ \/ h \notin open /\ reply' = <<"write", FALSE>>
                 \/ h \notin open /\ reply' = <<"read", << >> >>
                 \/ h \notin Chan /\ reply' = <<"close", FALSE>>
              /\ UNCHANGED <<open, q>>

Next == \/ \E c \in Chan : \/ Create(c)
                           \/ Close(c)
                           \/ \E s \in Bursts : Write(c, s)
                           \/ \E n \in Sizes : Read(c, n)
        \/ CreateFails
        \/ \E h \in Handle : Refused(h)

Spec == Init /\ [][Next]_vars
=============================================================================
