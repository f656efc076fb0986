------------------------------ MODULE MsgQueue ------------------------------
(***************************************************************************)
(* The message queues of kernel/ipc.c: a table of rings of fixed-size      *)
(* messages.                                                               *)
(*                                                                         *)
(* Each call is one action.  A message is its type and the bytes of its    *)
(* payload; ipc_queue_send keeps the first IPC_MSG_MAX_SIZE of them.  The  *)
(* ring's counters are uint32_t that wrap at WIDTH (2^32).  owner_pid is   *)
(* stored and never read and sender_pid is never set: both are left out,   *)
(* and so are the bytes of a message beyond its size, which recv copies    *)
(* along and which say nothing.                                            *)
(***************************************************************************)
EXTENDS Integers, Sequences

CONSTANTS MAX_QUEUES,    \* IPC_MAX_QUEUES (32)
          MSG_MAX,       \* IPC_MSG_MAX (64)
          MSG_MAX_SIZE,  \* IPC_MSG_MAX_SIZE (512)
          WIDTH,         \* values of a uint32_t
          Type,          \* message types
          Byte,          \* payload bytes
          Payloads       \* the payloads a caller may send

(* What the constants must satisfy; MCIpc assumes it of its instance.      *)
QueueAssumption == /\ MAX_QUEUES \in Nat \ {0}
                   /\ MSG_MAX \in Nat \ {0}
                   /\ MSG_MAX_SIZE \in Nat
                   /\ WIDTH \in Nat \ {0}
                   /\ WIDTH % MSG_MAX = 0
                   /\ Payloads \subseteq Seq(Byte)

VARIABLES active, messages, head, tail, count,  \* the fields of g_queues, by index
          reply                                 \* <<call, result>> of the last call

vars == <<active, messages, head, tail, count, reply>>

Qid == 0 .. MAX_QUEUES - 1

AnyQid == -1 .. MAX_QUEUES    \* what a caller may pass: off by one at each end

Cell == 0 .. MSG_MAX - 1

Index(x) == x % MSG_MAX

NoMessage == [type |-> 0, body |-> << >>]

Truncated(body) ==
  SubSeq(body, 1, IF Len(body) < MSG_MAX_SIZE THEN Len(body) ELSE MSG_MAX_SIZE)

Message(t, body) == [type |-> t, body |-> Truncated(body)]

Init == /\ active = [k \in Qid |-> FALSE]
        /\ messages = [k \in Qid |-> [j \in Cell |-> NoMessage]]
        /\ head = [k \in Qid |-> 0]
        /\ tail = [k \in Qid |-> 0]
        /\ count = [k \in Qid |-> 0]
        /\ reply = <<"init", TRUE>>

Open(k) == k \in Qid /\ active[k]

FirstFree(k) == ~active[k] /\ \A g \in Qid : g < k => active[g]

ipc_queue_create ==
  \/ \E k \in Qid : /\ FirstFree(k)
                    /\ active' = [active EXCEPT ![k] = TRUE]
                    /\ head' = [head EXCEPT ![k] = 0]
                    /\ tail' = [tail EXCEPT ![k] = 0]
                    /\ count' = [count EXCEPT ![k] = 0]
                    /\ reply' = <<"create", k>>
                    /\ UNCHANGED messages
  \/ /\ \A k \in Qid : active[k]
     /\ reply' = <<"create", -1>>
     /\ UNCHANGED <<active, messages, head, tail, count>>

(* Mutant: one message too many fits.                                      *)
FullOffByOne(k) == count[k] > MSG_MAX

Full(k) == count[k] >= MSG_MAX

ipc_queue_send(k, t, body) ==
  /\ Open(k)
  /\ IF Full(k)
       THEN reply' = <<"write", FALSE>> /\ UNCHANGED <<messages, tail, count>>
       ELSE /\ messages' = [messages EXCEPT ![k][Index(tail[k])] = Message(t, body)]
            /\ tail' = [tail EXCEPT ![k] = (@ + 1) % WIDTH]
            /\ count' = [count EXCEPT ![k] = @ + 1]
            /\ reply' = <<"write", TRUE>>
  /\ UNCHANGED <<active, head>>

(* recv copies one message out; on an empty queue it returns false, which  *)
(* is reading none.                                                        *)
ipc_queue_recv(k) ==
  /\ Open(k)
  /\ IF count[k] = 0
       THEN reply' = <<"read", << >> >> /\ UNCHANGED <<head, count>>
       ELSE /\ reply' = <<"read", <<messages[k][Index(head[k])]>> >>
            /\ head' = [head EXCEPT ![k] = (@ + 1) % WIDTH]
            /\ count' = [count EXCEPT ![k] = @ - 1]
  /\ UNCHANGED <<active, messages, tail>>

(* Destroying succeeds on every index of the table, and keeps the rest of  *)
(* the slot as it is.                                                      *)
ipc_queue_destroy(k) == /\ k \in Qid
                        /\ active' = [active EXCEPT ![k] = FALSE]
                        /\ reply' = <<"close", TRUE>>
                        /\ UNCHANGED <<messages, head, tail, count>>

(* The early returns.                                                      *)
QueueRefuses(k) == /\ \/ ~Open(k) /\ reply' = <<"write", FALSE>>
                      \/ ~Open(k) /\ reply' = <<"read", << >> >>
                      \/ k \notin Qid /\ reply' = <<"close", FALSE>>
                   /\ UNCHANGED <<active, messages, head, tail, count>>

Next == \/ ipc_queue_create
        \/ \E k \in AnyQid : \/ \E t \in Type, body \in Payloads : ipc_queue_send(k, t, body)
                             \/ ipc_queue_recv(k)
                             \/ ipc_queue_destroy(k)
                             \/ QueueRefuses(k)

Spec == Init /\ [][Next]_vars

-----------------------------------------------------------------------------
(* The messages in flight, oldest first.                                   *)
Contents(k) == [i \in 1 .. count[k] |-> messages[k][Index(head[k] + i - 1)]]

Sent == {Message(t, body) : t \in Type, body \in Payloads}

Fifo == INSTANCE BoundedFifo
          WITH Chan <- Qid, Handle <- AnyQid, Capacity <- MSG_MAX,
               Bursts <- {<<m>> : m \in Sent}, Sizes <- {1},
               open <- {k \in Qid : active[k]},
               q <- [k \in Qid |-> IF active[k] THEN Contents(k) ELSE << >>]

(* A message queue is a bounded FIFO of truncated messages: what is        *)
(* received is what was sent, in order and once, a full queue refuses and  *)
(* stays as it was, and a slot given out again starts empty.               *)
QueueIsFifo == Fifo!Spec
=============================================================================
