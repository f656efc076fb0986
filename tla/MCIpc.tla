------------------------------- MODULE MCIpc -------------------------------
(* The pipes and the message queues of kernel/ipc.c side by side.  The two *)
(* tables share nothing, so that a call on one commutes with every call on *)
(* the other: a behaviour here makes calls on one table only, `table', and *)
(* the two state spaces add up instead of multiplying.                     *)
(*                                                                         *)
(* Two pipes of two cells, with writes up to three bytes, which meet a     *)
(* ring with room for none, some and all of them, and one write that never *)
(* fits.  Two queues of two messages, with payloads as long as the limit   *)
(* and longer.  The 32-bit counters wrap after two turns of a ring.        *)
EXTENDS Pipe

CONSTANTS zero, one, MAX_QUEUES, MSG_MAX, MSG_MAX_SIZE, Type, Payloads

VARIABLES table,                                 \* "pipes" or "queues"
          qActive, messages, qHead, qTail, qCount, qReply

MCByte == {zero, one}
MCBursts ==
  {<< >>} \cup {<<x>> : x \in MCByte} \cup (MCByte \X MCByte) \cup {<<zero, one, zero>>}
MCSizes == 0 .. 2
MCTypes == {1}
MCPayloads == {<<zero>>, <<one>>, <<one, zero>>}

Q == INSTANCE MsgQueue
       WITH active <- qActive, head <- qHead, tail <- qTail,
            count <- qCount, reply <- qReply

ASSUME IpcQueueAssumption == Q!QueueAssumption

queueVars == <<qActive, messages, qHead, qTail, qCount, qReply>>
ipcVars == <<table, vars, queueVars>>

IpcInit == table \in {"pipes", "queues"} /\ Init /\ Q!Init

IpcNext == /\ UNCHANGED table
           /\ \/ table = "pipes" /\ Next /\ UNCHANGED queueVars
              \/ table = "queues" /\ Q!Next /\ UNCHANGED vars

IpcSpec == IpcInit /\ [][IpcNext]_ipcVars

(* The refinement of MsgQueue, on its variables here.                      *)
QueueIsFifo == Q!QueueIsFifo
=============================================================================
