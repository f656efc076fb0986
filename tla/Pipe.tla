-------------------------------- MODULE Pipe --------------------------------
(***************************************************************************)
(* The pipes of kernel/ipc.c: a table of byte rings.                       *)
(*                                                                         *)
(* Each call is one action; the code takes no lock and nothing preempts    *)
(* it.  head and tail are uint32_t that only grow and are reduced modulo   *)
(* the ring size at each use, so they wrap at WIDTH (2^32), which the ring *)
(* size must divide.  Neither closing nor creating a pipe clears its data. *)
(* The two pids of a pipe are stored and never read, and are left out.     *)
(***************************************************************************)
EXTENDS Integers, Sequences

CONSTANTS MAX_PIPES,  \* IPC_MAX_PIPES (32)
          PIPE_SIZE,  \* IPC_PIPE_SIZE (4096)
          WIDTH,      \* values of a uint32_t
          Byte,       \* the bytes
          ZERO,       \* the byte ipc_init fills the rings with
          Bursts,     \* the byte strings a caller may write
          Sizes       \* the sizes a caller may read

ASSUME PipesAssumption == MAX_PIPES \in Nat \ {0}
ASSUME RingAssumption == /\ PIPE_SIZE \in Nat \ {0}
                         /\ WIDTH \in Nat \ {0}
                         /\ WIDTH % PIPE_SIZE = 0
ASSUME ByteAssumption == ZERO \in Byte
ASSUME CallsAssumption == Bursts \subseteq Seq(Byte) /\ Sizes \subseteq Nat

VARIABLES active, data, head, tail, count,  \* the fields of g_pipes, by index
          reply                             \* <<call, result>> of the last call

vars == <<active, data, head, tail, count, reply>>

Fd == 0 .. MAX_PIPES - 1

AnyFd == -1 .. MAX_PIPES    \* what a caller may pass: off by one at each end

Cell == 0 .. PIPE_SIZE - 1

(* The cell a uint32_t counter denotes i steps after the value x.          *)
Index(x, i) == ((x + i) % WIDTH) % PIPE_SIZE

Lesser(a, b) == IF a < b THEN a ELSE b

Init == /\ active = [f \in Fd |-> FALSE]
        /\ data = [f \in Fd |-> [j \in Cell |-> ZERO]]
        /\ head = [f \in Fd |-> 0]
        /\ tail = [f \in Fd |-> 0]
        /\ count = [f \in Fd |-> 0]
        /\ reply = <<"init", TRUE>>

Open(f) == f \in Fd /\ active[f]

FirstFree(f) == ~active[f] /\ \A g \in Fd : g < f => active[g]

(* Mutant: a slot given out again keeps its counters.                      *)
NotCleared(counter, f) == counter

Cleared(counter, f) == [counter EXCEPT ![f] = 0]

ipc_pipe_create ==
  \/ \E f \in Fd : /\ FirstFree(f)
                   /\ active' = [active EXCEPT ![f] = TRUE]
                   /\ head' = Cleared(head, f)
                   /\ tail' = Cleared(tail, f)
                   /\ count' = Cleared(count, f)
                   /\ reply' = <<"create", f>>
                   /\ UNCHANGED data
  \/ /\ \A f \in Fd : active[f]
     /\ reply' = <<"create", -1>>
     /\ UNCHANGED <<active, data, head, tail, count>>

(* Mutant: one byte too many is stored.                                     *)
StoredOneMore(f, s) == Lesser(Len(s), PIPE_SIZE - count[f] + 1)

(* The loop stores byte after byte and gives up at the first that finds    *)
(* the ring full: what it stored before stays.                             *)
Stored(f, s) == Lesser(Len(s), PIPE_SIZE - count[f])

ipc_pipe_write(f, s) ==
  /\ Open(f)
  /\ data' = [data EXCEPT ![f] = [j \in Cell |->
                IF \E i \in 1 .. Stored(f, s) : Index(tail[f], i - 1) = j
                  THEN s[CHOOSE i \in 1 .. Stored(f, s) : Index(tail[f], i - 1) = j]
                  ELSE data[f][j]]]
  /\ tail' = [tail EXCEPT ![f] = (@ + Stored(f, s)) % WIDTH]
  /\ count' = [count EXCEPT ![f] = @ + Stored(f, s)]
  /\ reply' = <<"write", Stored(f, s) = Len(s)>>
  /\ UNCHANGED <<active, head>>

Fetched(f, n) == Lesser(n, count[f])

ipc_pipe_read(f, n) ==
  /\ Open(f)
  /\ reply' = <<"read", [i \in 1 .. Fetched(f, n) |-> data[f][Index(head[f], i - 1)]]>>
  /\ head' = [head EXCEPT ![f] = (@ + Fetched(f, n)) % WIDTH]
  /\ count' = [count EXCEPT ![f] = @ - Fetched(f, n)]
  /\ UNCHANGED <<active, data, tail>>

(* Closing succeeds on every index of the table, open or not.              *)
ipc_pipe_close(f) == /\ f \in Fd
                     /\ active' = [active EXCEPT ![f] = FALSE]
                     /\ reply' = <<"close", TRUE>>
                     /\ UNCHANGED <<data, head, tail, count>>

(* The early returns.                                                      *)
PipeRefuses(f) == /\ \/ ~Open(f) /\ reply' = <<"write", FALSE>>
                     \/ ~Open(f) /\ reply' = <<"read", << >> >>
                     \/ f \notin Fd /\ reply' = <<"close", FALSE>>
                  /\ UNCHANGED <<active, data, head, tail, count>>

Next == \/ ipc_pipe_create
        \/ \E f \in AnyFd : \/ \E s \in Bursts : ipc_pipe_write(f, s)
                            \/ \E n \in Sizes : ipc_pipe_read(f, n)
                            \/ ipc_pipe_close(f)
                            \/ PipeRefuses(f)

Spec == Init /\ [][Next]_vars

-----------------------------------------------------------------------------
(* Every field stays in its range.                                         *)
TypeOK == /\ active \in [Fd -> BOOLEAN]
          /\ data \in [Fd -> [Cell -> Byte]]
          /\ head \in [Fd -> 0 .. WIDTH - 1]
          /\ tail \in [Fd -> 0 .. WIDTH - 1]
          /\ count \in [Fd -> 0 .. PIPE_SIZE]

(* The three redundant counters of a ring agree, across any number of      *)
(* wraps of the 32-bit head and tail and across partial writes: tail is    *)
(* count steps after head, and the ring never holds more than its size.    *)
RingConsistent ==
  \A f \in Fd : /\ count[f] <= PIPE_SIZE
                /\ tail[f] = (head[f] + count[f]) % WIDTH

(* The bytes in flight, oldest first.                                      *)
Contents(f) == [i \in 1 .. count[f] |-> data[f][Index(head[f], i - 1)]]

Fifo == INSTANCE BoundedFifo
          WITH Chan <- Fd, Handle <- AnyFd, Capacity <- PIPE_SIZE,
               open <- {f \in Fd : active[f]},
               q <- [f \in Fd |-> IF active[f] THEN Contents(f) ELSE << >>]

(* A pipe is a bounded FIFO: what is read is what was written, in order,   *)
(* without loss, duplication or a byte of an earlier owner of the slot,    *)
(* and a refused write leaves exactly the prefix that fitted.              *)
PipeIsFifo == Fifo!Spec
=============================================================================
