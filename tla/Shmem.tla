------------------------------- MODULE Shmem -------------------------------
(***************************************************************************)
(* The shared memory segments of kernel/ipc.c, on the kernel's heap.       *)
(*                                                                         *)
(* Each call is one action, and Malloc stands for every other use of the   *)
(* heap.  The key is stored and compared with nothing, owner_pid is never  *)
(* set: both are left out.  blocks records every block malloc handed out.  *)
(*                                                                         *)
(* Bound: MAX_BLOCKS blocks are ever handed out.                           *)
(***************************************************************************)
EXTENDS Heap, Sequences

CONSTANTS MAX_SHMEM,   \* IPC_MAX_SHMEM (16)
          NULL,
          Sizes,       \* the sizes callers ask for
          MAX_BLOCKS

ShmemAssumption == /\ MAX_SHMEM \in Nat \ {0}
                   /\ NULL \notin Nat
                   /\ Sizes \subseteq 0 .. WIDTH - 1
                   /\ MAX_BLOCKS \in Nat

VARIABLES active, addr, size,  \* the fields of g_shmem, by index
          blocks               \* all blocks ever handed out, in order

table == <<active, addr, size>>
vars == <<heap_ptr, active, addr, size, blocks>>

Id == 0 .. MAX_SHMEM - 1

ipc_init == /\ active = [i \in Id |-> FALSE]
            /\ addr = [i \in Id |-> NULL]
            /\ size = [i \in Id |-> 0]
            /\ blocks = << >>

Init == heap_ptr = 0 /\ ipc_init

Given(sz) == /\ Len(blocks) < MAX_BLOCKS
             /\ Allocate(sz)
             /\ blocks' = Append(blocks, [at |-> heap_ptr, len |-> sz])

Malloc(sz) == Given(sz) /\ UNCHANGED table

FirstFree(i) == ~active[i] /\ \A j \in Id : j < i => active[j]

(* With every slot taken, the call returns -1 and changes nothing.         *)
ipc_shmem_create(sz) ==
  \E i \in Id :
    /\ FirstFree(i)
    /\ \/ /\ Given(sz)
          /\ addr' = [addr EXCEPT ![i] = heap_ptr]
          /\ size' = [size EXCEPT ![i] = sz]
          /\ active' = [active EXCEPT ![i] = TRUE]
       \/ /\ ~Fits(sz)
          /\ addr' = [addr EXCEPT ![i] = NULL]
          /\ UNCHANGED <<heap_ptr, blocks, active, size>>

(* The segment's memory is not reused: free does nothing.                  *)
ipc_shmem_destroy(i) == /\ active[i]
                        /\ active' = [active EXCEPT ![i] = FALSE]
                        /\ UNCHANGED <<heap_ptr, blocks, addr, size>>

(* attach and detach, and the calls that are refused, change nothing.      *)
Lookup == UNCHANGED vars

Next == \/ \E sz \in Sizes : Malloc(sz) \/ ipc_shmem_create(sz)
        \/ \E i \in Id : ipc_shmem_destroy(i)
        \/ Lookup

Spec == Init /\ [][Next]_vars

-----------------------------------------------------------------------------
(* What ipc_shmem_attach returns.                                          *)
ipc_shmem_attach(i) == IF i \in Id /\ active[i] THEN addr[i] ELSE NULL

(* For sizes that do not wrap: all blocks ever handed out lie in the heap, *)
(* one after the other.  A process that stays attached to a segment after  *)
(* its destruction, or after its slot is created again with another size,  *)
(* never shares a byte with another owner.                                 *)
BlocksDisjoint ==
  /\ heap_ptr <= HEAP_SIZE
  /\ \A i \in 1 .. Len(blocks) :
       /\ blocks[i].at + blocks[i].len <= heap_ptr
       /\ \A j \in 1 .. i - 1 : blocks[j].at + blocks[j].len <= blocks[i].at

(* What attach returns is one of the blocks, with the size of the create   *)
(* that made this segment, and no two segments in use are the same block.  *)
SegmentsAreBlocks ==
  /\ \A i \in Id : active[i] =>
       \E k \in 1 .. Len(blocks) : /\ blocks[k] = [at |-> addr[i], len |-> size[i]]
                                   /\ ipc_shmem_attach(i) = blocks[k].at
  /\ \A i, j \in Id : active[i] /\ active[j] /\ i # j /\ size[i] > 0 /\ size[j] > 0
       => addr[i] # addr[j]

(* No two owners share a byte of the heap, in use or still attached to     *)
(* what was destroyed, up to the last byte and after failed mallocs.       *)
OwnersApart == BlocksDisjoint /\ SegmentsAreBlocks
=============================================================================
