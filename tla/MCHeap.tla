------------------------------- MODULE MCHeap -------------------------------
(* Three users of the kernel's heap side by side, the process file system, *)
(* the shared memory segments and the page tables: `client' says which of  *)
(* them a behaviour is about.  The malloc of one is to the others one more *)
(* block, and Shmem has Malloc and Vmm has Other for that.                 *)
(*                                                                         *)
(* The heap has room for the entries of /proc, for the directory of one    *)
(* process three times and of two once, and then for a part of one; and    *)
(* for the segments of Sizes up to its last byte; and for a directory of   *)
(* four entries, a copy of it and its tables, but not for all of them.     *)
EXTENDS Procfs

CONSTANTS MAX_SHMEM, NULL, Sizes, MAX_BLOCKS,
          ENTRIES, VPages, Frames, Flags, OtherSizes, MAX_DIRS

VARIABLES client,
          active, addr, size, blocks,
          mem, kernel_dir, current_dir, dirs, tables, mapped

MCPids == <<"1", "2">>
MCGlobalFiles == <<"version", "loadavg">>

S == INSTANCE Shmem
M == INSTANCE Vmm

ASSUME HeapClientsAssumption == S!ShmemAssumption /\ M!VmmAssumption

procfsVars == <<proc, root, files>>
shmemVars == <<active, addr, size, blocks>>
vmmVars == <<mem, kernel_dir, current_dir, dirs, tables, mapped>>
heapVars == <<client, heap_ptr, procfsVars, shmemVars, vmmVars>>

HeapInit == \/ client = "procfs" /\ Init /\ S!ipc_init /\ M!NoTables
            \/ client = "shmem" /\ Mounted /\ S!Init /\ M!NoTables
            \/ client = "vmm" /\ Mounted /\ S!ipc_init /\ M!Init

HeapNext == /\ UNCHANGED client
            /\ \/ client = "procfs" /\ Next /\ UNCHANGED <<shmemVars, vmmVars>>
               \/ client = "shmem" /\ S!Next /\ UNCHANGED <<procfsVars, vmmVars>>
               \/ client = "vmm" /\ M!Next /\ UNCHANGED <<procfsVars, shmemVars>>

HeapSpec == HeapInit /\ [][HeapNext]_heapVars

(* The properties of Shmem and Vmm, on their variables here.               *)
OwnersApart == S!OwnersApart
TranslatesAsMapped == M!TranslatesAsMapped
IdentityMapsFirstTable == M!IdentityMapsFirstTable
=============================================================================
