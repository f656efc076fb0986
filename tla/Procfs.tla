------------------------------- MODULE Procfs -------------------------------
(***************************************************************************)
(* The process file system, fs/procfs.c, on the kernel's heap.             *)
(*                                                                         *)
(* An entry is a record; the list of a directory's children, newest first, *)
(* is the sequence `kids', so that a list and what is unlinked from it are *)
(* values.  The text a read_fn formats is cut down to what tells texts     *)
(* apart: whose it is and, where the code prints it, the process's state.  *)
(* The process table is kernel/process.c's, which is external; its pids    *)
(* are given in the order of its slots.  Every entry and file is freed at  *)
(* most once and free does nothing, so that freeing leaves no trace here.  *)
(***************************************************************************)
EXTENDS Heap, Sequences, FiniteSets, SequencesExt

CONSTANTS Pids,         \* the pids of process_table, in order
          NOPID,        \* 0, the pid of a global entry
          GlobalFiles,  \* the names of global_files, in order
          Handle,       \* the pointers procfs_open may return
          Counts,       \* the sizes readers pass
          ENTRY_SIZE, FILE_SIZE,
          PROCFS_BUFFER_SIZE, SHORT_BUFFER_SIZE

ASSUME ProcfsAssumption ==
  /\ Pids \in Seq(ToSet(Pids)) /\ GlobalFiles \in Seq(ToSet(GlobalFiles))
  /\ NOPID \notin ToSet(Pids) /\ IsInjective(Pids)
  /\ IsInjective(GlobalFiles)
  /\ ENTRY_SIZE \in Nat \ {0} /\ ENTRY_SIZE % ALIGN = 0
  /\ FILE_SIZE \in Nat /\ PROCFS_BUFFER_SIZE \in Nat /\ SHORT_BUFFER_SIZE \in Nat
  /\ ENTRY_SIZE * (Len(GlobalFiles) + 2) <= HEAP_SIZE /\ HEAP_SIZE + ENTRY_SIZE < WIDTH

VARIABLES proc,   \* process_table: each pid is "FREE" (no process), "LIVE" or "DEAD"
          root,   \* the children of fs->root
          files   \* the open files: no or one record for each handle

vars == <<heap_ptr, proc, root, files>>

Pid == ToSet(Pids)
PidFiles == <<"status", "stat", "cmdline", "maps", "fd">>

alloc_entry(name, type, pid, kids) == [name |-> name, type |-> type, pid |-> pid, kids |-> kids]

PidFile(p, name) == alloc_entry(name, IF name = "fd" THEN "DIR" ELSE "FILE", p, << >>)

(* add_entry puts each child in front of those added before.               *)
GlobalEntries ==
  <<alloc_entry("self", "LINK", NOPID, << >>)>>
    \o Reverse([i \in DOMAIN GlobalFiles |-> alloc_entry(GlobalFiles[i], "FILE", NOPID, << >>)])

(* kernel_main initialises and mounts /proc while no process exists.       *)
Mounted == /\ proc = [p \in Pid |-> "FREE"]
           /\ root = GlobalEntries
           /\ files = [h \in Handle |-> {}]

Init == heap_ptr = ENTRY_SIZE * (Len(GlobalFiles) + 2) /\ Mounted

-----------------------------------------------------------------------------
(* procfs_update                                                           *)

(* Every entry is looked at, and the directories of processes unlinked.    *)
Kept(entries) ==
  LET left[i \in 0 .. Len(entries)] ==
        IF i = 0 THEN << >>
        ELSE IF entries[i].pid = NOPID THEN Append(left[i - 1], entries[i]) ELSE left[i - 1]
  IN left[Len(entries)]

(* Mutant: the state of the process is not looked at.                      *)
EverySlot(p) == proc[p] # "FREE"

Alive(p) == proc[p] \notin {"FREE", "DEAD"}

(* How many entries malloc has room for, and how many a directory gets     *)
(* that asks for one and one for each of its files when `used' are gone.   *)
Room == (HEAP_SIZE - heap_ptr) \div ENTRY_SIZE
PerDir == Len(PidFiles) + 1
Got(used) == IF Room - used < PerDir THEN Room - used ELSE PerDir

(* Without memory for the directory itself there is no directory; without  *)
(* memory for a file the directory goes without it.                        *)
create_pid_dir(p, got) ==
  IF got = 0 THEN << >>
  ELSE <<alloc_entry(p, "DIR", p, Reverse([i \in 1 .. got - 1 |-> PidFile(p, PidFiles[i])]))>>

(* The slots of the table in order: after i of them, the list of children  *)
(* and how many entries were allocated.                                    *)
Rebuilt ==
  LET after[i \in 0 .. Len(Pids)] ==
        IF i = 0 THEN [list |-> Kept(root), used |-> 0]
        ELSE IF ~Alive(Pids[i]) THEN after[i - 1]
        ELSE [list |-> create_pid_dir(Pids[i], Got(after[i - 1].used)) \o after[i - 1].list,
              used |-> after[i - 1].used + Got(after[i - 1].used)]
  IN after[Len(Pids)]

procfs_update ==
  /\ root' = Rebuilt.list
  /\ heap_ptr' = heap_ptr + ENTRY_SIZE * Rebuilt.used
  /\ UNCHANGED <<proc, files>>

-----------------------------------------------------------------------------
(* Opening, reading and closing                                            *)

(* The first child of that name.                                           *)
Child(e, name) ==
  {e.kids[i] : i \in {i \in DOMAIN e.kids :
     e.kids[i].name = name /\ \A j \in 1 .. i - 1 : e.kids[j].name # name}}

(* A path is the sequence of its tokens; no or one entry is found.         *)
find_entry(path) ==
  FoldLeft(LAMBDA found, name : UNION {Child(e, name) : e \in found},
           {alloc_entry("/", "DIR", NOPID, root)}, path)

(* What read_fn formats: a process that is gone leaves a line that says so *)
(* or, for cmdline, nothing.                                               *)
Text(e) ==
  CASE e.pid = NOPID -> <<e.name, "end">>
    [] e.pid # NOPID /\ proc[e.pid] = "FREE" -> IF e.name = "cmdline" THEN << >> ELSE <<"none">>
    [] e.pid # NOPID /\ proc[e.pid] # "FREE" ->
         IF e.name = "status" THEN <<e.pid, proc[e.pid], "end">> ELSE <<e.pid, "end">>

BufferSize(e) == IF e.name \in {"cmdline", "loadavg"} THEN SHORT_BUFFER_SIZE
                 ELSE PROCFS_BUFFER_SIZE

Both(e) == RoundUp(FILE_SIZE) + BufferSize(e)

(* The file's record, then its buffer: with room for the record only, the  *)
(* file opens and reads as empty; without, the call returns NULL.          *)
procfs_open(h, path) ==
  /\ files[h] = {}
  /\ \E e \in find_entry(path) :
       /\ e.type = "FILE"
       /\ files' = [files EXCEPT ![h] =
            {[pid |-> e.pid, name |-> e.name, position |-> 0,
              buffer |-> IF Fits(Both(e)) THEN Text(e) ELSE << >>]}]
       /\ \/ Allocate(Both(e))
          \/ ~Fits(Both(e)) /\ Allocate(FILE_SIZE)
       /\ UNCHANGED <<proc, root>>

Clipped(size, available) == Min({size, available})

procfs_read(h, size) ==
  \E f \in files[h] :
    /\ files' = [files EXCEPT ![h] =
         {[f EXCEPT !.position = @ + Clipped(size, Len(f.buffer) - @)]}]
    /\ UNCHANGED <<heap_ptr, proc, root>>

procfs_close(h) == /\ files[h] # {}
                   /\ files' = [files EXCEPT ![h] = {}]
                   /\ UNCHANGED <<heap_ptr, proc, root>>

(* procfs_write finds no write_fn in any entry, procfs_list_dir copies the *)
(* names out, and a call that is refused changes nothing.                  *)
Lookup == UNCHANGED vars

-----------------------------------------------------------------------------
(* process.c: a process appears in a free slot, dies, and is cleared away. *)
Becomes(p, before, after) == /\ proc[p] = before
                             /\ proc' = [proc EXCEPT ![p] = after]
                             /\ UNCHANGED <<heap_ptr, root, files>>

Processes == \E p \in Pid : \/ Becomes(p, "FREE", "LIVE")
                            \/ Becomes(p, "LIVE", "DEAD")
                            \/ Becomes(p, "DEAD", "FREE")

Paths == {<<name>> : name \in ToSet(GlobalFiles) \cup Pid \cup {"self"}}
           \cup (Pid \X ToSet(PidFiles))

Next == \/ procfs_update
        \/ \E h \in Handle : \/ \E path \in Paths : procfs_open(h, path)
                             \/ \E size \in Counts : procfs_read(h, size)
                             \/ procfs_close(h)
        \/ Processes
        \/ Lookup

Spec == Init /\ [][Next]_vars

-----------------------------------------------------------------------------
Exhausted == ~Fits(ENTRY_SIZE)

NamesOf(entries) == [i \in DOMAIN entries |-> entries[i].name]

(* An update leaves the global files in the list, each once, in their      *)
(* order and behind the directories.  Of processes it has a directory for  *)
(* no other than the live ones, none twice; it has all of them, with all   *)
(* their files, unless the heap has no room for one more entry.            *)
UpdateFollowsProcesses ==
  [][procfs_update =>
       LET made == SubSeq(root', 1, Len(root') - Len(GlobalEntries))
       IN /\ root' = made \o GlobalEntries
          /\ IsInjective(NamesOf(made))
          /\ \A i \in DOMAIN made :
               /\ proc[made[i].pid] = "LIVE" /\ made[i].name = made[i].pid
               /\ \A j \in DOMAIN made[i].kids : made[i].kids[j].pid = made[i].pid
          /\ \/ Exhausted'
             \/ /\ {made[i].pid : i \in DOMAIN made} = {p \in Pid : proc[p] = "LIVE"}
                /\ \A i \in DOMAIN made : NamesOf(made[i].kids) = Reverse(PidFiles)]_vars

(* What the comments of procfs.c:381 and 400 say an update does: after it, *)
(* every live process has its directory.                                   *)
EveryProcessListed ==
  [][procfs_update =>
       \A p \in Pid : proc[p] = "LIVE" => \E i \in DOMAIN root' : root'[i].pid = p]_vars
=============================================================================
