-------------------------------- MODULE Vmm --------------------------------
(***************************************************************************)
(* The page tables of kernel/vmm.c, on the kernel's heap, in words of      *)
(* memory: a directory and its tables are blocks that malloc hands out.    *)
(*                                                                         *)
(* malloc aligns to 4 bytes, and a directory entry keeps only the page     *)
(* bits of its table's address.  A table that does not start on a page is  *)
(* therefore written below its start from the second vmm_map on.           *)
(* Addresses are offsets into the heap's array, which is taken to start on *)
(* a page.  Once a table is off its page the model makes no more calls:    *)
(* entries of the directory itself have been overwritten.                  *)
(*                                                                         *)
(* The writes to cr0 and cr3 and the TLB are left out.  Nothing in the     *)
(* repository calls vmm_init.                                              *)
(***************************************************************************)
EXTENDS Heap, FiniteSets

CONSTANTS ENTRIES,       \* 1024
          NULL,
          VPages,        \* the pages that are mapped and unmapped,
          Frames,        \* the physical pages they are mapped to,
          Flags,         \* the flags, of PRESENT and WRITABLE,
          OtherSizes,    \* the sizes others ask malloc for,
          MAX_DIRS       \* and a bound on the directories created

PAGE == 4 * ENTRIES      \* PAGE_SIZE
PRESENT == 1
WRITABLE == 2

VmmAssumption == /\ ENTRIES \in Nat \ {0}
                 /\ NULL \notin Nat
                 /\ ALIGN % 4 = 0 /\ HEAP_SIZE + PAGE < WIDTH
                 /\ VPages \subseteq 0 .. ENTRIES * ENTRIES - 1
                 /\ \A f \in Frames : f \in Nat /\ f * PAGE + PAGE <= WIDTH
                 /\ Flags \subseteq 0 .. PRESENT + WRITABLE
                 /\ OtherSizes \subseteq 1 .. WIDTH - 1
                 /\ MAX_DIRS \in Nat

VARIABLES mem,         \* the words of the heap, by address
          kernel_dir,  \* g_kernel_dir
          current_dir, \* g_current_dir
          dirs,        \* every directory vmm_create_dir made, destroyed or not
          tables,      \* every page table vmm_map made
          mapped       \* what each page was last mapped to, NULL if unmapped

vars == <<heap_ptr, mem, kernel_dir, current_dir, dirs, tables, mapped>>

Words == {4 * k : k \in 0 .. HEAP_SIZE \div 4 - 1}
VirtualPages == 0 .. ENTRIES * ENTRIES - 1

NoTables == /\ mem = [a \in Words |-> 0]
            /\ kernel_dir = NULL /\ current_dir = NULL
            /\ dirs = {} /\ tables = {}
            /\ mapped = [v \in VirtualPages |-> NULL]

Init == heap_ptr = 0 /\ NoTables

Present(word) == word % 2 = PRESENT
PageBits(word) == word - (word % PAGE)     \* word & ~0xFFF

Zeroed(m, at) == [a \in Words |-> IF a \in at .. at + PAGE - 1 THEN 0 ELSE m[a]]

AtHeap(p) == INSTANCE Heap WITH heap_ptr <- p

-----------------------------------------------------------------------------
EntryOf(dir, v) == dir + 4 * (v \div ENTRIES)
WordOf(tbl, v) == tbl + 4 * (v % ENTRIES)

(* What vmm_map works on, so that vmm_init can call it in a loop.          *)
Tree == [mem |-> mem, heap_ptr |-> heap_ptr, tables |-> tables, mapped |-> mapped]

Put(t, tbl, v, frame, flags) ==
  [t EXCEPT !.mem[WordOf(tbl, v)] = frame * PAGE + flags, !.mapped[v] = frame]

(* Mutant: the table that is there is not looked for.                      *)
AlwaysNew(t, dir, v) == FALSE

HasTable(t, dir, v) == Present(t.mem[EntryOf(dir, v)])

NewTable(t, dir, v) ==
  [t EXCEPT !.mem = [Zeroed(@, t.heap_ptr) EXCEPT
                       ![EntryOf(dir, v)] = t.heap_ptr + PRESENT + WRITABLE],
            !.heap_ptr = AtHeap(@)!Bumped(PAGE),
            !.tables = @ \cup {t.heap_ptr}]

(* A page whose table finds no room is not mapped, and nobody is told.     *)
Map(t, dir, v, frame, flags) ==
  CASE HasTable(t, dir, v) ->
         Put(t, PageBits(t.mem[EntryOf(dir, v)]), v, frame, flags)
    [] ~HasTable(t, dir, v) /\ AtHeap(t.heap_ptr)!Fits(PAGE) ->
         Put(NewTable(t, dir, v), t.heap_ptr, v, frame, flags)
    [] OTHER -> t

TreeIs(t) == /\ mem' = t.mem /\ heap_ptr' = t.heap_ptr
             /\ tables' = t.tables /\ mapped' = t.mapped

Aligned == \A tbl \in tables : tbl % PAGE = 0

(* The identity map of the first ENTRIES pages, page by page.              *)
vmm_init ==
  LET start == [Tree EXCEPT !.mem = Zeroed(@, heap_ptr), !.heap_ptr = Bumped(PAGE)]
      upto[i \in 0 .. ENTRIES] ==
        IF i = 0 THEN start
        ELSE Map(upto[i - 1], heap_ptr, i - 1, i - 1, PRESENT + WRITABLE)
  IN /\ kernel_dir = NULL
     /\ Fits(PAGE)
     /\ TreeIs(upto[ENTRIES])
     /\ kernel_dir' = heap_ptr
     /\ current_dir' = heap_ptr
     /\ UNCHANGED dirs

vmm_map(v, frame, flags) == /\ kernel_dir # NULL /\ Aligned
                            /\ TreeIs(Map(Tree, kernel_dir, v, frame, flags))
                            /\ UNCHANGED <<kernel_dir, current_dir, dirs>>

vmm_unmap(v) == /\ kernel_dir # NULL /\ Aligned
                /\ HasTable(Tree, kernel_dir, v)
                /\ mem' = [mem EXCEPT ![WordOf(PageBits(mem[EntryOf(kernel_dir, v)]), v)] = 0]
                /\ mapped' = [mapped EXCEPT ![v] = NULL]
                /\ UNCHANGED <<heap_ptr, kernel_dir, current_dir, dirs, tables>>

(* vmm_get_phys, for the directory the processor might use.                *)
Phys(dir, v, offset) ==
  IF ~Present(mem[EntryOf(dir, v)]) THEN 0
  ELSE PageBits(mem[WordOf(PageBits(mem[EntryOf(dir, v)]), v)]) + offset

vmm_is_mapped(v, offset) == kernel_dir # NULL /\ Phys(kernel_dir, v, offset) # 0

vmm_switch(dir) == /\ current_dir' = dir
                   /\ UNCHANGED <<heap_ptr, mem, kernel_dir, dirs, tables, mapped>>

(* A copy of the directory, not of its tables.                             *)
vmm_create_dir ==
  /\ kernel_dir # NULL /\ Aligned
  /\ Cardinality(dirs) < MAX_DIRS
  /\ Allocate(PAGE)
  /\ mem' = [a \in Words |-> IF a \in heap_ptr .. heap_ptr + PAGE - 1
                             THEN mem[kernel_dir + a - heap_ptr] ELSE mem[a]]
  /\ dirs' = dirs \cup {heap_ptr}
  /\ UNCHANGED <<kernel_dir, current_dir, tables, mapped>>

(* vmm_get_phys and vmm_is_mapped, vmm_destroy_dir, which gives nothing    *)
(* back, and the calls that malloc refuses change nothing.                 *)
Lookup == UNCHANGED vars

(* Others use the heap.                                                    *)
Other(sz) == /\ Allocate(sz)
             /\ UNCHANGED <<mem, kernel_dir, current_dir, dirs, tables, mapped>>

Next == \/ vmm_init
        \/ \E v \in VPages :
             \/ \E frame \in Frames, flags \in Flags : vmm_map(v, frame, flags)
             \/ vmm_unmap(v)
        \/ vmm_create_dir
        \/ \E dir \in dirs : vmm_switch(dir)
        \/ \E sz \in OtherSizes : Other(sz)
        \/ Lookup

Spec == Init /\ [][Next]_vars

-----------------------------------------------------------------------------
(* vmm_get_phys puts the offset on whatever the table says: an unmapped    *)
(* page whose table exists gives the bare offset, not 0.                   *)
Translation(v, offset) ==
  IF mapped[v] # NULL THEN mapped[v] * PAGE + offset
  ELSE IF HasTable(Tree, kernel_dir, v) THEN offset ELSE 0

(* So vmm_is_mapped takes every byte but the first of an unmapped page for *)
(* mapped once the page has a table, and the first byte of a page that is  *)
(* mapped to frame 0 for unmapped.                                         *)
Misjudged(v, offset) ==
  \/ mapped[v] = NULL /\ HasTable(Tree, kernel_dir, v) /\ offset > 0
  \/ mapped[v] = 0 /\ offset = 0

(* With every table on a page of its own: each byte of a page translates   *)
(* to that of the frame the page was last mapped to (present or not, by    *)
(* its flags), whatever was mapped, unmapped or refused around it; each    *)
(* byte of another page to its offset or to 0; vmm_is_mapped is right for  *)
(* the bytes that are not misjudged, and for no other.  Each directory     *)
(* made for a process, however old, translates the pages of the tables it  *)
(* was made with as the kernel does now.                                   *)
TranslatesAsMapped ==
  kernel_dir # NULL /\ Aligned =>
    /\ \A v \in VirtualPages, offset \in 0 .. PAGE - 1 :
         /\ Phys(kernel_dir, v, offset) = Translation(v, offset)
         /\ vmm_is_mapped(v, offset) <=> ((mapped[v] # NULL) <=> ~Misjudged(v, offset))
    /\ \A dir \in dirs, v \in VirtualPages, offset \in 0 .. PAGE - 1 :
         Present(mem[EntryOf(dir, v)]) => Phys(dir, v, offset) = Phys(kernel_dir, v, offset)
    /\ current_dir \in dirs \cup {kernel_dir}

(* "Identity map elso 4MB" (line 11): one table is in use then, the first. *)
IdentityMapsFirstTable ==
  [][vmm_init => \A v \in VirtualPages : HasTable(Tree, kernel_dir, v)' => v < ENTRIES]_vars
=============================================================================
