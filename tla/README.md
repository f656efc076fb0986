# BlockOS: models and proofs

TLA+ modules of the parts of BlockOS that keep state, TLC runs that check them
on small instances, and TLAPS proofs of all their safety properties for
instances of every size. Each definition translates the C source; `PROJECT.json`
names the lines ("map"), the hazards the properties are for, and for every
property a mutated definition that the property detects.

BlockOS is a single-processor 32-bit x86 kernel in C. It is built without
optimisation (`Makefile`, `CFLAGS`), so that the order of loads and stores in
the source is the order in the code. Its comments are in Hungarian; where one is
quoted a translation follows. Some files that the source includes are not in the
repository (`kernel/process.c`, `kernel/syscall.h`, `fs/fat32.c`,
`drivers/ps2_mouse.c`, `gui/cursor.c`, the assembler stubs of the interrupts); what
the code uses of them is modelled from that use and marked external.

## 1. The system

`kernel/init.c` sets up the file systems, the mouse and the desktop and enters
`kernel_loop`, which for ever reads the mouse, gives the window manager the mouse,
rebuilds the process directories of `/proc`, composes the screen and waits in an empty
loop (`init.c:89`). Interrupt handlers run between any two instructions of that; nothing
takes a lock. The C handlers in `boot/idt.c` do little: `irq0_handler` counts a tick in
`kernel/generic.c`, `irq1_handler` reads a key and drops it, `irq12_handler` a byte of
the mouse.

Much of the kernel is written and not connected yet. In the repository nothing calls
`idt_init`, `timer_init` and `timer_irq_handler`, `keyboard_irq_handler` and
`keyboard_getchar`, `vmm_init` or `anim_tick`, nor, from outside their own files, the
scheduler (only `scheduler_yield` calls `scheduler_tick`), IPC, the sockets, the
debugger, the monitor, the context menu, the terminal or the editor. The modules are of
these components as they are written, under every order of the calls their headers
offer; where a property needs somebody to go on calling, it says so (section 5).

| component | state | operations | correct when |
|---|---|---|---|
| Process scheduler `kernel/scheduler.c` | ring of process pointers with head, tail, count; mode; the current process; state and time slice of each process | init, add, remove, next, tick, yield, block, unblock, set_mode | nothing queued is skipped or starved, the top priority runs, each dispatch gets a whole quantum |
| IPC pipes `kernel/ipc.c` | table of byte rings, 32-bit head and tail, count | create, write, read, close | a pipe is a bounded FIFO, also for a slot that had another owner |
| IPC message queues `kernel/ipc.c` | table of rings of messages | create, send, recv, destroy | the same, one message at a time |
| IPC shared memory `kernel/ipc.c` | table of addresses and sizes | create, attach, detach, destroy | no two owners share a byte |
| Kernel heap `kernel/generic.c` | one offset that only grows | malloc, realloc, free (does nothing) | blocks are disjoint and in the heap |
| Keyboard `drivers/keyboard.c` | ring of characters shared with its interrupt handler, modifier flags | the handler, getchar | keys arrive once, in order, and the reader is not stuck |
| Timer `drivers/timer.c` | 64-bit tick counter shared with its handler | the handler (and that of `boot/idt.c`), sleep, get_ticks | a sleep ends while the driver's handler is called, and not too early |
| Window manager `wm/blockwm.c` | array of windows, focused index, drag pointer into the array | create, destroy, focus, minimise, maximise, handle_mouse, composite | indexes and pointers into the array follow the windows through sorts and removals |
| RAM file system `fs/ramfs.c` | tree of inodes, open files, counters | create file/dir/symlink, delete, open, close, read, write, seek, find | tree, counters and open files agree |
| ProcFS `fs/procfs.c` | tree of entries, open files with a snapshot of the text | init, mount, update, open, read, close, list | directories are those of the live processes, the global files stay |
| VFS `vfs.c` | table of mounts, table of descriptors | mount, umount, find_mount, open, close, seek | a path is answered by the longest mounted prefix and by nothing unmounted |
| BlockSEC `blocksec.c` | rules, domains, labels, mode, counts, ring of log entries | set_mode, add/remove rule, add domain, set label, transition, check, get_log | a change of the rules does to every request what it is for, and the log is the truth |
| ext4 `ext4.c` | an open file on an inode with extents | open, read, write, seek | a read delivers the bytes of the file |
| Text editor `texteditor/blockedit.c` | array of lines, cursor, modified | insert, delete, move, find, open, save | the array of lines is a text, while the cursor is in it |
| Debugger `debug/blockdbg.c` | breakpoints patched into memory, ring of log entries | add/remove breakpoint, log, get_log | code comes back after its breakpoints |
| Virtual memory `kernel/vmm.c` | directories and page tables, on the heap | init, map, unmap, get_phys, switch, create_dir | a page translates to what it was mapped to, in every directory |
| Terminal `terminal/guiterm.c` | rows of cells, cursor, window on the rows, input line | put character, print, scroll, clear, key | the line before the cursor is the line the shell gets, and output comes into view |
| Animations `animation.c` | table of slots with callbacks | start, stop, stop_all, tick | every animation ends, and whoever asked is told |
| Context menu `contextmenu.c` | items with callbacks, box, highlight | init, add, show, hide, mouse | a click calls what is drawn under it |
| Network `network/network.c` | table of sockets | create, bind, connect, close (send and receive change nothing) | a new socket has nothing of the slot's former ones |
| System monitor `sysmonitor/blocksysmon.c` | two rings of samples under one index | update, draw_graph | the graph ends in the newest samples, in order |
| Text functions `kernel/generic.c` | the chained buffer of a caller, strtok's static pointer | snprintf, strtok | what fits is what was said; every part once |
| Taskbar, boot, drawing, audio, USB, ACPI, package manager, file manager, tools | tables nothing fills, or none | | (not modelled, section 7) |

How they interact: a timer interrupt is what would call `scheduler_tick` (neither
handler does); `audio_beep` sleeps; pipes, queues and segments are used by system
calls; shared memory, `/proc`, windows and files allocate from the one heap;
VFS forwards to ramfs, ProcFS and ext4; BlockSEC opens its policy through VFS;
`kernel_loop` alternates the window manager's two entry points; keys end in the
terminal, which any part of the system prints to meanwhile; `/proc` chains
`snprintf` and every path goes through `strtok`. Animations and menus call back
into whoever uses them, and these call the tables again.

What is hard here, and hard to test:

* *interrupts* between a load and a store of shared state (keyboard ring, the
  two halves of the tick counter, the window between the sleeper's test and its
  `hlt`);
* *indexes and pointers that outlive what they name*: `focused_window` and
  `drag_window` into an array that is sorted and shifted, slots of tables that
  are given out again with their old contents, open files on deleted inodes;
* *callbacks* that use the table that is being walked: `on_update` restarts the
  slot whose step is being taken, a menu item shows another menu;
* *holes*: the run queue is not compacted and adds overwrite;
* *32-bit counters* that wrap and are reduced modulo a ring size, differences of
  unsigned numbers;
* *partial failure*: a write that stores a prefix, an open that has created the
  file, a mount or a segment whose `malloc` failed;
* *a heap that never takes anything back*, under a loop that allocates for ever.

## 2. The modules

Abstract specifications:

* `BoundedFifo`: open channels, each a queue of at most Capacity items; a write
  appends the longest prefix that fits and tells whether that was everything.
  Implemented by `Pipe` and by `MsgQueue`.
* `LossyFifo`: a queue that drops what arrives when it is full. Implemented by
  `Keyboard`.
* `PlainText`: a text with a cursor, and what keys may do to it: put a character
  or a run of spaces in at the cursor, take out the one before it (of two lines
  joined so, what fits into one is kept), move the cursor. Implemented by `Editor` while
  the cursor is in the text.

Components (state names are those of the code unless noted):

* `Scheduler`: `queue`, `head`, `tail`, `count` are `g_queue...`; the tail is kept
  modulo the ring size, which divides 2^32. Each call is one action, since
  nothing preempts them. `scheduler_next` is a function of the state: the
  READY slots by distance from the head, of these the first (round robin, MLFQ)
  or the first of highest priority. `Reschedule` is the switch shared by an
  expired tick and by a yield. `ProcessExit` is process.c's. `KeepsTicking` is the
  premise of the liveness properties.
* `Pipe`, `MsgQueue`: one record field per variable, indexed by the slot.
  `reply` holds what the last call returned, so that the refinement is about
  answers as well as contents. Calls with handles off by one at both ends are
  included.
* `Heap`: `malloc`'s test, bump and rounding as the operator `Allocate`;
  `Shmem` and `Procfs` are modules on it. `Shmem!Malloc` stands for all other
  allocations; `blocks` records the blocks handed out.
* `Procfs`: a directory's linked list is a sequence, newest first. `procfs_update`
  is one action of two loops, one that drops the directories and one over the
  process table that makes them, as far as the heap goes.
  The formatted texts are cut down to whose text it is.
* `Keyboard`: the handler is one action (interrupts are off in it);
  `keyboard_getchar` is four, one per access of shared memory: the call, the
  poll, the fetch of the character, the advance of the head.
* `Timer`: the sleeper loads `g_ticks` in two halves, in either order, computes its
  end, compares, and halts. Between any two of these an interrupt may be answered,
  by the driver's `timer_irq_handler`, which counts, or by `irq0_handler` of
  `boot/idt.c`, which counts in a `g_ticks` of its own (`kernel/generic.c:277`) that no
  sleep reads. `asked` is the ticks in the milliseconds of the call, `need` what line 20
  computes in 32 bits.
* `BlockWM`: the array is a sequence; `focused` and `drag` are places in it and
  not windows. `Next` follows `kernel_loop`: a mouse step, then a composite, for
  ever, and applications open windows in between. `BubbleSort` is the
  compositor's sort step by step, because its stability is in question.
* `Ramfs`: inodes are numbered and never reused, because `free` does nothing.
  `list` is the children/next list, newest first. Each call is one action,
  with the failure of malloc where it leaves something behind.
* `Vfs`: paths are sequences of characters, since the code compares prefixes and
  not components. What a file system answers is a free choice.
* `RingLog`: the log ring that `blocksec.c` and `blockdbg.c` both have;
  `Blocksec` and `Debugger` are modules on it. `recent` is a history variable.
* `Blocksec`: the default policy is the code's. `blocksec_check` is what the
  caller is told, `Check` what it leaves in log and counts. The mode may be any byte,
  of which those without a name behave alike (`"other"`).
* `Editor`: `lines` is the whole array, lines behind the text included. The flat
  text and the place of the cursor in it, which the refinement maps to, are
  recursive functions over the lines. Edits are made wherever the cursor is, as in the
  code: in the text, behind the NUL of a line (`NewlineBehind`, `RunBehind`) or in lines
  out of use. A call that copies a negative number of bytes or leaves the array ends the
  model (`lost`), since nothing bounds what follows.
* `Ext4`: one open file; `got` and `from` are history variables. What is left of the
  file is cut to 32 bits, as in line 165.
* `Debugger`: `memory` maps addresses to a byte of code or the trap.
* `Vmm`: memory in words, on `Heap`; a directory entry keeps the page bits of
  its table's address only, as the code does, so that what is read depends on
  where malloc put the table. Looking up is by address, offset in the page included:
  `Translation` is what the code answers for each, `Misjudged` the bytes for which
  `vmm_is_mapped` is wrong. After a table came to lie off its page (`Aligned`
  is false) nothing more is modelled.
* `Animation`: `anim_tick` is a small state machine, because it calls out in
  the middle of a slot's step: `phase` and `at` say where it is, and starts and
  stops are possible there. `ended`, `halted`, `replaced`, `reported` are history. The
  easings are computed in parts of which `ONE(duration)` make the whole, so that they
  are exact for every duration.
* `ContextMenu`: the loop over the items with its running row, `phase` for the
  callback that runs inside a click.
* `Terminal`: the functions of `guiterm.c` on one record, composed as the code
  composes them. `whole` is true while nothing but keys touched the line.
* `Text`: a format is the sequence of its directives with their arguments;
  `snprintf` as chained by `read_pid_fd`, with the length it returns and what is
  left of the buffer; numerals digit by digit, for every number and both bases;
  `strtok` with its static pointer.
* `Sockets`: the table; `stale` (history) is what was set in a slot without a socket.
* `Sysmon`: the two rings of samples; readings without memory are among them.

Modules for checking: `MCKernel`, `MCIpc`, `MCLive`, `MCDesktop`, `MCHeap`,
`MCRamfs`, `MCServices`. Components that share no state are put side by side in
one module with a variable that says which of them a behaviour is about (`part`,
`table`, `client`, `mix`): a step of the one commutes with every step of the other, so
interleaving them would multiply the states and show nothing. The conditions on
the constants of an instanced module are asserted by the module that instances it.

Modules with proofs: `RingFacts` (arithmetic of `%` on rings, least elements,
loops), `KernelProofs` (scheduler, text functions), `IpcProofs` (pipes and queues),
`LiveProofs` (keyboard, timer, animations), `HeapProofs` (shared memory, page
tables, `/proc`), `RamfsProofs`, `DesktopProofs` (windows, terminal, menu, editor),
`ServicesProofs` (access control, debugger and the log ring, monitor, VFS, sockets,
ext4). Loops whose result is proved about (the compositor's sort, the print of a
text, the walk along a path, the 1024 mappings of `vmm_init`, the update of `/proc`,
the lines of the editor, the directives of a format, the digits of a numeral) are
functions of the number of turns, like `after[i]`.

## 3. The runs

| run | what it asks |
|---|---|
| `kernel_calls` | every order of scheduler calls; texts that are formatted and split |
| `live` | what must eventually happen: scheduler, keyboard, timer, animations |
| `ipc` | pipes and queues implement the bounded FIFO |
| `desktop` | windows under the kernel's loop, the terminal, the context menu, the editor |
| `wm_drag` | *violated:* the window that was grabbed is the one that moves |
| `ramfs` | tree, counters and open files |
| `ramfs_free` | *violated:* the free space is at most the total |
| `heap` | /proc, shared memory and page tables on a heap up to its last byte |
| `procfs_dirs` | *violated:* after an update every live process has its directory |
| `vmm_identity` | *violated:* after `vmm_init` the first table's pages map to themselves |
| `services` | access control and audit log, VFS, ext4, debugger, monitor, sockets |
| `ext4_extents` | *violated:* reads deliver the file wherever its extents are |

### What the passing runs show

* **kernel_calls.** `g_queue_count` never falls below the slots in use
  (`CountCoversQueue`), so that the early return on zero is right; only removals make
  holes and only holes let an add overwrite an entry (`OnlyRemovalsMakeHoles`; that it
  then does is not in question); a part-used quantum belongs to the current process only
  (`FullQuantumAtDispatch`), though it is refilled at the switch out; each rotation of
  the head comes closer to every entry it passes by (`RoundRobinAdvances`). A process
  that is blocked or dead and not on the processor stays away from it until it is
  unblocked (`OffStaysOff`): line 73 makes READY again only the process that is being
  switched out, which is the exception the property makes. Beside that, chained
  `snprintf` calls leave the longest prefix that fits, numbers read back, and `strtok`
  gives every stretch between delimiters once (`TextAsPromised`).
* **live.** While somebody goes on calling `scheduler_tick`, a process that stays queued
  and READY gets the processor again and again in round robin (`NoStarvationRR`), and
  the one of top priority keeps it in priority mode (`TopPriorityWins`). Priorities of
  -1000 and below lose against the initial `best_prio` by the code's own choice; the
  instance stays above it. The keyboard's ring refines `LossyFifo`, which drops only
  when full, and the modifiers follow the keys that are held, also past dropped ones
  (`KeysInOrder`); what entered is taken (`NoKeyStuck`). While the driver's handler goes
  on being called, every sleep returns (`SleepReturns`). With the handler of
  `boot/idt.c`, the only one with a gate in `idt_init`, a sleep of 10 ms or more never
  does, and `audio_beep` (`audio.c:20`) would not come back. A sleep does not return
  before its time (`SleepLongEnough`), unless a tick carried into the high half between
  the two loads, which happens at most every 497 days, or `ms*TIMER_HZ` runs over 32
  bits, from 42,949,673 ms (12 hours) on: then it lasts for the rest of the product. An
  animation ends or is stopped, whatever callbacks start and stop in between
  (`EveryAnimationEnds`); `on_complete` is called for each that reached its end, and at
  its end, except where its last `on_update` put another into its slot, and for nobody
  else but one its own `on_update` stopped (`EndsAreReported`).
* **ipc.** Refinement of `BoundedFifo` (`PipeIsFifo`, `QueueIsFifo`), through
  partial writes, full and empty rings, wrapped counters, refused calls,
  closed and reused slots; `RingConsistent` relates the three counters.
* **desktop.** The focus is never lost while there are windows (`SomeWindowFocused`),
  the clicked window is in front after the next composite (`ClickedInFront`), only
  the clicked window closes and the sort is stable (`WindowsKept`). Between the
  prompt and the cursor stands the line in the buffer as long as only keys touch it, over
  the end of a row too (`InputBeforeCursor`; the exceptions are a backspace at the start
  of a row and the last row of the buffer, where the code does not move). Behind the
  cursor the characters erased by a backspace are still drawn, since `guiterm.c:33` only
  moves the cursor; nothing is said of these cells. Whatever prints into a
  new row brings it into the window (`OutputIsInView`). A click calls the item that
  is drawn under the pointer, through separators, items added while the menu is
  open, and callbacks that change the menu (`ClicksRunWhatIsDrawn`). While
  the cursor is in the text, the editor's array of lines follows `PlainText` and no call
  leaves it (`EditsPlainText`); only finding and opening take the cursor out, and what
  is typed there may be stored where nobody sees it, which is the code's way and not in
  question.
* **ramfs.** Every entry is in its parent's list once and the counts are of those
  listed, also below deleted directories (`CountersMatchTree`); a delete unlinks
  what its path names, and a created entry is what its path finds, hiding an
  older one of its name (`PathsLeadRight`); no position is beyond its file and
  no unwritten byte is readable (`OnlyWrittenIsRead`); no byte changes but under a
  write across it (`BytesKept`).
* **heap.** Updates keep the global files and make the directories of exactly the live
  processes, unless the heap is used up (`UpdateFollowsProcesses`); blocks are disjoint
  and in the heap, and segments in use are blocks of their own (`OwnersApart`). With
  every table on a page, each byte of a page translates to that of the frame it was
  mapped to last, in the kernel's directory and in the copies, and each byte of another
  page to its offset, or to 0 if there is no table: `vmm_get_phys` puts the offset in
  whatever the entry (`vmm.c:54`). So `vmm_is_mapped` is wrong for every byte but the
  first of an unmapped page that has a table, and for the first of one on frame 0, and for no other
  (`TranslatesAsMapped`).
* **services.** Each change of the rules works in one direction only, in every mode
  (`RulesWorkOneWay`); a label can be changed in a full table and concerns one process
  (`LabelsStick`). Readers of both logs get the newest entries in order, across both
  wraps, and counts and log agree; the monitor's graphs end in the newest samples, as
  many as the index counts since it last was zero (`LogsAreRecent`). That is all of the
  graph but for the first 60 samples and, since 60 does not divide 2^32, the 60 after a
  wrap of `hist_idx`: then the cells further left are not those of the samples before,
  which is what the code does. What a path resolves to changes only with a mount at or
  below the one that answered, or with its end, and `vfs_umount` ends the one that
  answered (`ResolutionFollowsMounts`); descriptors are not shared (`DescriptorsApart`).
  Files in one run are read right (`OneRunIsReadRight`). A single breakpoint at an
  address is exact, and with several the oldest holds the code (`CodeComesBack`). A new
  socket is bound or connected only if its empty slot was, by one of the calls that do
  not ask (`network.c:133-146`), after it was last closed (`NothingInherited`).

The type of every variable is an invariant of `Scheduler` and `Pipe`, which is
proved; in the other components it is part of the inductive invariant of their
proofs.

### What the violated runs show

1. `wm_drag`: `drag_window` points into the array (`blockwm.c:325`, "Start drag").
   Focusing the grabbed window raises it, the next composite sorts it into another
   slot, and the held button moves the window that came into its place.
2. `ramfs_free`: `ramfs_create_default_structure` gives files data and does not add
   it to `used_size`; deleting one subtracts it (`ramfs.c:294`), `used_size` wraps
   below zero and `ramfs_get_free_space` ("Szabad hely", free space) exceeds the
   total.
3. `procfs_dirs`: `procfs_update` ("PID könyvtárak frissítése", refreshing the PID
   directories) allocates six entries per process in every turn of the main loop and
   its frees give nothing back. When the heap is used up it still unlinks the
   directories and does not make them again.
4. `vmm_identity`: `vmm_map` writes the address of a new table into the directory
   without its low twelve bits (`vmm.c:35`), but malloc aligns to 4 bytes. A table
   off its page is written from the page's start on, over the directory, and the
   first 4 MB are not the identity that `vmm_init` sets up ("Identity map első
   4MB", of the first 4 MB). Nothing in the repository calls `vmm_init` yet.
5. `ext4_extents`: the inner loop of `ext4_read` ("Extent alapú olvasás", reading
   based on extents) ends only with the size: at the end of an extent it goes on
   with the next block of the disk instead of the next extent of the file.

## 4. Bounds

* Scheduler: three processes on a ring of three with a quantum of two (one tick
  inside a quantum and one that ends it), priorities 5, 1 and -1000, the floor
  at which priority mode picks nobody; two processes for the liveness run. Three
  slots give holes before, behind and between entries.
* Text functions: three chained `snprintf` calls (`MAX_APPENDS`) into six bytes,
  formats with every conversion and numbers of one to three digits in both bases,
  strings of up to four characters.
* IPC: two pipes of two cells and writes of up to three bytes (none, part or all
  fits; one never fits), two queues of two messages with a payload limit of one
  byte and payloads of two; counters of four values wrap after two turns.
* Keyboard: three cells, of which one stays free; every modifier, one key with a
  character and one without, at most two held at once (`MAX_HELD`). Timer: a low half of
  three values, sixteen ticks, sleeps of 0 to 3 ticks and one of 5 whose product wraps
  to none. `MAX_TICKS` stops the counter, a sleep starts only if it can end before (also
  one turn late, after a torn load), and at most one interrupt falls between two steps
  of a running sleeper, which takes a few instructions in 10 ms.
* Animation: two slots, three starts (`MAX_STARTS`), so that a slot is used again
  and a callback starts in its own; the
  durations of the code, 200 and 250 ms (`animation.c:67-69`), in ticks of 70 ms, and one
  of none; four easings, with and without `on_complete`.
* BlockWM: three slots for four windows, z orders up to six.
* Terminal: two columns, a window of two rows on a buffer of three, an input of two
  characters, so that a line wraps, the window follows and the last row is
  reached. Context menu: three entries of two callbacks, none and separators; every row
  of the box and around it. Editor: three lines of two characters and their end, one
  character to type, moves of one each way, a tab of two.
* Ramfs: two names, paths of up to three names; mix `tree` creates two nodes next
  to the three of the default structure, mix `data` has two open files of up to
  three bytes. Handles are symmetric.
* Heap: 100 bytes with entries of 4: the directories of three turns with one process, or
  of one with two and one with one, and a part of another; segments of sizes around the
  rounding and around the heap's end; a directory of four entries, one copy (`MAX_DIRS`)
  and its tables, but not all of them.
* Services: 12 rules of which 10 are the default policy, three processes and two
  labels, five decisions in a ring of two whose counter wraps at four; three
  mounts and two descriptors; blocks of three bytes and files of five and six, with
  sizes counted modulo six; three
  breakpoints at two addresses; graphs of three samples under an index that wraps at
  eight, which three does not divide as 60 does not divide 2^32; three sockets.

No run disables the deadlock check: each system has a call that can always be made.

## 5. Fairness

The code guarantees little, since much of it has no caller, and so little is assumed:

* `scheduler_tick`: no fairness. No interrupt handler of the repository calls it.
  `NoStarvationRR` and `TopPriorityWins` have `KeepsTicking` (it is called again and
  again as long as it can be) as their premise; no other call is assumed.
* The timer's handlers: no fairness. `SleepReturns` has as its premise that
  `timer_irq_handler` is called infinitely often. Weak fairness is assumed of the
  sleeper's own steps: its processor runs.
* Keyboard: weak fairness of the reader's next step. The processor runs, and the
  reader is one that calls again after each key. No key is assumed to be pressed.
* Animations: weak fairness of the steps of `anim_tick`: somebody goes on calling
  it and callbacks return. No start, stop or choice of a callback is assumed.

In `MCLive` the last three are the weak fairness of `GoesOn`. Neither `keyboard_getchar`
nor `anim_tick` has a caller in the repository: `NoKeyStuck` and `EveryAnimationEnds` are
about what the code does for one who calls it in a loop.

All other specifications have no fairness and only safety properties.

## 6. What is proved

Checked by TLAPS for all values of the constants that satisfy the named assumptions; the
sizes of the code are one such choice, and TLC evaluates the assumptions on the instance
of every run. They are `QSizeAssumption`, `TimeSliceAssumption`, `NullAssumption`,
`PriorityAssumption` of the scheduler and `KernelAssumption` of the text functions;
`PipesAssumption`, `RingAssumption`, `ByteAssumption`, `CallsAssumption` of the pipes
and `IpcQueueAssumption` of the queues; `BufferAssumption`, `KeyAssumption`,
`ModifierAssumption` of the keyboard and `LiveAssumption` of timer and animations
(whatever the durations); `HeapAssumption`, `ProcfsAssumption` and
`HeapClientsAssumption` (segments, page tables); `RamfsAssumption`; `WindowsAssumption`,
`NoneAssumption` and `DesktopAssumption` (terminal, menu, editor); `ServicesAssumption`.
They ask for sizes above zero, for wrapping counters that a ring size divides, and for
values that are told apart. The theorems about the heap have a hypothesis besides,
`NoneWraps`: no caller asks for a size at which the 32-bit sum in malloc's test wraps.
It is needed: beyond it malloc lets through what is not there.

| theorem | states |
|---|---|
| `KernelProofs!TypeCorrect` | `Spec => []TypeOK` of the scheduler |
| `CountCovers` | `Spec => []CountCoversQueue` |
| `FullQuantum` | `Spec => []FullQuantumAtDispatch` |
| `RoundRobinFair` | `Spec => RoundRobinAdvances` |
| `OffIsOff` | `Spec => OffStaysOff` |
| `RemovalsMakeHoles` | `Spec => OnlyRemovalsMakeHoles` |
| `TextsAreRight` | `KernelSpec => []TextAsPromised` of the text functions |
| `IpcProofs!PipeTypeCorrect` | `Spec => []TypeOK` of the pipes |
| `PipeCountersAgree` | `Spec => []RingConsistent` |
| `PipeRefinesFifo` | `Spec => PipeIsFifo`: the ring implements the bounded FIFO |
| `QueueRefinesFifo` | `IpcSpec => QueueIsFifo`, the same of the message rings |
| `LiveProofs!ReaderIsSafe` | `Spec => []ReaderSafe`: what the reader has polled stays under the head |
| `KeysArriveInOrder` | `Spec => KeysInOrder`: handler and reader implement the lossy queue, and the modifiers follow |
| `SleepsAreLong` | `T!Spec => SleepLongEnough` |
| `EndsReported` | `A!Spec => []EndsAreReported` |
| `LiveIsSafe` | `LiveSpec =>` the three of keyboard, timer and animations |
| `HeapProofs!SegmentsApart` | `NoneWraps => (HeapSpec => []OwnersApart)` |
| `PagesTranslate` | `NoneWraps => (HeapSpec => []TranslatesAsMapped)` |
| `ListFollowsProcesses` | `NoneWraps => (HeapSpec => UpdateFollowsProcesses)` |
| `RamfsProofs!CountersAgree` | `Spec => []CountersMatchTree` |
| `WrittenIsRead` | `Spec => []OnlyWrittenIsRead` |
| `OnlyWritesChange` | `Spec => BytesKept` |
| `PathsRight` | `Spec => PathsLeadRight` |
| `DesktopProofs!FocusHolds` | `Spec => []SomeWindowFocused` of the window manager |
| `ClickedIsInFront` | `Spec => []ClickedInFront` |
| `NoWindowLost` | `Spec => WindowsKept` |
| `LineBeforeCursor` | `DesktopSpec => []InputBeforeCursor` |
| `OutputComesIntoView` | `DesktopSpec => OutputIsInView` |
| `ClicksRunDrawn` | `DesktopSpec => ClicksRunWhatIsDrawn` |
| `EditingIsPlain` | `DesktopSpec => EditsPlainText`: the array of lines follows the plain text, while the cursor is in it |
| `ServicesProofs!ChangesWorkOneWay` | `Spec => RulesWorkOneWay` of access control |
| `LabelsAreTheirOwn` | `Spec => LabelsChangeAlone`, the safety half of `LabelsStick` |
| `CodeIsRestorable` | `D!Spec => []CodeComesBack` of the debugger |
| `ResolutionRight` | `V!Spec => ResolutionFollowsMounts` of VFS |
| `DescriptorsStayApart` | `V!Spec => DescriptorsApart` |
| `SocketsInheritNothing` | `N!Spec => NothingInherited` |
| `RunsAreReadRight` | `ServicesSpec => []OneRunIsReadRight` |
| `RingsAreRecent` | `ServicesSpec => []LogsAreRecent`, from `AuditIsRecent`, `LogReadsRecent`, `GraphsAreRecent` of the three rings |

A theorem about `KernelSpec`, `LiveSpec`, `IpcSpec`, `HeapSpec`, `DesktopSpec` or
`ServicesSpec` speaks of the module that puts components side by side, which is
what the runs check; it follows from the components' own by lemmas that a step of the
composition is one of each component or leaves it alone (`LivePartsRun`,
`TablesApart`, `DesktopPartsRun`, `PartsRun`). `Spec` is the component that the
composing module extends, `T!Spec` and the like one that it instances.

The arguments:

* *Loops.* What a loop computes is a recursive function of the number of turns.
  `LoopExists` shows from the well-foundedness of the naturals that such a
  function exists, so that its CHOOSE denotes it, and `LoopInvariant` that what
  one turn keeps holds after any number of them. Every proof about a loop has
  the same three parts: the turn stays within the states, the function exists,
  the invariant of the loop.
* *Scheduler.* `TypeOK` is inductive by itself; the lemma `NextPick` (whatever
  `scheduler_next` returns is a READY queued process, or none) carries the two
  actions that switch. `CountCoversQueue` is inductive together with `TypeOK`:
  an add fills at most one slot and adds one to the count, a remove clears one
  slot that was in use and subtracts one, and no other call touches either (the
  finite set theorems do the counting). `FullQuantumAtDispatch` is inductive
  with `TypeOK`, because the switch refills the slice of the process it leaves.
  For `RoundRobinAdvances` there is no invariant beyond `TypeOK`: `PickAdvances`
  shows that the slot picked is the nearest READY one, so that for any other
  READY slot the distance from the new head is smaller; the work is arithmetic
  of `%`. `OffStaysOff` rests on the same `NextPick`. `OnlyRemovalsMakeHoles`
  asks what an add does to a run of slots that ends before the tail: with room
  it extends the run by the slot at the tail, and without it changes nothing.
* *Pipes.* `RingConsistent` is inductive with `TypeOK`. The refinement then goes
  call by call: `WriteAppends` (the cells a write fills are those behind the
  contents, and none of the contents are overwritten, because two cells less
  than a turn apart differ, `IndexInjective`), `ReadTakes` (a read takes a
  prefix and shifts the rest), creation and closing. `ContentsLocal` says that a
  pipe's contents depend on its own fields only, so that the others stay. Every
  step is the abstract step of the same name, or one that leaves open, q and
  reply as they are. That the ring size divides the counter's width is needed
  exactly in `IndexIsMod`: the wrap of the 32-bit counter is invisible in the
  ring.
* *Message queues.* The same argument with one cell per call: `SendAppends`,
  `RecvTakes`, and the invariant that the tail is count steps after the head.
* *Keyboard.* `ReaderSafe` is what makes the unlocked ring work: from its poll
  to its advance the reader knows that head and tail differ, and the character
  it fetched is the one under the head; the handler keeps both, since it writes
  at the tail and never moves it up to the head. The refinement adds that what
  is pending is the cells from head to tail (`PendingIs`); a store appends to
  it, the advance takes the first, and all other steps leave it. The modifiers are an
  invariant of their own (`ModifiersKept`), of the keys that are down.
* *Timer.* The invariant says of a sleeper that has loaded the counter whole
  that what it got lies between the start of its sleep and now, and of one that
  has loaded it in two that are not of one moment that the high half changed in
  between, which is the exception the property names. So the end it computed is `need`
  ticks after its start or later (`DueIsLate`); and `need` is below the ticks asked for
  only when the product of line 20 ran over, which is the other exception
  (`SleptForAsked`).
* *Animations.* The number of a started animation is in one slot at most and below the
  count of starts (`NumbersDiffer`); one that ended stands at the end of its easing
  until it is reported (`EndedStand`), which is that every easing curve ends at the
  whole and stays within it on the way, for every duration (`EaseBounds`, with
  `BounceBounds` for its four pieces); and each that ended is reported, is about to be,
  or was replaced by its own step (`Accounted`).
* *Shared memory.* The invariant says of the blocks that each ends where the
  next begins or before, the last at or below `heap_ptr` (`RoundsUp`: rounding
  up does not move past a multiple of the alignment), that a segment in use is
  one of them, and that two of more than zero bytes are different ones: a new
  one begins at `heap_ptr`, an old one ended there (`OwnedBelow`).
* *Page tables.* As long as every table starts on a page, directories and tables
  are blocks of one page each, pairwise apart, below `heap_ptr`; a directory's
  entry is zero or the address of a table with its flags, two entries never lead
  to one table, and a table's words are what `mapped` says. `MapKeeps` shows
  this of one mapping, with or without room for its table; `vmm_init` is a loop
  of it. That address and flags do not disturb each other is arithmetic of 4096
  (`FrameBits`), and `MappedByte` and `TreeTranslates` read off what each byte of a page
  translates to, the offset that line 54 puts in without a mapping included.
* *ProcFS.* The list is always directories of processes in front of the global
  files (`Listed`). The first loop of an update removes exactly the former
  (`KeptGlobals`); of the second `TurnKeeps` shows turn by turn that the
  directories are of live processes among the slots looked at, none twice, and
  complete unless all the room is used, and then the heap has none for one more
  entry. Everything `/proc` allocates stays in the heap (`ProcfsBounded`).
* *RAM file system.* An inode is younger than its parent, so that no list leads
  back up and a walk along a path ends; an inode that is listed is in its
  parent's list and there once; counters count what is listed (`Counted`). Files
  and handles: every position is in its file, and no cell up to the file's size
  is junk. `FoundByWalk` says that what a path leads to is the end of a walk of
  lookups; a delete cuts the inode at its end from its parent's list, a create
  puts one in front, which the next walk finds first.
* *Windows.* One pass of the compositor's sort puts one more slot in place and
  never swaps equals (`PassOrders`), and the passes together are a stable
  rearrangement (`SortOrders`) of as many windows, under which the focused index, which
  the code leaves where it is, stays one of a window.
  The invariant adds to `SomeWindowFocused` that no two windows are one and that
  the clicked one is above all others (`ClickedHighest`), so that the sort puts
  it last.
* *Terminal.* Where a cell is is arithmetic of row and column; the invariant says that
  the cursor is in the buffer, that rows end at the cursor's row and the window begins
  before it, and that while only keys touched the line, its characters are the cells
  from its start up to the cursor. A print is a loop of characters, each of which moves
  the cursor one place on or to a new row, and a new row moves the window.
* *Context menu.* The running row that the loop of a click keeps is the row at
  which the same loop draws (`TurnSearches`), and no two items are drawn at one
  row, so that the one that runs is the one drawn there (`HitIsDrawn`).
* *Debugger.* `Restorable` says of the oldest breakpoint at an address that it
  holds the code's byte, of a lone one that memory shows whether it is active,
  and that an address without one is untouched; setting and removing keep each
  of the three.
* *Logs.* For both logs, `LogInv` says that `recent` is what the ring holds from
  `log_count` cells before the head on; `CellsDiffer` that the cell to be
  written is none of those that stay, `CellStays` that the wrap of the counter
  moves no cell. The counts of access control are those of the log while nothing
  has left it. The monitor's two rings have one index; their invariant (`GraphInv`)
  says of the last `hist_idx` samples, 60 at most, that each stands in the cell of its
  number, and starts again when the index wraps (`GraphDrawn`).
* *Access control.* A removal is a table less one rule (`ShiftedIsLess`), an
  addition the reverse (`AppendIsMore`), and of such a pair of tables
  `LessDecides` says which way decisions can change. Of the table of labels the
  invariant is that no two entries are of one process (`OneEach`), so that the
  entry a transition finds is the only one (`OnePlace`); replacing its type or
  adding a first entry changes the label of no other process (`LabelSet`).
* *VFS.* Of the mounts that are a prefix of a path there is at most one of each
  length, so that the longest is unique and exists if any does; a mount added or
  removed changes the answer only for paths it is a prefix of.
* *Sockets.* A slot without a socket is bound, or connected, exactly if that was done
  to it while empty: `stale` is those fields (`SocketStep`).
* *ext4.* For a file in one run the distance from a byte's place in the file to
  its place on the disk is the same in every extent (`Shift`), so that it does
  not matter which extent the inner loop thinks it is in. What is left of the file, cut
  to 32 bits, is never more than what is left.
* *Editor.* The text is what is before a line, the line, and what is behind it
  (`CutInTwo`), and lines that an edit leaves alone give the same text before and
  behind. So each edit is an edit of one line, or of two that are split or joined,
  between the same two texts: `InLineStep`, `NewlineStep`, `JoinStep`. Movements and the
  search change the place only (`PlaceStep`). The invariant, which the edits outside the
  text keep too, is that lines fit into their rows, that no more lines are in use than
  there are, and that the cursor's line is one of the array; `EditStep` is about the
  calls made with the cursor in the text.
* *Text functions.* What a call says, and what all calls say, is a flattening,
  and one more format is one more text at its end (`FlattenAppend`, `SaidAppend`). A
  text of two parts is cut part by part (`CutParts`), whether the cut falls into
  the first part, between them or behind both; so every directive that is put
  behind a cut text leaves a cut text (`PutIs`), every call does (`PrintIs`), and
  so does a chain of them (`PrintAppends`). Numerals go by strong induction, as a
  least counterexample: dividing leaves a smaller number (`DivDescends`), and the
  value of a numeral with one more digit is base times the value plus the digit
  (`ValueAppend`). For `strtok` the invariant is that the pointer is behind a
  delimiter, or at either end of the string, and that the tokens given are exactly the
  stretches that start before it (`SplitSoFar`); the next token is the only
  stretch that starts up to the new place (`NewStartTo`), or there is none left
  (`NoMoreTo`).

Only model-checked:

* `NoStarvationRR`, `TopPriorityWins`, `NoKeyStuck`, `SleepReturns`,
  `EveryAnimationEnds`: liveness under fairness, out of the prover's reach;
* the half of `LabelsStick` that says with `ENABLED` that a call can be made;
* the five properties of the runs that find a violation.

## 7. What is not modelled

* *Parts of modelled components*: positions, sizes and drawing of windows;
  `blockwm_resize_window`, `timer_register_callback` and `ramfs_load_initrd`, which
  nothing calls; permissions and times of inodes; the text of `/proc` files; ext4's
  path lookup and its on-disk structures (creation, unlinking and bitmaps are
  stubs); FAT32 (not in the repository).
* *Undefined behaviour that nothing bounds*: what follows an edit that leaves the array
  of lines. `edit_find` and `edit_open` leave the cursor outside the text; the edits there
  are in the model up to the first that copies a length below zero or writes beside the
  array, which sets `lost` and ends it. Sizes near 2^32 make `malloc`'s test wrap; no
  caller asks for one.
* *A second file system of a kind*: `ramfs_init` keeps the file system initialised last in
  one `g_ramfs`; only `vfs_mount_ramfs`, which nothing calls, would initialise a second.
* *Of the newer models*: the history of the terminal, which nothing reads, and
  the shell, whose commands are empty; the processor's control registers and TLB; the
  rounding of the easing curves' floats; packets (sending and receiving are stubs that
  count). `snprintf` knows no widths: of `%08x`, `%02llu` and `%7u`, which callers
  use, it prints no number, takes no argument and shifts the following ones; the
  formats of the model are written as the code reads them.
* *Code that is reached by nobody and changes nothing the models keep*: the callbacks of
  the timer, the programming of its chip, the kernel's own tick counter, which only time
  stamps and clocks read.
* *Whole components*, with the reasons in `PROJECT.json`: the taskbar (a table
  nothing fills, with flags nothing reads), boot and descriptor tables, drawing and
  effects, audio, USB and ACPI (port writes), package manager and
  file manager (displayed lists), tools (sequential programs of the host).

## 8. Plan

Written so far, in this order: scheduler and its proofs; pipes, queues, the
abstract FIFO and the proof of refinement; keyboard and timer; window manager;
ramfs; heap and shared memory; ProcFS; VFS, BlockSEC, editor, ext4, debugger; page
tables, animations, terminal, context menu, text functions, monitor, sockets; the
proofs of all of these.

Next:

1. `Vfs` composed with `Ramfs` and `Procfs`: files opened through VFS are never
   closed (`vfs.c:97`), and a descriptor outlives its mount.
2. The taskbar's clicks with the window manager, once something fills its table.
