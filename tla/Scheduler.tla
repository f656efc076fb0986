------------------------------ MODULE Scheduler ------------------------------
(***************************************************************************)
(* The process scheduler, kernel/scheduler.c.                              *)
(*                                                                         *)
(* The run queue is a ring of QSIZE process pointers (256 in the code)     *)
(* that keeps HOLES: scheduler_remove only clears a slot, scheduler_next   *)
(* moves the head past the slot it picks without clearing it, and          *)
(* scheduler_add writes at the tail whatever the slot holds.  g_queue_tail *)
(* grows for ever in the code and is used only modulo 256, which divides   *)
(* 2^32; it is kept modulo QSIZE here, which is the same thing.            *)
(*                                                                         *)
(* Every call is one action: the kernel runs these functions without       *)
(* being preempted (nothing in an interrupt handler calls them).  The      *)
(* process table is process.c, which is not in the repository; what the    *)
(* scheduler uses of a process_t is its state, its time_slice and its      *)
(* priority, and process_get_current / process_set_current are `current'.  *)
(* g_tick and jiffies_used are counters nobody reads and are left out.     *)
(***************************************************************************)
EXTENDS Integers, FiniteSets

CONSTANTS Proc,        \* the processes of the process table
          NULL,        \* no process: an empty slot, or no current process
          QSIZE,       \* slots of g_queue (256)
          TIME_SLICE,  \* SCHED_TIME_SLICE (20)
          Priority     \* process_t.priority, which the scheduler only reads

ASSUME QSizeAssumption == QSIZE \in Nat \ {0}
ASSUME TimeSliceAssumption == TIME_SLICE \in Nat \ {0}
ASSUME NullAssumption == NULL \notin Proc
ASSUME PriorityAssumption == Priority \in [Proc -> Int]

VARIABLES mode,     \* g_mode
          queue,    \* g_queue
          head,     \* g_queue_head
          tail,     \* g_queue_tail % QSIZE
          count,    \* g_queue_count
          current,  \* what process_get_current() returns
          state,    \* process_t.state
          slice     \* process_t.time_slice

vars == <<mode, queue, head, tail, count, current, state, slice>>

ring == <<queue, head, tail, count>>

MinPriority == -1000    \* the initial best_prio of scheduler_next

Mode == {"RR", "PRIORITY", "MLFQ"}

ProcState == {"READY", "BLOCKED", "DEAD"}

Slots == 0 .. QSIZE - 1

(* The i-th slot scheduler_next and scheduler_remove look at.              *)
Slot(i) == (head + i) % QSIZE

Queued(p) == \E s \in Slots : queue[s] = p

Occupied == {s \in Slots : queue[s] # NULL}

Ready(p) == p # NULL /\ state[p] = "READY"

(* Mutant: the scan does not stop at the first hit.                        *)
LargestOf(S) == CHOOSE i \in S : \A j \in S : i >= j

SmallestOf(S) == CHOOSE i \in S : \A j \in S : i <= j

-----------------------------------------------------------------------------
(* scheduler_next: the process it returns and where it leaves the head.    *)

(* Mutant: every process in the queue will do.                             *)
QueuedOffsets == {i \in Slots : queue[Slot(i)] # NULL}

ReadyOffsets == {i \in Slots : Ready(queue[Slot(i)])}

(* Mutant: every process above the floor is as good as the best.           *)
FirstOffsets == {i \in ReadyOffsets : Priority[queue[Slot(i)]] > MinPriority}

BestOffsets ==
  LET eligible == {i \in ReadyOffsets : Priority[queue[Slot(i)]] > MinPriority}
  IN  {i \in eligible : \A j \in eligible :
           Priority[queue[Slot(i)]] >= Priority[queue[Slot(j)]]}

Candidates == CASE count = 0          -> {}
                [] mode = "RR"        -> ReadyOffsets
                [] mode = "PRIORITY"  -> BestOffsets
                [] OTHER              -> {}

scheduler_next ==
  IF Candidates = {} THEN NULL ELSE queue[Slot(SmallestOf(Candidates))]

(* Mutant: the head does not move.                                         *)
HeadStuck == head

HeadAfterNext ==
  IF Candidates # {} /\ mode = "RR"
    THEN (head + SmallestOf(Candidates) + 1) % QSIZE
    ELSE head

-----------------------------------------------------------------------------
Init == /\ mode \in Mode
        /\ queue = [s \in Slots |-> NULL]
        /\ head = 0
        /\ tail = 0
        /\ count = 0
        /\ current \in Proc \cup {NULL}
        /\ state = [p \in Proc |-> "READY"]
        /\ slice = [p \in Proc |-> TIME_SLICE]

(* scheduler_init called again: the queue forgets every process.           *)
scheduler_init(m) == /\ mode' = m
                     /\ queue' = [s \in Slots |-> NULL]
                     /\ head' = 0
                     /\ tail' = 0
                     /\ count' = 0
                     /\ UNCHANGED <<current, state, slice>>

(* Mutant: one entry too many fits.                                        *)
RoomOffByOne == count <= QSIZE

HasRoom == count < QSIZE

scheduler_add(p) == /\ HasRoom
                    /\ queue' = [queue EXCEPT ![tail] = p]
                    /\ tail' = (tail + 1) % QSIZE
                    /\ count' = count + 1
                    /\ UNCHANGED <<mode, head, current, state, slice>>

(* Mutant: the comparison with the process is dropped.                     *)
AnyOffset(p) == 0 .. count - 1

(* The scan stops after g_queue_count slots, holes included.               *)
FoundAt(p) == {i \in 0 .. count - 1 : queue[Slot(i)] = p}

scheduler_remove(p) == /\ FoundAt(p) # {}
                       /\ queue' = [queue EXCEPT ![Slot(SmallestOf(FoundAt(p)))] = NULL]
                       /\ count' = count - 1
                       /\ UNCHANGED <<mode, head, tail, current, state, slice>>

(* Mutant: the quantum is not refilled.                                    *)
NotRefilled == slice

Refilled == [slice EXCEPT ![current] = TIME_SLICE]

(* The quantum is over: refill it, pick, and switch if the pick is new.    *)
(* The process switched out is made READY whatever its state was.          *)
Reschedule ==
  LET next == scheduler_next IN
  /\ slice' = Refilled
  /\ head' = HeadAfterNext
  /\ IF next # NULL /\ next # current
       THEN /\ current' = next
            /\ state' = [state EXCEPT ![current] = "READY", ![next] = "READY"]
       ELSE UNCHANGED <<current, state>>
  /\ UNCHANGED <<mode, queue, tail, count>>

TickIdle == /\ current = NULL
            /\ current' = scheduler_next
            /\ head' = HeadAfterNext
            /\ UNCHANGED <<mode, queue, tail, count, state, slice>>

TickRunning == /\ current # NULL
               /\ slice[current] - 1 > 0
               /\ slice' = [slice EXCEPT ![current] = @ - 1]
               /\ UNCHANGED <<mode, ring, current, state>>

TickExpired == /\ current # NULL
               /\ slice[current] - 1 <= 0
               /\ Reschedule

scheduler_tick == TickIdle \/ TickRunning \/ TickExpired

(* time_slice = 0 and then scheduler_tick, which makes it -1: always over. *)
scheduler_yield == current # NULL /\ Reschedule

SetState(p, s) == /\ state' = [state EXCEPT ![p] = s]
                  /\ UNCHANGED <<mode, ring, current, slice>>

scheduler_block(p) == SetState(p, "BLOCKED")

scheduler_unblock(p) == SetState(p, "READY")

scheduler_set_mode(m) == mode' = m /\ UNCHANGED <<ring, current, state, slice>>

(* process.c ends a process: external, the scheduler is not told.          *)
ProcessExit(p) == state[p] # "DEAD" /\ SetState(p, "DEAD")

Next == \/ \E p \in Proc : \/ scheduler_add(p)
                           \/ scheduler_remove(p)
                           \/ scheduler_block(p)
                           \/ scheduler_unblock(p)
                           \/ ProcessExit(p)
        \/ \E m \in Mode : scheduler_set_mode(m) \/ scheduler_init(m)
        \/ scheduler_tick
        \/ scheduler_yield

Spec == Init /\ [][Next]_vars

(* Somebody goes on calling scheduler_tick.  In the repository only        *)
(* scheduler_yield calls it (line 82), and no interrupt handler does: this *)
(* is a premise of what needs it, and no part of the specification.        *)
KeepsTicking == WF_vars(scheduler_tick)

-----------------------------------------------------------------------------
(* Every variable stays in the range its C type and its uses give it.      *)
TypeOK == /\ mode \in Mode
          /\ queue \in [Slots -> Proc \cup {NULL}]
          /\ head \in Slots
          /\ tail \in Slots
          /\ count \in 0 .. QSIZE
          /\ current \in Proc \cup {NULL}
          /\ state \in [Proc -> ProcState]
          /\ slice \in [Proc -> 1 .. TIME_SLICE]

(* g_queue_count never falls below the number of slots in use, whatever    *)
(* the sequence of adds, overwriting adds, removes and rotations: so the   *)
(* early return of scheduler_next on a zero count (line 35) never skips a  *)
(* queued process.                                                         *)
CountCoversQueue == Cardinality(Occupied) <= count

(* A used-up part of a quantum belongs to the current process only: the    *)
(* quantum is refilled at the switch out (line 70) and not at the switch   *)
(* in, and still every process that is given the processor gets all of it. *)
FullQuantumAtDispatch == \A p \in Proc : slice[p] < TIME_SLICE => p = current

(* The queue is the g_queue_count slots before the tail, without a hole.   *)
Compact == Occupied = {(tail + QSIZE - i) % QSIZE : i \in 1 .. count}

(* Only scheduler_remove makes holes, and only through a hole can an add   *)
(* (line 19) overwrite an entry: as long as nothing is removed (and no     *)
(* code of the repository does), no call but a new scheduler_init loses a  *)
(* process, at the limit of the ring and across its wraps too.             *)
OnlyRemovalsMakeHoles ==
  [][Compact => \/ \E p \in Proc : scheduler_remove(p)
                \/ \E m \in Mode : scheduler_init(m)
                \/ Compact' /\ \A p \in Proc : Queued(p) => Queued(p)']_vars

(* A process that is blocked or dead and not on the processor stays away   *)
(* from it until somebody unblocks it, through every rotation, mode and    *)
(* table change.  Line 73 can make READY only the process that is being    *)
(* switched out: blocking it, or its death, is undone there when it still  *)
(* has the processor, and nowhere else.                                    *)
OffStaysOff ==
  [][/\ \A p \in Proc : state[p] # "READY" /\ state'[p] = "READY" =>
          scheduler_unblock(p) \/ (p = current /\ current' # p)
     /\ current' \notin {current, NULL} => state[current'] = "READY"]_vars

(* The slots scheduler_next looks at before it reaches s.                  *)
Distance(s) == (s - head + QSIZE) % QSIZE

(* Round robin overtakes fairly: a rotation that does not stop at a READY  *)
(* entry brings the head strictly closer to that entry, so each entry is   *)
(* passed over less than QSIZE times before its turn.                      *)
RoundRobinAdvances ==
  [][mode = "RR" /\ mode' = "RR" /\ head' # head /\ queue' = queue =>
       \A s \in Slots : Ready(queue[s]) =>
          \/ head' = (s + 1) % QSIZE
          \/ Distance(s)' < Distance(s)]_vars

(* As long as the ticks go on, a process that stays queued and READY under *)
(* round robin gets the processor again and again, whatever is added,      *)
(* removed, blocked or overwritten meanwhile.                              *)
NoStarvationRR ==
  KeepsTicking =>
    \A p \in Proc : <>[](mode = "RR" /\ Queued(p) /\ Ready(p)) => []<>(current = p)

(* As long as the ticks go on, in priority mode the process that outranks  *)
(* every other queued process ends up with the processor and keeps it.     *)
TopPriorityWins ==
  KeepsTicking =>
    \A p \in Proc :
      <>[](/\ mode = "PRIORITY" /\ Queued(p) /\ Ready(p)
           /\ \A q \in Proc \ {p} : Queued(q) => Priority[q] < Priority[p])
        => <>[](current = p)
=============================================================================
