------------------------------- MODULE Sysmon -------------------------------
(***************************************************************************)
(* The history graphs of sysmonitor/blocksysmon.c: two rings of HIST_SIZE  *)
(* samples at one 32-bit index, drawn whole, however many samples there    *)
(* are.  The index wraps at a number that HIST_SIZE does not divide.       *)
(*                                                                         *)
(* samples is a history variable: the last HIST_SIZE samples, oldest first.*)
(***************************************************************************)
EXTENDS Integers, Sequences, SequencesExt

CONSTANTS HIST_SIZE,     \* 60
          INDEX_WIDTH,   \* values of hist_idx
          WIDTH,         \* values of a uint32_t that holds an amount of memory
          BYTE_WIDTH,    \* 256
          PERCENT,       \* 100
          Readings       \* of the processes alive and the memory

SysmonAssumption ==
  /\ {HIST_SIZE, INDEX_WIDTH, WIDTH, BYTE_WIDTH, PERCENT} \subseteq Nat \ {0}
  /\ INDEX_WIDTH > HIST_SIZE
  /\ PERCENT < BYTE_WIDTH /\ BYTE_WIDTH <= WIDTH
  /\ \A r \in Readings : r.procs \in Nat /\ r.free \in 0 .. r.total /\ r.total \in 0 .. WIDTH - 1

VARIABLES cpu_hist, mem_hist, hist_idx, samples

vars == <<cpu_hist, mem_hist, hist_idx, samples>>

Cells == 0 .. HIST_SIZE - 1

sysmon_init == /\ cpu_hist = [i \in Cells |-> 0]
               /\ mem_hist = [i \in Cells |-> 0]
               /\ hist_idx = 0

Init == sysmon_init /\ samples = << >>

Clipped(n) == IF n > PERCENT THEN PERCENT ELSE n

(* Five percent for each process, in a byte before it is clipped.          *)
Cpu(r) == Clipped((r.procs * 5) % BYTE_WIDTH)

(* The product is a uint32_t, the quotient a byte; no memory is one byte.  *)
Mem(r) == LET total == IF r.total = 0 THEN 1 ELSE r.total
          IN ((((r.total - r.free) * PERCENT) % WIDTH) \div total) % BYTE_WIDTH

(* Mutant: the index is moved before it is used.                           *)
CellAfter(idx) == ((idx + 1) % INDEX_WIDTH) % HIST_SIZE

CellOf(idx) == idx % HIST_SIZE

Newest(s) == IF Len(s) > HIST_SIZE THEN Tail(s) ELSE s

sysmon_update(r) ==
  /\ cpu_hist' = [cpu_hist EXCEPT ![CellOf(hist_idx)] = Cpu(r)]
  /\ mem_hist' = [mem_hist EXCEPT ![CellOf(hist_idx)] = Mem(r)]
  /\ hist_idx' = (hist_idx + 1) % INDEX_WIDTH
  /\ samples' = Newest(Append(samples, [cpu |-> Cpu(r), mem |-> Mem(r)]))

Next == \E r \in Readings : sysmon_update(r)

Spec == Init /\ [][Next]_vars

-----------------------------------------------------------------------------
(* The line draw_graph draws, from the left; the difference wraps.         *)
draw_graph(data) ==
  [i \in 1 .. HIST_SIZE |-> data[((hist_idx - HIST_SIZE + i - 1) % INDEX_WIDTH) % HIST_SIZE]]

(* From the right, both graphs are the newest samples, newest first, as    *)
(* many as were taken since the start or since the index last was zero: up *)
(* to the whole width.  What is left of them is not said: after a wrap the *)
(* cells there are not those of the samples before it, and before the      *)
(* first HIST_SIZE samples some are drawn twice.  No sample leaves the     *)
(* graph's frame, also when the product overflows or there is no memory.   *)
GraphIsRecent ==
  /\ \A i \in 1 .. HIST_SIZE :
       i <= hist_idx =>
         /\ i <= Len(samples)
         /\ draw_graph(cpu_hist)[HIST_SIZE + 1 - i] = samples[Len(samples) + 1 - i].cpu
         /\ draw_graph(mem_hist)[HIST_SIZE + 1 - i] = samples[Len(samples) + 1 - i].mem
  /\ \A i \in Cells : cpu_hist[i] <= PERCENT /\ mem_hist[i] <= PERCENT
=============================================================================
