------------------------------ MODULE RingLog ------------------------------
(***************************************************************************)
(* The log ring that blocksec.c and debug/blockdbg.c both keep: a cell for *)
(* each of the last LOG_SIZE entries, a 32-bit count of all entries ever   *)
(* logged, and the number of cells in use.                                 *)
(*                                                                         *)
(* recent is a history variable: the last LOG_SIZE entries, oldest first.  *)
(***************************************************************************)
EXTENDS Integers, Sequences, FiniteSets, SequencesExt

CONSTANTS LOG_SIZE,   \* BLOCKSEC_LOG_SIZE, DBG_LOG_SZ
          LOG_WIDTH,  \* values of a uint32_t, a multiple of LOG_SIZE
          NOENTRY     \* a cell of zeroes

RingAssumption == /\ LOG_SIZE \in Nat \ {0}
                  /\ LOG_WIDTH \in Nat \ {0}
                  /\ LOG_WIDTH % LOG_SIZE = 0

VARIABLES log, log_head, log_count, recent

logVars == <<log, log_head, log_count, recent>>

LogInit == /\ log = [i \in 0 .. LOG_SIZE - 1 |-> NOENTRY]
           /\ log_head = 0
           /\ log_count = 0
           /\ recent = << >>

LastOf(s, n) == SubSeq(s, Len(s) - n + 1, Len(s))

Counted(c) == IF c < LOG_SIZE THEN c + 1 ELSE c

Log(entry) == /\ log' = [log EXCEPT ![log_head % LOG_SIZE] = entry]
              /\ log_head' = (log_head + 1) % LOG_WIDTH
              /\ log_count' = Counted(log_count)
              /\ recent' = LastOf(Append(recent, entry), Min({LOG_SIZE, Len(recent) + 1}))

(* Mutant: from the cell after the oldest.                                 *)
CellOneOn(n, i) == ((log_head - n + i + 1) % LOG_WIDTH) % LOG_SIZE

(* The difference is a uint32_t and may have wrapped.                      *)
Cell(n, i) == ((log_head - n + i) % LOG_WIDTH) % LOG_SIZE

(* What get_log copies out to a buffer of max entries.                     *)
get_log(max) == LET n == Min({log_count, max})
                IN [k \in 1 .. n |-> log[Cell(n, k - 1)]]

-----------------------------------------------------------------------------
(* A reader gets the newest entries that fit its buffer, oldest first and  *)
(* each once, before and after the ring and the counter have wrapped.      *)
LogIsRecent ==
  \A max \in 0 .. LOG_SIZE + 1 :
    get_log(max) = LastOf(recent, Min({Len(recent), max}))
=============================================================================
