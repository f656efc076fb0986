------------------------------ MODULE Debugger ------------------------------
(***************************************************************************)
(* The debugger of debug/blockdbg.c: breakpoints that patch the code of    *)
(* the kernel, and its log.                                                *)
(*                                                                         *)
(* memory maps the addresses breakpoints are set at to their byte; code is *)
(* that byte before any breakpoint.  dbg_stack_trace and                   *)
(* dbg_dump_registers read the machine, and dbg_assert stops the kernel    *)
(* after logging: they log or change nothing.                              *)
(***************************************************************************)
EXTENDS RingLog

CONSTANTS DBG_MAX_BP,
          Address,
          TRAP,      \* 0xCC
          Levels, Pids

VARIABLES memory, code, bp

bpVars == <<memory, code, bp>>
vars == <<bpVars, logVars>>

(* A byte of the code may be a trap already.                               *)
dbg_init == /\ memory \in [Address -> {TRAP, "instr"}]
            /\ code = memory
            /\ bp = << >>
            /\ LogInit

Init == dbg_init

dbg_log(level) == \E pid \in Pids : /\ Log([level |-> level, pid |-> pid])
                                    /\ UNCHANGED bpVars

(* Mutant: the byte is saved after the trap is written.                    *)
SavedLate(addr) == TRAP

Saved(addr) == memory[addr]

(* bp_count is never decremented: DBG_MAX_BP breakpoints are set at most.  *)
dbg_add_breakpoint(addr) ==
  /\ Len(bp) < DBG_MAX_BP
  /\ bp' = Append(bp, [address |-> addr, active |-> TRUE, original_byte |-> Saved(addr)])
  /\ memory' = [memory EXCEPT ![addr] = TRAP]
  /\ UNCHANGED <<code, logVars>>

(* Also of a breakpoint that has been removed before.                      *)
dbg_remove_breakpoint(idx) ==
  /\ idx \in DOMAIN bp
  /\ memory' = [memory EXCEPT ![bp[idx].address] = bp[idx].original_byte]
  /\ bp' = [bp EXCEPT ![idx].active = FALSE]
  /\ UNCHANGED <<code, logVars>>

(* dbg_get_log, dbg_stack_trace, and the calls that are refused.           *)
Lookup == UNCHANGED vars

Next == \/ \E level \in Levels : dbg_log(level)
        \/ \E addr \in Address : dbg_add_breakpoint(addr)
        \/ \E idx \in 1 .. DBG_MAX_BP : dbg_remove_breakpoint(idx)
        \/ Lookup

Spec == Init /\ [][Next]_vars

-----------------------------------------------------------------------------
At(addr) == {i \in DOMAIN bp : bp[i].address = addr}

(* Where at most one breakpoint was ever set, the code traps while it is   *)
(* active and is as it was otherwise, however often it is removed.  With   *)
(* several at an address the oldest of them holds the code's byte and the  *)
(* others hold the trap: removing the oldest, once more if need be, always *)
(* brings the code back.                                                   *)
CodeComesBack ==
  \A addr \in Address :
    /\ Cardinality(At(addr)) <= 1 =>
         memory[addr] = IF \E i \in At(addr) : bp[i].active THEN TRAP ELSE code[addr]
    /\ memory[addr] \in {TRAP, code[addr]}
    /\ At(addr) # {} => bp[Min(At(addr))].original_byte = code[addr]
=============================================================================
