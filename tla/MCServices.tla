----------------------------- MODULE MCServices -----------------------------
(* Parts that share no state with each other, side by side: `part' says    *)
(* which of them a behaviour is about, so that their state spaces add up.  *)
(*                                                                         *)
(* policy  the rules and labels of Blocksec, with rules of a shared name,  *)
(*         a deny rule between allow rules, and a table with room for one  *)
(* audit   its decisions and their log, a ring of two that wraps           *)
(* vfs     three mounts of two file systems at /, at /a and at /ab, which  *)
(*         the code takes to be below /a, and two descriptors              *)
(* ext4    files in one run, in two extents that go on and in two that do  *)
(*         not, read in pieces of less and more than a block               *)
(* debugger  three breakpoints at two addresses                            *)
(* monitor  graphs of three samples under an index that wraps at eight     *)
(* sockets  three sockets                                                  *)
EXTENDS Blocksec

CONSTANTS VFS_MAX_MOUNTS, VFS_MAX_FDS, Paths, Fs, DevFs, Offsets, NULL,
          BLOCK, SIZE_WIDTH, Layouts, Sizes,
          DBG_MAX_BP, Address, TRAP, Levels, Pids,
          HIST_SIZE, INDEX_WIDTH, WIDTH, BYTE_WIDTH, PERCENT, Readings,
          NET_MAX_SOCKETS

VARIABLES part,
          mounts, mount_count, fds,
          file, position, got, from,
          memory, code, bp, dLog, dHead, dCount, dRecent,
          cpu_hist, mem_hist, hist_idx, samples,
          sActive, bound, connected, stale

MCRequests == {[pid |-> p, target |-> t, class |-> "FILE", perm |-> {m}] :
                 p \in Pid, t \in {PathType.home, PathType.sys}, m \in {"READ", "WRITE"}}
MCNewRules == {Rule("any_t", "any_t", "FILE", {"READ"}, TRUE, "user_home_rw"),
               Rule("user_t", "any_t", "FILE", {"READ", "WRITE"}, FALSE, "freeze")}
MCRemoved == {"user_home_rw", "user_no_sys_write", "freeze"}

MCPaths == {<<"/">>, <<"/", "a">>, <<"/", "a", "b">>}

V == INSTANCE Vfs

MCExtents == {<<[block |-> 0, len |-> 2, start |-> 5]>>,
              <<[block |-> 0, len |-> 1, start |-> 3], [block |-> 1, len |-> 2, start |-> 4]>>,
              <<[block |-> 0, len |-> 1, start |-> 7], [block |-> 1, len |-> 1, start |-> 2]>>}

MCLayouts == [size : {5, 6}, extents : MCExtents]

X == INSTANCE Ext4

D == INSTANCE Debugger WITH log <- dLog, log_head <- dHead, log_count <- dCount, recent <- dRecent

MCReadings == {[procs |-> 3, total |-> 40, free |-> 10], [procs |-> 52, total |-> 1000, free |-> 0],
               [procs |-> 30, total |-> 1000, free |-> 900],
               [procs |-> 1, total |-> 0, free |-> 0]}

M == INSTANCE Sysmon

N == INSTANCE Sockets WITH active <- sActive

ASSUME ServicesAssumption == /\ RingAssumption
                             /\ V!VfsAssumption
                             /\ X!Ext4Assumption
                             /\ M!SysmonAssumption
                             /\ N!SocketsAssumption

vfsVars == <<mounts, mount_count, fds>>
ext4Vars == <<file, position, got, from>>
debuggerVars == <<memory, code, bp, dLog, dHead, dCount, dRecent>>
monitorVars == <<cpu_hist, mem_hist, hist_idx, samples>>
socketVars == <<sActive, bound, connected, stale>>
servicesVars == <<part, vars, vfsVars, ext4Vars, debuggerVars,
                  monitorVars, socketVars>>

ServicesInit == /\ part \in {"policy", "audit", "vfs", "ext4", "debugger",
                             "monitor", "sockets"}
                /\ Init /\ V!Init
                /\ IF part = "ext4" THEN X!Init
                   ELSE file = NULL /\ position = 0 /\ got = << >> /\ from = 0
                /\ D!Init
                /\ part # "debugger" => \A a \in DOMAIN memory : memory[a] = "instr"
                /\ M!Init /\ N!Init

(* The audit has labels and modes, but only the rules it started with.     *)
Audit == \/ \E q \in Requests : Check(q)
         \/ \E m \in Mode : blocksec_set_mode(m)
         \/ \E pid \in Pid, name \in Entered : blocksec_transition(pid, name)

(* One part takes a step and every other one rests.                        *)
Only(p, action) ==
  /\ part = p /\ part' = p
  /\ action
  /\ p \notin {"policy", "audit"} => UNCHANGED vars
  /\ p # "vfs" => UNCHANGED vfsVars
  /\ p # "ext4" => UNCHANGED ext4Vars
  /\ p # "debugger" => UNCHANGED debuggerVars
  /\ p # "monitor" => UNCHANGED monitorVars
  /\ p # "sockets" => UNCHANGED socketVars

ServicesNext ==
  \/ Only("policy", ChangePolicy \/ Label \/ Lookup)
  \/ Only("audit", Audit)
  \/ Only("vfs", V!Next)
  \/ Only("ext4", X!Next)
  \/ Only("debugger", D!Next)
  \/ Only("monitor", M!Next)
  \/ Only("sockets", N!Next)

ServicesSpec == ServicesInit /\ [][ServicesNext]_servicesVars

(* The rings of the parts hand out what was put in last: both users of the *)
(* log ring the newest entries in their order, and the statistics of the   *)
(* access control agree with its log; and both graphs of the monitor the   *)
(* samples taken since its index last was zero.                            *)
LogsAreRecent == LogIsRecent /\ CountsMatchLog /\ D!LogIsRecent /\ M!GraphIsRecent

(* The properties of the parts, on their variables here.                   *)
ResolutionFollowsMounts == V!ResolutionFollowsMounts
DescriptorsApart == V!DescriptorsApart
OneRunIsReadRight == part = "ext4" => X!OneRunIsReadRight
ExtentsAreRead == part = "ext4" => X!ExtentsAreRead
CodeComesBack == D!CodeComesBack
NothingInherited == N!NothingInherited
=============================================================================
