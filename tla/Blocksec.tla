------------------------------ MODULE Blocksec ------------------------------
(***************************************************************************)
(* The mandatory access control of blocksec.c: rules, domains, process     *)
(* labels, the decision on a request and its log.                          *)
(*                                                                         *)
(* A label is its type, the only field the code reads.  Permissions are    *)
(* sets of bits.  A request is [pid, target, class, perm]; the file,       *)
(* process and network checks are requests with a target of their own.     *)
(* The policy from a file is a stub that adds no rule.                     *)
(*                                                                         *)
(* Bound: MAX_CHECKS decisions are logged.                                 *)
(***************************************************************************)
EXTENDS RingLog

CONSTANTS BLOCKSEC_MAX_RULES, BLOCKSEC_MAX_DOMAINS, MAX_LABELS,
          Pid,
          Requests,   \* the requests made
          NewRules,   \* the rules added after the default policy
          Removed,    \* the names of rules that are removed
          NewDomains, \* the names of domains that are added
          Entered,    \* the names of domains that processes enter
          MAX_CHECKS

VARIABLES mode, rules, domains,
          labels,                       \* g_proc_pids and g_proc_labels
          denied_count, allowed_count

policyVars == <<mode, rules, domains, labels>>
countVars == <<denied_count, allowed_count>>
vars == <<policyVars, countVars, logVars>>

(* blocksec_set_mode takes any byte; those of 3 and above are "other".     *)
Mode == {"disabled", "permissive", "enforcing", "other"}

Rule(src, tgt, class, perms, allow, name) ==
  [source |-> src, target |-> tgt, class |-> class, perms |-> perms, allow |-> allow, name |-> name]

ALL == {"READ", "WRITE", "EXEC", "CREATE", "DELETE", "OPEN", "IOCTL",
        "CONNECT", "BIND", "SEND", "RECV", "FORK", "KILL"}

DefaultDomains ==
  <<"kernel_t", "init_t", "user_t", "shell_t", "gui_t", "network_t", "untrusted_t">>

DefaultRules ==
  <<Rule("kernel_t", "any_t", "FILE", ALL, TRUE, "kernel_all"),
    Rule("init_t", "system_file_t", "FILE", {"READ", "EXEC"}, TRUE, "init_read_sys"),
    Rule("user_t", "user_home_t", "FILE", {"READ", "WRITE", "CREATE"}, TRUE, "user_home_rw"),
    Rule("user_t", "system_file_t", "FILE", {"WRITE", "DELETE"}, FALSE, "user_no_sys_write"),
    Rule("shell_t", "user_home_t", "FILE", {"READ", "EXEC"}, TRUE, "shell_exec"),
    Rule("gui_t", "any_t", "FILE", {"READ"}, TRUE, "gui_read_all"),
    Rule("network_t", "any_t", "SOCKET", {"CONNECT", "SEND", "RECV"}, TRUE, "net_socket"),
    Rule("untrusted_t", "user_home_t", "FILE", {"READ"}, TRUE, "untrusted_read_home"),
    Rule("untrusted_t", "system_file_t", "FILE", ALL, FALSE, "untrusted_no_sys"),
    Rule("untrusted_t", "any_t", "PROCESS", {"FORK", "KILL"}, FALSE, "untrusted_no_proc")>>

Init == /\ mode = "permissive"
        /\ rules = DefaultRules
        /\ domains = DefaultDomains
        /\ labels = << >>
        /\ denied_count = 0 /\ allowed_count = 0
        /\ LogInit

-----------------------------------------------------------------------------
(* The policy.                                                             *)

Policy == UNCHANGED <<countVars, logVars>>

blocksec_set_mode(m) == mode' = m /\ UNCHANGED <<rules, domains, labels>> /\ Policy

blocksec_add_rule(r) == /\ Len(rules) < BLOCKSEC_MAX_RULES
                        /\ rules' = Append(rules, r)
                        /\ UNCHANGED <<mode, domains, labels>> /\ Policy

(* Mutant: the shift stops one rule early and the last rule is lost.       *)
ShiftedShort(rs, i) ==
  [j \in 1 .. Len(rs) - 1 |-> IF j < i \/ j = Len(rs) - 1 THEN rs[j] ELSE rs[j + 1]]

(* The rules behind the i-th move down.                                    *)
Shifted(rs, i) == [j \in 1 .. Len(rs) - 1 |-> IF j < i THEN rs[j] ELSE rs[j + 1]]

blocksec_remove_rule(name) ==
  LET named == {i \in DOMAIN rules : rules[i].name = name}
  IN /\ named # {}
     /\ rules' = Shifted(rules, Min(named))
     /\ UNCHANGED <<mode, domains, labels>> /\ Policy

blocksec_add_domain(name) == /\ Len(domains) < BLOCKSEC_MAX_DOMAINS
                             /\ domains' = Append(domains, name)
                             /\ UNCHANGED <<mode, rules, labels>> /\ Policy

LabelAt(pid) == {i \in DOMAIN labels : labels[i].pid = pid}

(* Mutant: the limit of the table is looked at first.                      *)
KnownWithRoom(pid) == LabelAt(pid) # {} /\ Len(labels) < MAX_LABELS

Known(pid) == LabelAt(pid) # {}

(* The label of a known process is replaced, a new one needs a free place. *)
blocksec_set_process_label(pid, type) ==
  /\ \/ /\ Known(pid)
        /\ labels' = [labels EXCEPT ![Min(LabelAt(pid))].type = type]
     \/ /\ ~Known(pid) /\ Len(labels) < MAX_LABELS
        /\ labels' = Append(labels, [pid |-> pid, type |-> type])
  /\ UNCHANGED <<mode, rules, domains>> /\ Policy

(* No or one type: what blocksec_get_process_label finds.                  *)
LabelOf(pid) == IF LabelAt(pid) = {} THEN {} ELSE {labels[Min(LabelAt(pid))].type}

blocksec_transition(pid, name) == /\ name \in ToSet(domains)
                                  /\ blocksec_set_process_label(pid, name)

-----------------------------------------------------------------------------
(* The decision.                                                           *)

(* blocksec_check_file, by the beginning of the path; every other path and *)
(* the targets of the other checks are matched by any_t rules only.        *)
PathType == [home |-> "user_home_t", sys |-> "system_file_t", proc |-> "proc_t",
             dev |-> "device_t", etc |-> "config_file_t", bin |-> "system_file_t",
             other |-> "any_t"]

Matches(r, type, q) == /\ r.source \in {type, "any_t"}
                       /\ r.target \in {q.target, "any_t"}
                       /\ r.class = q.class
                       /\ r.perms \cap q.perm # {}

(* Deny has priority, and without a matching rule nothing is allowed.      *)
Decided(rs, type, q) ==
  /\ \E i \in DOMAIN rs : rs[i].allow /\ Matches(rs[i], type, q)
  /\ ~\E i \in DOMAIN rs : ~rs[i].allow /\ Matches(rs[i], type, q)

(* What the caller is told: only enforcing mode refuses a process without  *)
(* a label, every mode but the first two one that the rules refuse.        *)
blocksec_check(q) ==
  \/ mode = "disabled"
  \/ LabelOf(q.pid) = {} /\ mode # "enforcing"
  \/ \E type \in LabelOf(q.pid) : mode = "permissive" \/ Decided(rules, type, q)

Count(allowed) ==
  /\ denied_count' = IF allowed THEN denied_count ELSE denied_count + 1
  /\ allowed_count' = IF allowed THEN allowed_count + 1 ELSE allowed_count

(* What it leaves behind.  When the mode is disabled, or the process has   *)
(* no label, nothing is logged or counted.                                 *)
Check(q) ==
  /\ mode # "disabled"
  /\ denied_count + allowed_count < MAX_CHECKS
  /\ \E type \in LabelOf(q.pid) :
       LET allowed == Decided(rules, type, q)
       IN /\ Log([pid |-> q.pid, source |-> type, target |-> q.target,
                  class |-> q.class, perm |-> q.perm, allowed |-> allowed])
          /\ Count(allowed)
  /\ UNCHANGED policyVars

(* The look-ups, the statistics, and the calls that are refused.           *)
Lookup == UNCHANGED vars

ChangePolicy == \/ \E m \in Mode : blocksec_set_mode(m)
                \/ \E r \in NewRules : blocksec_add_rule(r)
                \/ \E name \in Removed : blocksec_remove_rule(name)

Label == \/ \E name \in NewDomains : blocksec_add_domain(name)
         \/ \E pid \in Pid, name \in Entered : blocksec_transition(pid, name)

Next == ChangePolicy \/ Label \/ (\E q \in Requests : Check(q)) \/ Lookup

Spec == Init /\ [][Next]_vars

-----------------------------------------------------------------------------
(* Adding a deny rule or removing an allow rule grants nothing new; adding *)
(* an allow rule or removing a deny rule takes nothing away.  A removal    *)
(* takes the first rule of the name, and no other rule is lost with it.    *)
RulesWorkOneWay ==
  [][\A q \in Requests :
       /\ \A r \in NewRules : blocksec_add_rule(r) =>
            IF r.allow THEN blocksec_check(q) => blocksec_check(q)'
                       ELSE blocksec_check(q)' => blocksec_check(q)
       /\ \A name \in Removed : blocksec_remove_rule(name) =>
            LET first == Min({i \in DOMAIN rules : rules[i].name = name})
            IN IF rules[first].allow THEN blocksec_check(q)' => blocksec_check(q)
                                     ELSE blocksec_check(q) => blocksec_check(q)']_vars

(* No process but the one that enters a domain changes its label, which    *)
(* is then that domain, and no process ever has two places in the table.   *)
LabelsChangeAlone ==
  [][\A pid \in Pid :
       /\ Cardinality(LabelAt(pid)') <= 1
       /\ LabelOf(pid)' # LabelOf(pid) =>
            \E name \in ToSet(domains) : /\ blocksec_transition(pid, name)
                                         /\ LabelOf(pid)' = {name}]_vars

(* A process that has a label can be moved to any domain there is, also    *)
(* with every place of the table taken, and goes on having one, the only   *)
(* one with its pid; no other process is moved along.                      *)
LabelsStick ==
  /\ [](\A pid \in Pid, name \in ToSet(domains) :
          LabelOf(pid) # {} => ENABLED blocksec_transition(pid, name))
  /\ LabelsChangeAlone

(* The statistics agree with the log: every decision is in one of the two  *)
(* counts, those that permissive mode let pass under denied; while the     *)
(* ring still holds all of them, each count is what a reader counts in it. *)
CountsMatchLog ==
  LET all == denied_count + allowed_count
      denials == {k \in DOMAIN recent : ~recent[k].allowed}
  IN /\ log_count = Min({LOG_SIZE, all})
     /\ log_head = all % LOG_WIDTH
     /\ Cardinality(denials) <= denied_count
     /\ all <= LOG_SIZE => Cardinality(denials) = denied_count
=============================================================================
