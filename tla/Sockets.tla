------------------------------- MODULE Sockets -------------------------------
(***************************************************************************)
(* The table of sockets of network/network.c.                              *)
(*                                                                         *)
(* Of addresses and ports only whether they were set is kept, nothing      *)
(* reads them.  Sending returns the size on a connected socket and an      *)
(* error on another, receiving returns 0, and neither changes the table;   *)
(* network_send and network_recv count packets of a network that never     *)
(* gets connected.                                                         *)
(***************************************************************************)
EXTENDS Integers

CONSTANT NET_MAX_SOCKETS

SocketsAssumption == NET_MAX_SOCKETS \in Nat

VARIABLES active, bound, connected,  \* the fields of g_net.sockets, by index
          stale                      \* fields set while not active (history)

vars == <<active, bound, connected, stale>>

Sock == 0 .. NET_MAX_SOCKETS - 1
Field == {"bound", "connected"}

(* network_init                                                            *)
Init == /\ active = [s \in Sock |-> FALSE]
        /\ bound = [s \in Sock |-> FALSE]
        /\ connected = [s \in Sock |-> FALSE]
        /\ stale = {}

(* The first slot that is not in use; its other fields stay as they are.   *)
socket_create == \E s \in Sock : /\ ~active[s] /\ \A r \in Sock : r < s => active[r]
                                 /\ active' = [active EXCEPT ![s] = TRUE]
                                 /\ UNCHANGED <<bound, connected, stale>>

(* Neither asks whether the socket is in use.                              *)
Set(f, s) == [f EXCEPT ![s] = TRUE]
Touched(s, field) == IF active[s] THEN stale ELSE stale \cup {<<s, field>>}

socket_bind(s) == /\ bound' = Set(bound, s) /\ stale' = Touched(s, "bound")
                  /\ UNCHANGED <<active, connected>>

socket_connect(s) == /\ connected' = Set(connected, s) /\ stale' = Touched(s, "connected")
                     /\ UNCHANGED <<active, bound>>

(* Mutant: a field is left as it is.                                       *)
LeftAsItIs(f, s) == f

Zeroed(f, s) == [f EXCEPT ![s] = FALSE]

socket_close(s) == /\ active' = Zeroed(active, s)
                   /\ bound' = Zeroed(bound, s) /\ connected' = Zeroed(connected, s)
                   /\ stale' = stale \ ({s} \X Field)

(* socket_send, socket_recv and every call that is refused.                *)
Lookup == UNCHANGED vars

Next == \/ socket_create
        \/ \E s \in Sock : socket_bind(s) \/ socket_connect(s) \/ socket_close(s)
        \/ Lookup

Spec == Init /\ [][Next]_vars

-----------------------------------------------------------------------------
(* Nothing of a slot's former lives is left in a new socket: it is bound   *)
(* or connected from the start exactly if a call bound or connected the    *)
(* slot after it was last closed, while no socket was in it.  Such calls,  *)
(* which the code takes, do reach the next socket.                         *)
NothingInherited ==
  [][\A s \in Sock : ~active[s] /\ active'[s] =>
       /\ bound'[s] <=> <<s, "bound">> \in stale
       /\ connected'[s] <=> <<s, "connected">> \in stale]_vars
=============================================================================
