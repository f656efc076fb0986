------------------------------ MODULE MCRamfs ------------------------------
(* The calls of Ramfs in two mixes, `mix', one per behaviour: "tree" makes *)
(* and deletes up to two nodes next to the three of the default structure  *)
(* and opens files, and "data" reads, writes and seeks in two open files   *)
(* while the default nodes are deleted under them.                         *)
EXTENDS Ramfs

CONSTANTS x, y

VARIABLE mix

MCSymmetry == Permutations(Handle)
MCByte == {x, y}
MCHostname == <<x>>
MCBuffers == {<<y>>, <<y, x>>}

MixInit == Init /\ mix \in {"tree", "data"}

MixNext == /\ UNCHANGED mix
           /\ \/ mix = "tree" /\ (Namespace \/ OpenClose \/ Lookup)
              \/ mix = "data" /\ n' = n /\ Next

MixSpec == MixInit /\ [][MixNext]_<<mix, vars>>
=============================================================================
