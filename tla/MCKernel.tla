------------------------------ MODULE MCKernel ------------------------------
(* The scheduler and the text functions of src/kernel side by side: they   *)
(* share no state, and `part' says which of them a behaviour is about.     *)
(*                                                                         *)
(* scheduler  three processes: p1 outranks p2 and p3, p3 sits at the floor *)
(*            that scheduler_next never picks in priority mode             *)
(* format     three calls of snprintf in a row, which end before, at and   *)
(*            behind the end of a buffer of six bytes                      *)
(* split      strings with delimiters in front, at the end and next to     *)
(*            each other, a new one also before the last one is used up    *)
EXTENDS Scheduler, TLC

CONSTANTS p1, p2, p3,
          SIZE, Char, Formats, Strings, DELIM, MAX_APPENDS

VARIABLES part,
          buf, said, strtok_ptr, str, tokens, ended

MCProc3 == {p1, p2, p3}

MCPriority3 == p1 :> 5 @@ p2 :> 1 @@ p3 :> -1000

MCFormats == {<<>>, <<<<"text", "t">>, <<"c", "k">>>>, <<<<"%", NULL>>, <<"?", NULL>>, <<"s", NULL>>>>,
              <<<<"s", <<"a", "b", "c", "d", "e", "f">>>>>>, <<<<"d", -128>>, <<"d", 7>>>>,
              <<<<"u", 255>>, <<"x", 255>>>>, <<<<"x", 16>>, <<"u", 10>>, <<"llu", 0>>>>}
MCStrings == UNION {[1 .. k -> {"/", "a", "b"}] : k \in 0 .. 4}

G == INSTANCE Text

ASSUME KernelAssumption == G!TextAssumption

textVars == <<buf, said, strtok_ptr, str, tokens, ended>>
kernelVars == <<part, vars, textVars>>

KernelInit == /\ part \in {"scheduler", "format", "split"}
              /\ Init /\ G!Init
              /\ part # "scheduler" => mode = "RR" /\ current = NULL

KernelNext == /\ UNCHANGED part
              /\ \/ part = "scheduler" /\ Next /\ UNCHANGED textVars
                 \/ part = "format" /\ G!Format /\ UNCHANGED vars
                 \/ part = "split" /\ G!strtok /\ UNCHANGED vars

KernelSpec == KernelInit /\ [][KernelNext]_kernelVars

(* The promise of Text, on its variables here.                             *)
TextAsPromised == part \in {"format", "split"} => G!TextAsPromised
=============================================================================
