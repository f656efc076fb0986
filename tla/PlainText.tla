----------------------------- MODULE PlainText -----------------------------
(***************************************************************************)
(* What a text editor is to its user: a text, in which NL separates lines, *)
(* and a cursor between two of its characters.  A line holds up to LIMIT   *)
(* characters: joining two lines that are longer together loses the end of *)
(* the second, and that is the only way to lose text.                      *)
(***************************************************************************)
EXTENDS Integers, Sequences, SequencesExt

CONSTANTS Char, NL, LIMIT

VARIABLES text, cursor

textVars == <<text, cursor>>

Before == SubSeq(text, 1, cursor)
After == SubSeq(text, cursor + 1, Len(text))

Ends(s) == {i \in DOMAIN s : s[i] = NL}

(* How much of a text is before its first NL, and how much behind the last.*)
FirstLine(s) == Min(Ends(s) \cup {Len(s) + 1}) - 1

LastLine(s) == Len(s) - Max(Ends(s) \cup {0})

TextInit == text = << >> /\ cursor = 0

Type == \E c \in Char \cup {NL} : /\ text' = Before \o <<c>> \o After
                                  /\ cursor' = cursor + 1

TypeSpaces == \E k \in 1 .. LIMIT, c \in Char : /\ text' = Before \o [i \in 1 .. k |-> c] \o After
                                                /\ cursor' = cursor + k

(* A join keeps of the second line what fits behind the first.             *)
Backspace ==
  /\ cursor > 0
  /\ LET front == SubSeq(text, 1, cursor - 1)
         next == FirstLine(After)
         kept == IF text[cursor] = NL THEN Min({next, LIMIT - LastLine(front)}) ELSE next
     IN text' = front \o SubSeq(After, 1, kept) \o SubSeq(After, next + 1, Len(After))
  /\ cursor' = cursor - 1

Place == cursor' \in 0 .. Len(text) /\ UNCHANGED text

TextNext == Type \/ TypeSpaces \/ Backspace \/ Place
=============================================================================
