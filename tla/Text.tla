-------------------------------- MODULE Text --------------------------------
(***************************************************************************)
(* The text functions of kernel/generic.c with state across calls:         *)
(* snprintf as read_pid_fd (fs/procfs.c:252) chains it, each call behind   *)
(* the text of the last one in what is left of the buffer, and strtok with *)
(* its static pointer, as the lookups of paths and the shell use it.       *)
(*                                                                         *)
(* A format is the sequence of its directives, each with its argument:     *)
(* <<conversion, argument>>.  The code knows no widths: of "%08x" it takes *)
(* "%0" for a conversion it does not know, which prints nothing and takes  *)
(* no argument, and "8x" for text.  A caller's format is written here as   *)
(* the code reads it.                                                      *)
(*                                                                         *)
(* Bound: MAX_APPENDS calls are chained.                                   *)
(***************************************************************************)
EXTENDS Integers, Sequences, FiniteSets, SequencesExt

CONSTANTS SIZE,         \* bytes of the buffer (PROCFS_BUFFER_SIZE)
          Char,         \* the characters of the arguments and strings
          Formats,      \* the formats callers pass, with their arguments
          Strings,      \* the strings that are split
          DELIM,        \* "/" or " "
          NULL,
          MAX_APPENDS

(* "?" stands for a conversion the code does not know.                     *)
Directive == ({"text", "c"} \X Char) \cup ({"d"} \X Int) \cup ({"u", "llu", "x"} \X Nat)
             \cup ({"s"} \X (Seq(Char) \cup {NULL})) \cup ({"%", "?"} \X {NULL})

TextAssumption == /\ SIZE \in Nat \ {0} /\ MAX_APPENDS \in Nat
                  /\ Formats \subseteq Seq(Directive)
                  /\ Strings \subseteq Seq(Char)

VARIABLES buf,          \* the text in the buffer, up to pos
          said,         \* all the formats so far (history)
          strtok_ptr,   \* what is left of the string, or NULL
          str, tokens,  \* the string and the tokens it gave (history)
          ended         \* strtok has returned NULL for it (history)

vars == <<buf, said, strtok_ptr, str, tokens, ended>>

Init == /\ buf = << >> /\ said = << >>
        /\ strtok_ptr = NULL /\ str = << >> /\ tokens = << >> /\ ended = FALSE

-----------------------------------------------------------------------------
Digit == <<"0", "1", "2", "3", "4", "5", "6", "7", "8", "9", "a", "b", "c", "d", "e", "f">>

(* The remainders of dividing until nothing is left, the last one first.   *)
uint_to_str(n, base) ==
  LET numeral[m \in 0 .. n] == IF m < base THEN <<Digit[m + 1]>>
                               ELSE Append(numeral[m \div base], Digit[(m % base) + 1])
  IN numeral[n]

int_to_str(n) == IF n < 0 THEN <<"-">> \o uint_to_str(-n, 10) ELSE uint_to_str(n, 10)

Expanded(directive) ==
  LET conversion == directive[1]
      arg == directive[2]
  IN CASE conversion \in {"text", "c"} -> <<arg>>
       [] conversion = "%"             -> <<"%">>
       [] conversion = "d"             -> int_to_str(arg)
       [] conversion \in {"u", "llu"}  -> uint_to_str(arg, 10)
       [] conversion = "x"             -> uint_to_str(arg, 16)
       [] conversion = "s"             -> IF arg = NULL THEN <<"(", "n", ")">> ELSE arg
       [] OTHER                        -> << >>

(* Mutant: only the loop over the format looks at the size.                *)
PutAll(out, text, size) == IF Len(out) < size - 1 THEN out \o text ELSE out

(* Every loop that stores a character stops one before the size.           *)
Put(out, text, size) == out \o SubSeq(text, 1, Min({Len(text), size - 1 - Len(out)}))

(* What is written; its length, not that of the whole text, is returned.   *)
snprintf(size, format) ==
  LET out[j \in 0 .. Len(format)] == IF j = 0 THEN << >>
                                     ELSE Put(out[j - 1], Expanded(format[j]), size)
  IN out[Len(format)]

(* A buffer of its own for every text.                                     *)
Start == /\ buf' = << >> /\ said' = << >>
         /\ UNCHANGED <<strtok_ptr, str, tokens, ended>>

(* pos += snprintf(buf + pos, SIZE - pos, ...)                             *)
AppendFormat(format) == /\ Len(said) < MAX_APPENDS
                        /\ buf' = buf \o snprintf(SIZE - Len(buf), format)
                        /\ said' = Append(said, format)
                        /\ UNCHANGED <<strtok_ptr, str, tokens, ended>>

-----------------------------------------------------------------------------
(* The first place of s from i on that is a delimiter, or is none; behind  *)
(* the end of s when there is no such place.                               *)
FirstFrom(s, i, delimiter) ==
  Min({Len(s) + 1} \cup {j \in i .. Len(s) : (s[j] = DELIM) = delimiter})

(* Skip the delimiters, take the token, and step over the one that ends it.*)
TokenOf(s) == LET first == FirstFrom(s, 1, FALSE)
              IN SubSeq(s, first, FirstFrom(s, first, TRUE) - 1)

RestOf(s) == LET first == FirstFrom(s, 1, FALSE)
             IN SubSeq(s, FirstFrom(s, first, TRUE) + 1, Len(s))

(* s is the argument or, for NULL, what strtok_ptr points to; given are    *)
(* the tokens it has returned of the same string.                          *)
Token(s, given) == /\ strtok_ptr' = RestOf(s)
                   /\ tokens' = IF TokenOf(s) = << >> THEN given ELSE Append(given, TokenOf(s))
                   /\ ended' = (TokenOf(s) = << >>)
                   /\ UNCHANGED <<buf, said>>

strtok == \/ \E s \in Strings : str' = s /\ Token(s, << >>)
          \/ strtok_ptr # NULL /\ str' = str /\ Token(strtok_ptr, tokens)

Format == Start \/ \E format \in Formats : AppendFormat(format)

Next == Format \/ strtok

Spec == Init /\ [][Next]_vars

-----------------------------------------------------------------------------
(* What a format says, and what all of them say, at full length.           *)
FullText(format) == FlattenSeq([j \in DOMAIN format |-> Expanded(format[j])])

Whole == FlattenSeq([i \in DOMAIN said |-> FullText(said[i])])

(* The value of a numeral, from its first digit on.                        *)
ValueOf(numeral, base) ==
  LET value[j \in 0 .. Len(numeral)] ==
        IF j = 0 THEN 0
        ELSE value[j - 1] * base + (CHOOSE d \in 1 .. 16 : Digit[d] = numeral[j]) - 1
  IN value[Len(numeral)]

NumeralsRight ==
  \A format \in Formats : \A i \in DOMAIN format :
    format[i][1] \in {"u", "llu", "x"} =>
      LET numeral == Expanded(format[i])
      IN /\ ValueOf(numeral, IF format[i][1] = "x" THEN 16 ELSE 10) = format[i][2]
         /\ Head(numeral) = "0" => Len(numeral) = 1

(* Where the stretches of the string between delimiters start, and which   *)
(* of them in their order one is.                                          *)
Starts == {i \in DOMAIN str : str[i] # DELIM /\ (i > 1 => str[i - 1] = DELIM)}
Rank(i) == Cardinality({h \in Starts : h <= i})

IsStretch(token, i) ==
  LET end == i + Len(token)
  IN /\ token = SubSeq(str, i, end - 1)
     /\ \A j \in i .. end - 1 : str[j] # DELIM
     /\ end <= Len(str) => str[end] = DELIM

(* A chain of snprintf calls leaves in the buffer the longest prefix of    *)
(* what they say that fits with its end, so that a call after one that was *)
(* cut writes nothing and stays in the buffer; numbers read back as the    *)
(* arguments.  strtok gives the stretches between delimiters in order,     *)
(* once each and none empty, and NULL only after the last of them.         *)
TextAsPromised ==
  /\ buf = SubSeq(Whole, 1, Min({SIZE - 1, Len(Whole)}))
  /\ NumeralsRight
  /\ \A i \in Starts : Rank(i) <= Len(tokens) => IsStretch(tokens[Rank(i)], i)
  /\ Len(tokens) <= Cardinality(Starts)
  /\ ended => Len(tokens) = Cardinality(Starts)
=============================================================================
