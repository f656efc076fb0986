---------------------------- MODULE KernelProofs ----------------------------
(***************************************************************************)
(* What is proved of the parts that MCKernel puts side by side: of the     *)
(* text functions, for every format, string, delimiter and size of the     *)
(* buffer, that formatting cuts, that numbers read back and that splitting *)
(* loses nothing; and of the scheduler for every queue size, quantum, set  *)
(* of processes and assignment of priorities.                              *)
(***************************************************************************)
EXTENDS MCKernel, RingFacts, FiniteSetTheorems, SequenceTheorems, TLAPS

-----------------------------------------------------------------------------
(* Formatted and split texts.                                              *)

LEMMA TextMin ==
  ASSUME NEW a \in Int, NEW b \in Int
  PROVE  G!Min({a, b}) = IF a <= b THEN a ELSE b
<1>1. G!Min({a, b}) \in {a, b} /\ \A y \in {a, b} : G!Min({a, b}) <= y
  <2>1. \E x \in {a, b} : \A y \in {a, b} : x <= y
    OBVIOUS
  <2> QED BY <2>1 DEF G!Min
<1> QED BY <1>1

(* The longest prefix of w of at most k characters.                        *)
Cut(w, k) == SubSeq(w, 1, IF k <= Len(w) THEN k ELSE Len(w))

LEMMA CutIs ==
  ASSUME NEW C, NEW w \in Seq(C), NEW k \in Nat
  PROVE  /\ Cut(w, k) \in Seq(C)
         /\ Len(Cut(w, k)) = IF k <= Len(w) THEN k ELSE Len(w)
         /\ \A i \in 1 .. Len(Cut(w, k)) : Cut(w, k)[i] = w[i]
<1>1. Len(w) \in Nat
  BY LenProperties
<1>2. PICK m \in 0 .. Len(w) : m = IF k <= Len(w) THEN k ELSE Len(w)
  BY <1>1
<1>3. \A i \in 1 .. m : w[i] \in C
  BY <1>1, ElementOfSeq
<1>4. Cut(w, k) = SubSeq(w, 1, m)
  BY <1>2 DEF Cut
<1>5. /\ SubSeq(w, 1, m) \in Seq(C) /\ Len(SubSeq(w, 1, m)) = IF 1 <= m THEN m - 1 + 1 ELSE 0
      /\ \A i \in 1 .. m - 1 + 1 : SubSeq(w, 1, m)[i] = w[1 + i - 1]
  BY <1>1, <1>3, SubSeqProperties
<1> QED BY <1>1, <1>2, <1>4, <1>5

(* A text of two parts is cut part by part.                                *)
CutInParts(w, t, k) == /\ k - Len(Cut(w, k)) \in Nat
                       /\ Cut(w, k) \o Cut(t, k - Len(Cut(w, k))) = Cut(w \o t, k)

LEMMA CutParts ==
  ASSUME NEW C, NEW w \in Seq(C), NEW t \in Seq(C), NEW k \in Nat
  PROVE  CutInParts(w, t, k)
<1> DEFINE a == Cut(w, k)
           j == k - Len(a)
           b == Cut(t, j)
           wt == w \o t
           c == Cut(wt, k)
<1>1. Len(w) \in Nat /\ Len(t) \in Nat
  BY LenProperties
<1>2. /\ a \in Seq(C) /\ Len(a) = (IF k <= Len(w) THEN k ELSE Len(w))
      /\ \A i \in 1 .. Len(a) : a[i] = w[i]
  BY CutIs
<1> HIDE DEF a
<1>3. j \in Nat /\ Len(a) \in Nat
  BY <1>1, <1>2
<1> HIDE DEF j
<1>4. /\ b \in Seq(C) /\ Len(b) = (IF j <= Len(t) THEN j ELSE Len(t))
      /\ \A i \in 1 .. Len(b) : b[i] = t[i]
  BY <1>3, CutIs
<1>5. /\ wt \in Seq(C) /\ Len(wt) = Len(w) + Len(t)
      /\ \A i \in 1 .. Len(w) + Len(t) : wt[i] = IF i <= Len(w) THEN w[i] ELSE t[i - Len(w)]
  BY ConcatProperties
<1> HIDE DEF b, wt
<1>6. /\ c \in Seq(C) /\ Len(c) = (IF k <= Len(wt) THEN k ELSE Len(wt))
      /\ \A i \in 1 .. Len(c) : c[i] = wt[i]
  BY <1>5, CutIs
<1> HIDE DEF c
<1>7. /\ a \o b \in Seq(C) /\ Len(a \o b) = Len(a) + Len(b)
      /\ \A i \in 1 .. Len(a) + Len(b) : (a \o b)[i] = IF i <= Len(a) THEN a[i] ELSE b[i - Len(a)]
  BY <1>2, <1>4, ConcatProperties
<1>8. Len(a) + Len(b) = Len(c) /\ Len(b) \in Nat /\ (Len(b) > 0 => Len(a) = Len(w))
  <2>1. PICK lw \in Nat, lt \in Nat, la \in Nat : lw = Len(w) /\ lt = Len(t) /\ la = Len(a)
    BY <1>1, <1>3
  <2>2. la = (IF k <= lw THEN k ELSE lw) /\ j = k - la
    BY <1>2, <2>1 DEF j
  <2>3. Len(b) = (IF k - la <= lt THEN k - la ELSE lt)
    BY <1>4, <2>1, <2>2
  <2>4. Len(c) = (IF k <= lw + lt THEN k ELSE lw + lt)
    BY <1>5, <1>6, <2>1
  <2>5. PICK lb \in Int, lc \in Int : lb = Len(b) /\ lc = Len(c)
    BY <1>4, <1>6, LenProperties
  <2>6. la + lb = lc /\ lb \in Nat /\ (lb > 0 => la = lw)
    BY <2>2, <2>3, <2>4, <2>5
  <2> QED BY <2>1, <2>5, <2>6
<1>9. ASSUME NEW i \in 1 .. Len(c)
      PROVE  (a \o b)[i] = c[i]
  <2>1. i \in 1 .. Len(a) + Len(b) /\ i \in 1 .. Len(w) + Len(t)
    BY <1>1, <1>3, <1>5, <1>6, <1>8
  <2>2. CASE i <= Len(a)
    <3>1. i \in 1 .. Len(a) /\ i <= Len(w)
      BY <1>1, <1>2, <1>3, <2>2
    <3> QED BY <1>2, <1>5, <1>6, <1>7, <2>1, <2>2, <3>1
  <2>3. CASE ~ (i <= Len(a))
    <3>1. i - Len(a) \in 1 .. Len(b) /\ Len(a) = Len(w)
      BY <1>1, <1>3, <1>8, <2>1, <2>3
    <3>2. b[i - Len(a)] = t[i - Len(a)]
      BY <1>4, <3>1
    <3> QED BY <1>5, <1>6, <1>7, <2>1, <2>3, <3>1, <3>2
  <2> QED BY <2>2, <2>3
<1>10. a \o b = c
  BY <1>6, <1>7, <1>8, <1>9, SeqEqual
<1> QED BY <1>3, <1>10 DEF a, b, c, j, wt, CutInParts

(* What the flattening of a sequence of sequences is, part by part.        *)
LEMMA FlattenRuns ==
  ASSUME NEW C, NEW q \in Seq(Seq(C))
  PROVE  \E all \in [0 .. Len(q) -> Seq(C)] :
           /\ all[0] = << >>
           /\ \A i \in 1 .. Len(q) : all[i] = all[i - 1] \o q[i]
           /\ G!FlattenSeq(q) = all[Len(q)]
<1> DEFINE n == Len(q)
           Texts == Seq(C)
           F == [x \in Texts \X (1 .. n) |-> x[1] \o q[x[2]]]
           Loop(f) == [i \in 1 .. n |-> IF i = 1 THEN q[i] ELSE f[i - 1] \o q[i]]
           flat == CHOOSE f : f = Loop(f)
<1>1. n \in Nat /\ << >> \in Texts /\ \A i \in 1 .. n : q[i] \in Texts
  BY LenProperties, ElementOfSeq
<1>2. \A s \in Texts, i \in 1 .. n : s \o q[i] \in Texts
  BY <1>1, ConcatProperties
<1>3. G!FlattenSeq(q) = IF n = 0 THEN q ELSE flat[n]
  BY DEF G!FlattenSeq
<1>4. \A s \in Texts : << >> \o s = s
  BY ConcatEmptySeq
<1>5. n = 0 => q = << >>
  BY EmptySeq
<1> HIDE DEF n, Texts
<1>6. F \in [Texts \X (1 .. n) -> Texts]
  BY <1>2
<1>7. PICK all : IsLoop(all, n, Texts, << >>, F)
  <2> HIDE DEF F
  <2> QED BY <1>1, <1>6, LoopExists
<1>8. /\ all \in [0 .. n -> Texts] /\ all[0] = << >>
      /\ \A i \in 1 .. n : all[i] = all[i - 1] \o q[i]
  <2>1. /\ all \in [0 .. n -> Texts] /\ all[0] = << >>
        /\ \A i \in 1 .. n : all[i] = F[<<all[i - 1], i>>]
    <3> HIDE DEF F
    <3> QED BY <1>7 DEF IsLoop
  <2>2. ASSUME NEW i \in 1 .. n
        PROVE  F[<<all[i - 1], i>>] = all[i - 1] \o q[i]
    <3>1. <<all[i - 1], i>> \in Texts \X (1 .. n)
      BY <1>1, <2>1
    <3> QED BY <3>1
  <2> HIDE DEF F
  <2> QED BY <2>1, <2>2
<1>9. n # 0 => flat[n] = all[n]
  <2> SUFFICES ASSUME n # 0 PROVE flat[n] = all[n]
    OBVIOUS
  <2> DEFINE g == [i \in 1 .. n |-> all[i]]
  <2>1. g = Loop(g)
    <3>1. ASSUME NEW i \in 1 .. n
          PROVE  g[i] = IF i = 1 THEN q[i] ELSE g[i - 1] \o q[i]
      <4>1. CASE i = 1
        <5>1. all[1] = all[0] \o q[1]
          BY <1>1, <1>8, <4>1
        <5>2. all[1] = q[1]
          BY <1>1, <1>4, <1>8, <4>1, <5>1
        <5> QED BY <4>1, <5>2
      <4>2. CASE i # 1
        <5>1. i - 1 \in 1 .. n
          BY <1>1, <4>2
        <5>2. g[i - 1] = all[i - 1] /\ g[i] = all[i]
          BY <5>1
        <5> QED BY <1>8, <4>2, <5>2
      <4> QED BY <4>1, <4>2
    <3> QED BY <3>1
  <2>2. flat = Loop(flat)
    <3> HIDE DEF Loop, g
    <3> QED BY <2>1
  <2> HIDE DEF flat, g
  <2>3. \A i \in 1 .. n : flat[i] = IF i = 1 THEN q[i] ELSE flat[i - 1] \o q[i]
    <3>1. \A i \in 1 .. n : Loop(flat)[i] = IF i = 1 THEN q[i] ELSE flat[i - 1] \o q[i]
      OBVIOUS
    <3> HIDE DEF Loop
    <3>2. \A i \in 1 .. n : flat[i] = Loop(flat)[i]
      BY <2>2
    <3> QED BY <3>1, <3>2
  <2> DEFINE Ok == {i \in 0 .. n : i > 0 => flat[i] = all[i]}
             id == [i \in 0 .. n |-> i]
  <2>4. id[0] \in Ok /\ \A i \in 0 .. n : id[i] = i
    BY <1>1
  <2>5. ASSUME NEW i \in 1 .. n, id[i - 1] \in Ok
        PROVE  id[i] \in Ok
    <3>1. i - 1 \in 0 .. n
      BY <1>1
    <3>2. CASE i = 1
      <4>1. all[1] = all[0] \o q[1] /\ q[1] \in Texts
        BY <1>1, <1>8, <3>2
      <4>2. all[1] = q[1]
        BY <1>4, <1>8, <4>1
      <4> QED BY <2>3, <2>4, <3>2, <4>2
    <3>3. CASE i # 1
      <4>1. flat[i - 1] = all[i - 1]
        BY <2>4, <2>5, <3>1, <3>3
      <4>2. flat[i] = flat[i - 1] \o q[i] /\ all[i] = all[i - 1] \o q[i]
        BY <1>8, <2>3, <3>3
      <4>3. flat[i] = all[i] /\ i \in 0 .. n
        BY <1>1, <4>1, <4>2
      <4> QED BY <2>4, <4>3
    <3> QED BY <3>2, <3>3
  <2> HIDE DEF Ok, id
  <2>6. \A i \in 0 .. n : id[i] \in Ok
    BY <1>1, <2>4, <2>5, LoopInvariant
  <2>7. n \in Ok
    BY <1>1, <2>4, <2>6
  <2> QED BY <1>1, <2>7 DEF Ok
<1>10. G!FlattenSeq(q) = all[n]
  BY <1>3, <1>5, <1>8, <1>9
<1> QED BY <1>8, <1>10 DEF n, Texts

(* One more part is one more text at the end.                              *)
LEMMA FlattenAppend ==
  ASSUME NEW C, NEW q \in Seq(Seq(C)), NEW t \in Seq(C)
  PROVE  /\ G!FlattenSeq(q) \in Seq(C)
         /\ G!FlattenSeq(Append(q, t)) = G!FlattenSeq(q) \o t
<1> DEFINE n == Len(q)
           r == Append(q, t)
<1>1. /\ n \in Nat /\ r \in Seq(Seq(C)) /\ Len(r) = n + 1 /\ r[n + 1] = t
      /\ \A i \in 1 .. n : r[i] = q[i]
  BY LenProperties, AppendProperties
<1> HIDE DEF r
<1>2. PICK all \in [0 .. n -> Seq(C)] :
        /\ all[0] = << >> /\ \A i \in 1 .. n : all[i] = all[i - 1] \o q[i]
        /\ G!FlattenSeq(q) = all[n]
  BY FlattenRuns
<1>3. PICK more \in [0 .. n + 1 -> Seq(C)] :
        /\ more[0] = << >> /\ \A i \in 1 .. n + 1 : more[i] = more[i - 1] \o r[i]
        /\ G!FlattenSeq(r) = more[n + 1]
  <2>1. \E more \in [0 .. Len(r) -> Seq(C)] :
          /\ more[0] = << >> /\ \A i \in 1 .. Len(r) : more[i] = more[i - 1] \o r[i]
          /\ G!FlattenSeq(r) = more[Len(r)]
    BY <1>1, FlattenRuns
  <2> QED BY <1>1, <2>1
<1> HIDE DEF n
<1> DEFINE Ok == {i \in 0 .. n : more[i] = all[i]}
           id == [i \in 0 .. n |-> i]
<1>4. id[0] \in Ok /\ \A i \in 0 .. n : id[i] = i
  BY <1>1, <1>2, <1>3
<1>5. ASSUME NEW i \in 1 .. n, id[i - 1] \in Ok
      PROVE  id[i] \in Ok
  <2>1. i - 1 \in 0 .. n /\ i \in 1 .. n + 1
    BY <1>1
  <2>2. more[i - 1] = all[i - 1] /\ r[i] = q[i]
    BY <1>1, <1>4, <1>5, <2>1
  <2>3. more[i] = more[i - 1] \o r[i] /\ all[i] = all[i - 1] \o q[i]
    BY <1>2, <1>3, <2>1
  <2>4. more[i] = all[i]
    BY <2>2, <2>3
  <2> QED BY <1>4, <2>4
<1> HIDE DEF Ok, id
<1>6. \A i \in 0 .. n : id[i] \in Ok
  BY <1>1, <1>4, <1>5, LoopInvariant
<1>7. more[n] = all[n]
  <2>1. n \in 0 .. n
    BY <1>1
  <2>2. n \in Ok
    BY <1>4, <1>6, <2>1
  <2> QED BY <2>2 DEF Ok
<1>8. more[n + 1] = more[n] \o t
  <2>1. n + 1 \in 1 .. n + 1 /\ (n + 1) - 1 = n
    BY <1>1
  <2>2. more[n + 1] = more[(n + 1) - 1] \o r[n + 1]
    BY <1>3, <2>1
  <2> QED BY <1>1, <2>1, <2>2
<1>9. all[n] \in Seq(C)
  BY <1>1, <1>2
<1> QED BY <1>2, <1>3, <1>7, <1>8, <1>9 DEF r

(* The digits, and the characters texts are made of.                       *)
Hex == {G!Digit[d] : d \in 1 .. 16}
Glyph == Char \cup Hex \cup {"-", "%", "(", "n", ")"}

DigitPlace(c) == CHOOSE d \in 1 .. 16 : G!Digit[d] = c
DigitValue(c) == DigitPlace(c) - 1

LEMMA DigitsDiffer ==
  ASSUME NEW d \in 0 .. 15
  PROVE  /\ G!Digit[d + 1] \in Hex /\ DigitValue(G!Digit[d + 1]) = d
         /\ G!Digit[d + 1] = "0" => d = 0
<1>1. \A a, b \in 1 .. 16 : G!Digit[a] = G!Digit[b] => a = b
  BY DEF G!Digit
<1>2. d + 1 \in 1 .. 16
  OBVIOUS
<1>3. G!Digit[1] = "0"
  BY DEF G!Digit
<1>4. DigitValue(G!Digit[d + 1]) = d
  <2> DEFINE e == CHOOSE e \in 1 .. 16 : G!Digit[e] = G!Digit[d + 1]
  <2>1. e \in 1 .. 16 /\ G!Digit[e] = G!Digit[d + 1]
    BY <1>2
  <2>2. DigitValue(G!Digit[d + 1]) = e - 1
    BY DEF DigitValue, DigitPlace
  <2> HIDE DEF e
  <2>3. e = d + 1
    BY <1>1, <1>2, <2>1
  <2> QED BY <2>2, <2>3
<1>5. G!Digit[d + 1] = "0" => d = 0
  BY <1>1, <1>2, <1>3
<1> QED BY <1>2, <1>4, <1>5 DEF Hex

LEMMA DigitValues ==
  ASSUME NEW c \in Hex
  PROVE  DigitPlace(c) \in 1 .. 16 /\ DigitValue(c) \in Nat
<1>1. PICK d \in 1 .. 16 : c = G!Digit[d]
  BY DEF Hex
<1>2. DigitPlace(c) \in 1 .. 16
  BY <1>1 DEF DigitPlace
<1> QED BY <1>2 DEF DigitValue

(* Dividing a number that has more than one digit leaves less of it.       *)
LEMMA DivDescends ==
  ASSUME NEW base \in 2 .. 16, NEW m \in Nat, base <= m
  PROVE  m \div base \in 1 .. m - 1 /\ m % base \in 0 .. base - 1 /\ m = (m \div base) * base + (m % base)
<1>1. /\ m % base \in 0 .. base - 1 /\ m = base * (m \div base) + (m % base) /\ m \div base \in Int
  OBVIOUS
<1>2. PICK q \in Int : q = m \div base
  BY <1>1
<1>3. PICK r \in 0 .. base - 1 : r = m % base
  BY <1>1
<1>4. m = base * q + r
  BY <1>1, <1>2, <1>3
<1>5. q >= 1
  <2> SUFFICES ASSUME q <= 0 PROVE FALSE
    OBVIOUS
  <2>1. base * q <= 0
    OBVIOUS
  <2> QED BY <1>4, <2>1
<1>6. base * q >= 2 * q
  BY <1>5
<1>7. q <= m - 1 /\ m = q * base + r
  BY <1>4, <1>5, <1>6
<1> QED BY <1>2, <1>3, <1>5, <1>7

(* Numerals of all numbers up to n can be formed from the last digit on.   *)
IsNumeral(f, m, base) ==
  f[m] = IF m < base THEN <<G!Digit[m + 1]>> ELSE Append(f[m \div base], G!Digit[(m % base) + 1])

LEMMA NumeralsExist ==
  ASSUME NEW n \in Nat, NEW base \in 2 .. 16
  PROVE  \E f \in [0 .. n -> Seq(Hex)] : \A m \in 0 .. n : IsNumeral(f, m, base)
<1> DEFINE Forms(k) == \E f \in [0 .. k -> Seq(Hex)] : \A m \in 0 .. k : IsNumeral(f, m, base)
           Bad == {k \in 0 .. n : ~Forms(k)}
<1>1. ASSUME NEW m \in Nat, m < base
      PROVE  <<G!Digit[m + 1]>> \in Seq(Hex)
  <2>1. m \in 0 .. 15
    BY <1>1
  <2>2. G!Digit[m + 1] \in Hex
    BY <2>1, DigitsDiffer
  <2> QED BY <2>2
<1>2. Forms(0)
  <2> DEFINE f == [m \in 0 .. 0 |-> <<G!Digit[m + 1]>>]
  <2>1. f \in [0 .. 0 -> Seq(Hex)]
    BY <1>1
  <2>2. \A m \in 0 .. 0 : m < base /\ f[m] = <<G!Digit[m + 1]>>
    OBVIOUS
  <2> HIDE DEF f
  <2>3. \A m \in 0 .. 0 : IsNumeral(f, m, base)
    BY <2>2 DEF IsNumeral
  <2> QED BY <2>1, <2>3
<1>3. ASSUME NEW k \in 1 .. n, Forms(k - 1)
      PROVE  Forms(k)
  <2>1. PICK f \in [0 .. k - 1 -> Seq(Hex)] : \A m \in 0 .. k - 1 : IsNumeral(f, m, base)
    BY <1>3
  <2> DEFINE last == IF k < base THEN <<G!Digit[k + 1]>>
                     ELSE Append(f[k \div base], G!Digit[(k % base) + 1])
             g == [m \in 0 .. k |-> IF m = k THEN last ELSE f[m]]
  <2>2. last \in Seq(Hex)
    <3>1. CASE k < base
      BY <1>1, <3>1
    <3>2. CASE ~ (k < base)
      <4>1. k \div base \in 1 .. k - 1 /\ k % base \in 0 .. base - 1
        BY <3>2, DivDescends
      <4>2. k \div base \in 0 .. k - 1 /\ k % base \in 0 .. 15
        BY <4>1
      <4>3. f[k \div base] \in Seq(Hex) /\ G!Digit[(k % base) + 1] \in Hex
        BY <2>1, <4>2, DigitsDiffer
      <4>4. Append(f[k \div base], G!Digit[(k % base) + 1]) \in Seq(Hex)
        BY <4>3, AppendProperties
      <4> QED BY <3>2, <4>4
    <3> QED BY <3>1, <3>2
  <2> HIDE DEF last
  <2>3. g \in [0 .. k -> Seq(Hex)] /\ g[k] = last /\ \A m \in 0 .. k - 1 : g[m] = f[m]
    <3>1. ASSUME NEW m \in 0 .. k
          PROVE  g[m] \in Seq(Hex)
      BY <2>1, <2>2
    <3> QED BY <3>1
  <2> HIDE DEF g
  <2>4. ASSUME NEW m \in 0 .. k
        PROVE  IsNumeral(g, m, base)
    <3>1. m < base \/ m \div base \in 0 .. k - 1
      <4>1. CASE ~ (m < base)
        <5>1. m \div base \in 1 .. m - 1
          BY <4>1, DivDescends
        <5> QED BY <5>1
      <4> QED BY <4>1
    <3>2. m < base \/ g[m \div base] = f[m \div base]
      BY <2>3, <3>1
    <3>3. CASE m = k
      BY <2>3, <3>2, <3>3 DEF last, IsNumeral
    <3>4. CASE m # k
      <4>1. m \in 0 .. k - 1
        BY <3>4
      <4>2. IsNumeral(f, m, base) /\ g[m] = f[m]
        BY <2>1, <2>3, <4>1
      <4> QED BY <3>2, <4>2 DEF IsNumeral
    <3> QED BY <3>3, <3>4
  <2> QED BY <2>3, <2>4
<1>4. Bad = {}
  <2> HIDE DEF Forms
  <2> SUFFICES ASSUME Bad # {} PROVE FALSE
    OBVIOUS
  <2>1. PICK k \in Bad : \A j \in Bad : k <= j
    <3>1. Bad \in SUBSET Nat
      OBVIOUS
    <3> HIDE DEF Bad
    <3> QED BY <3>1, LeastExists
  <2>2. k \in 1 .. n /\ k - 1 \in 0 .. n /\ k - 1 \notin Bad
    BY <1>2, <2>1
  <2> QED BY <1>3, <2>1, <2>2
<1>5. Forms(n)
  <2>1. n \in 0 .. n
    OBVIOUS
  <2> HIDE DEF Forms
  <2> QED BY <1>4, <2>1
<1> QED BY <1>5

LEMMA NumeralForms ==
  ASSUME NEW n \in Nat, NEW base \in 2 .. 16
  PROVE  \E f : /\ \A m \in 0 .. n : IsNumeral(f, m, base)
                /\ G!uint_to_str(n, base) = f[n]
<1> DEFINE Numeral(f) == [m \in 0 .. n |-> IF m < base THEN <<G!Digit[m + 1]>>
                                           ELSE Append(f[m \div base], G!Digit[(m % base) + 1])]
           numeral == CHOOSE f : f = Numeral(f)
<1>1. G!uint_to_str(n, base) = numeral[n]
  BY DEF G!uint_to_str
<1>2. PICK g \in [0 .. n -> Seq(Hex)] : \A m \in 0 .. n : IsNumeral(g, m, base)
  BY NumeralsExist
<1>3. g = Numeral(g)
  BY <1>2 DEF IsNumeral
<1>4. numeral = Numeral(numeral)
  <2> HIDE DEF Numeral
  <2> QED BY <1>3
<1> HIDE DEF numeral
<1>5. \A m \in 0 .. n : IsNumeral(numeral, m, base)
  <2>1. \A m \in 0 .. n : Numeral(numeral)[m] = IF m < base THEN <<G!Digit[m + 1]>>
                                       ELSE Append(numeral[m \div base], G!Digit[(m % base) + 1])
    OBVIOUS
  <2> HIDE DEF Numeral
  <2> QED BY <1>4, <2>1 DEF IsNumeral
<1> QED BY <1>1, <1>5

(* Reading a numeral is a loop over its digits.                            *)
LEMMA ValueRuns ==
  ASSUME NEW s \in Seq(Hex), NEW base \in Nat
  PROVE  \E v \in [0 .. Len(s) -> Nat] :
           /\ v[0] = 0 /\ \A j \in 1 .. Len(s) : v[j] = v[j - 1] * base + DigitValue(s[j])
           /\ G!ValueOf(s, base) = v[Len(s)]
<1> DEFINE n == Len(s)
           F == [x \in Nat \X (1 .. n) |-> x[1] * base + DigitValue(s[x[2]])]
           Loop(f) == [j \in 0 .. n |->
                         IF j = 0 THEN 0 ELSE f[j - 1] * base + DigitPlace(s[j]) - 1]
           value == CHOOSE f : f = Loop(f)
<1>1. n \in Nat /\ \A j \in 1 .. n : DigitValue(s[j]) \in Nat
  BY LenProperties, ElementOfSeq, DigitValues
<1>2. G!ValueOf(s, base) = value[n]
  BY DEF G!ValueOf, DigitPlace
<1>3. \A j \in 1 .. n : DigitValue(s[j]) = DigitPlace(s[j]) - 1 /\ DigitPlace(s[j]) \in Int
  <2> SUFFICES ASSUME NEW j \in 1 .. n
               PROVE  DigitPlace(s[j]) \in 1 .. 16
    BY DEF DigitValue
  <2>1. s[j] \in Hex
    BY <1>1, ElementOfSeq
  <2> QED BY <2>1, DigitValues
<1> HIDE DEF n
<1>4. \A x \in Nat, j \in 1 .. n :
         /\ x * base + DigitValue(s[j]) \in Nat
         /\ x * base + DigitValue(s[j]) = x * base + DigitPlace(s[j]) - 1
  <2> SUFFICES ASSUME NEW x \in Nat, NEW j \in 1 .. n
               PROVE  /\ x * base + DigitValue(s[j]) \in Nat
                      /\ x * base + DigitValue(s[j]) = x * base + DigitPlace(s[j]) - 1
    OBVIOUS
  <2>1. PICK p \in Nat : p = x * base
    OBVIOUS
  <2>2. PICK d \in Int : d = DigitPlace(s[j])
    BY <1>3
  <2>3. DigitValue(s[j]) \in Nat /\ DigitValue(s[j]) = d - 1
    BY <1>1, <1>3, <2>2
  <2> QED BY <2>1, <2>2, <2>3
<1>5. PICK v \in [0 .. n -> Nat] :
        v[0] = 0 /\ \A j \in 1 .. n : v[j] = v[j - 1] * base + DigitValue(s[j])
  <2>1. F \in [Nat \X (1 .. n) -> Nat]
    BY <1>4
  <2>2. PICK v : IsLoop(v, n, Nat, 0, F)
    <3> HIDE DEF F
    <3> QED BY <1>1, <2>1, LoopExists
  <2>3. /\ v \in [0 .. n -> Nat] /\ v[0] = 0
        /\ \A i \in 1 .. n : v[i] = F[<<v[i - 1], i>>]
    <3> HIDE DEF F
    <3> QED BY <2>2 DEF IsLoop
  <2>4. ASSUME NEW i \in 1 .. n
        PROVE  F[<<v[i - 1], i>>] = v[i - 1] * base + DigitValue(s[i])
    <3>1. <<v[i - 1], i>> \in Nat \X (1 .. n)
      BY <1>1, <2>3
    <3> QED BY <3>1
  <2> HIDE DEF F
  <2> QED BY <2>3, <2>4
<1>6. v = Loop(v)
  <2>1. ASSUME NEW j \in 0 .. n
        PROVE  v[j] = IF j = 0 THEN 0 ELSE v[j - 1] * base + DigitPlace(s[j]) - 1
    <3>1. CASE j = 0
      BY <1>5, <3>1
    <3>2. CASE j # 0
      <4>1. j \in 1 .. n /\ j - 1 \in 0 .. n
        BY <1>1, <3>2
      <4>2. v[j - 1] \in Nat
        BY <1>5, <4>1
      <4>3. v[j] = v[j - 1] * base + DigitPlace(s[j]) - 1
        BY <1>4, <1>5, <4>1, <4>2
      <4> QED BY <3>2, <4>3
    <3> QED BY <3>1, <3>2
  <2> QED BY <1>5, <2>1
<1>7. value = Loop(value)
  <2> HIDE DEF Loop
  <2> QED BY <1>6
<1> HIDE DEF value
<1>8. /\ value[0] = 0
      /\ \A j \in 1 .. n : value[j] = value[j - 1] * base + DigitPlace(s[j]) - 1
  <2>1. \A j \in 0 .. n : Loop(value)[j] = IF j = 0 THEN 0
                                           ELSE value[j - 1] * base + DigitPlace(s[j]) - 1
    OBVIOUS
  <2>2. 0 \in 0 .. n /\ \A j \in 1 .. n : j \in 0 .. n /\ j # 0
    BY <1>1
  <2> HIDE DEF Loop
  <2> QED BY <1>7, <2>1, <2>2
<1> DEFINE Ok == {j \in 0 .. n : value[j] = v[j]}
           id == [i \in 0 .. n |-> i]
<1>9. id[0] \in Ok /\ \A i \in 0 .. n : id[i] = i
  BY <1>1, <1>5, <1>8
<1>10. ASSUME NEW j \in 1 .. n, id[j - 1] \in Ok
       PROVE  id[j] \in Ok
  <2>1. j - 1 \in 0 .. n /\ j \in 0 .. n
    BY <1>1
  <2>2. value[j - 1] = v[j - 1] /\ v[j - 1] \in Nat
    BY <1>5, <1>9, <1>10, <2>1
  <2>3. value[j] = v[j - 1] * base + DigitPlace(s[j]) - 1
    BY <1>8, <2>2
  <2>4. v[j] = v[j - 1] * base + DigitPlace(s[j]) - 1
    BY <1>4, <1>5, <2>2
  <2> QED BY <1>9, <2>1, <2>3, <2>4
<1> HIDE DEF Ok, id
<1>11. \A i \in 0 .. n : id[i] \in Ok
  BY <1>1, <1>9, <1>10, LoopInvariant
<1>12. value[n] = v[n]
  <2>1. n \in 0 .. n
    BY <1>1
  <2>2. n \in Ok
    BY <1>9, <1>11, <2>1
  <2> QED BY <2>2 DEF Ok
<1> QED BY <1>2, <1>5, <1>12 DEF n

(* One more digit at the end.                                              *)
LEMMA ValueAppend ==
  ASSUME NEW s \in Seq(Hex), NEW c \in Hex, NEW base \in Nat
  PROVE  /\ G!ValueOf(s, base) \in Nat
         /\ G!ValueOf(Append(s, c), base) = G!ValueOf(s, base) * base + DigitValue(c)
<1> DEFINE n == Len(s)
           r == Append(s, c)
<1>1. /\ n \in Nat /\ r \in Seq(Hex) /\ Len(r) = n + 1 /\ r[n + 1] = c
      /\ \A i \in 1 .. n : r[i] = s[i]
  BY LenProperties, AppendProperties
<1> HIDE DEF r
<1>2. PICK v \in [0 .. n -> Nat] :
        /\ v[0] = 0 /\ \A i \in 1 .. n : v[i] = v[i - 1] * base + DigitValue(s[i])
        /\ G!ValueOf(s, base) = v[n]
  BY ValueRuns
<1>3. PICK u \in [0 .. n + 1 -> Nat] :
        /\ u[0] = 0 /\ \A i \in 1 .. n + 1 : u[i] = u[i - 1] * base + DigitValue(r[i])
        /\ G!ValueOf(r, base) = u[n + 1]
  <2>1. \E u \in [0 .. Len(r) -> Nat] :
          /\ u[0] = 0 /\ \A i \in 1 .. Len(r) : u[i] = u[i - 1] * base + DigitValue(r[i])
          /\ G!ValueOf(r, base) = u[Len(r)]
    BY <1>1, ValueRuns
  <2> QED BY <1>1, <2>1
<1> HIDE DEF n
<1> DEFINE Ok == {i \in 0 .. n : u[i] = v[i]}
           id == [i \in 0 .. n |-> i]
<1>4. id[0] \in Ok /\ \A i \in 0 .. n : id[i] = i
  BY <1>1, <1>2, <1>3
<1>5. ASSUME NEW i \in 1 .. n, id[i - 1] \in Ok
      PROVE  id[i] \in Ok
  <2>1. i - 1 \in 0 .. n /\ i \in 1 .. n + 1
    BY <1>1
  <2>2. u[i - 1] = v[i - 1] /\ r[i] = s[i]
    BY <1>1, <1>4, <1>5, <2>1
  <2>3. u[i] = u[i - 1] * base + DigitValue(r[i]) /\ v[i] = v[i - 1] * base + DigitValue(s[i])
    BY <1>2, <1>3, <2>1
  <2>4. u[i] = v[i]
    BY <2>2, <2>3
  <2> QED BY <1>4, <2>4
<1> HIDE DEF Ok, id
<1>6. \A i \in 0 .. n : id[i] \in Ok
  BY <1>1, <1>4, <1>5, LoopInvariant
<1>7. u[n] = v[n]
  <2>1. n \in 0 .. n
    BY <1>1
  <2>2. n \in Ok
    BY <1>4, <1>6, <2>1
  <2> QED BY <2>2 DEF Ok
<1>8. u[n + 1] = u[n] * base + DigitValue(c)
  <2>1. n + 1 \in 1 .. n + 1 /\ (n + 1) - 1 = n
    BY <1>1
  <2>2. u[n + 1] = u[(n + 1) - 1] * base + DigitValue(r[n + 1])
    BY <1>3, <2>1
  <2> QED BY <1>1, <2>1, <2>2
<1>9. v[n] \in Nat
  BY <1>1, <1>2
<1> QED BY <1>2, <1>3, <1>7, <1>8, <1>9 DEF r

LEMMA ValueOfDigit ==
  ASSUME NEW c \in Hex, NEW base \in Nat
  PROVE  G!ValueOf(<<c>>, base) = DigitValue(c)
<1> DEFINE s == <<c>>
<1>1. s \in Seq(Hex) /\ Len(s) = 1 /\ s[1] = c
  OBVIOUS
<1> HIDE DEF s
<1>2. PICK v \in [0 .. 1 -> Nat] :
        /\ v[0] = 0 /\ \A i \in 1 .. 1 : v[i] = v[i - 1] * base + DigitValue(s[i])
        /\ G!ValueOf(s, base) = v[1]
  <2>1. \E v \in [0 .. Len(s) -> Nat] :
          /\ v[0] = 0 /\ \A i \in 1 .. Len(s) : v[i] = v[i - 1] * base + DigitValue(s[i])
          /\ G!ValueOf(s, base) = v[Len(s)]
    BY <1>1, ValueRuns
  <2> QED BY <1>1, <2>1
<1>3. v[1] = v[0] * base + DigitValue(s[1])
  BY <1>2
<1>4. DigitValue(c) \in Nat
  BY DigitValues
<1>5. v[1] = DigitValue(c)
  BY <1>1, <1>2, <1>3, <1>4
<1> QED BY <1>2, <1>5 DEF s

(* A numeral reads back as the number, and starts with 0 only for 0.       *)
ReadsBack(s, m, base) ==
  /\ s \in Seq(Hex) /\ Len(s) > 0 /\ G!ValueOf(s, base) = m
  /\ s[1] = "0" => m = 0 /\ Len(s) = 1

LEMMA NumeralReadsBack ==
  ASSUME NEW n \in Nat, NEW base \in 2 .. 16
  PROVE  ReadsBack(G!uint_to_str(n, base), n, base)
<1>1. PICK f : /\ \A m \in 0 .. n : IsNumeral(f, m, base)
               /\ G!uint_to_str(n, base) = f[n]
  BY NumeralForms
<1> DEFINE Bad == {m \in 0 .. n : ~ReadsBack(f[m], m, base)}
<1>2. Bad = {}
  <2> SUFFICES ASSUME Bad # {} PROVE FALSE
    OBVIOUS
  <2>1. PICK m \in Bad : \A j \in Bad : m <= j
    <3>1. Bad \in SUBSET Nat
      OBVIOUS
    <3> HIDE DEF Bad
    <3> QED BY <3>1, LeastExists
  <2>2. m \in 0 .. n /\ ~ReadsBack(f[m], m, base) /\ IsNumeral(f, m, base)
    BY <1>1, <2>1
  <2>3. CASE m < base
    <3>1. m \in 0 .. 15
      BY <2>2, <2>3
    <3>2. PICK c \in Hex : c = G!Digit[m + 1] /\ DigitValue(c) = m /\ (c = "0" => m = 0)
      BY <3>1, DigitsDiffer
    <3>3. f[m] = <<c>>
      BY <2>2, <2>3, <3>2 DEF IsNumeral
    <3>4. G!ValueOf(<<c>>, base) = m
      BY <3>2, ValueOfDigit
    <3>5. <<c>> \in Seq(Hex) /\ Len(<<c>>) = 1 /\ <<c>>[1] = c
      OBVIOUS
    <3> QED BY <2>2, <3>2, <3>3, <3>4, <3>5 DEF ReadsBack
  <2>4. CASE ~ (m < base)
    <3>1. PICK q \in Int, r \in Int : q = m \div base /\ r = m % base
      BY <2>2
    <3>2. q \in 1 .. m - 1 /\ r \in 0 .. base - 1 /\ m = q * base + r
      BY <2>2, <2>4, <3>1, DivDescends
    <3>3. q \in 0 .. n /\ q \notin Bad /\ q # 0
      BY <2>1, <2>2, <3>2
    <3>4. PICK s : s = f[q]
      OBVIOUS
    <3>5. /\ s \in Seq(Hex) /\ Len(s) > 0 /\ G!ValueOf(s, base) = q /\ s[1] # "0"
      BY <3>3, <3>4 DEF ReadsBack
    <3>6. r \in 0 .. 15
      BY <3>2
    <3>7. PICK c \in Hex : c = G!Digit[r + 1] /\ DigitValue(c) = r
      BY <3>6, DigitsDiffer
    <3>8. f[m] = Append(s, c)
      BY <2>2, <2>4, <3>1, <3>4, <3>7 DEF IsNumeral
    <3>9. G!ValueOf(Append(s, c), base) = m
      <4>1. base \in Nat
        OBVIOUS
      <4>2. G!ValueOf(Append(s, c), base) = G!ValueOf(s, base) * base + DigitValue(c)
        BY <3>5, <3>7, <4>1, ValueAppend
      <4> QED BY <3>2, <3>5, <3>7, <4>2
    <3>10. /\ Append(s, c) \in Seq(Hex) /\ Len(Append(s, c)) > 0
           /\ Append(s, c)[1] = s[1]
      <4>1. /\ Append(s, c) \in Seq(Hex) /\ Len(Append(s, c)) = Len(s) + 1
            /\ \A i \in 1 .. Len(s) : Append(s, c)[i] = s[i]
        BY <3>5, AppendProperties
      <4>2. Len(s) \in Nat
        BY <3>5, LenProperties
      <4> QED BY <3>5, <4>1, <4>2
    <3> QED BY <2>2, <3>5, <3>8, <3>9, <3>10 DEF ReadsBack
  <2> QED BY <2>3, <2>4
<1>3. n \in 0 .. n
  OBVIOUS
<1>4. ReadsBack(f[n], n, base)
  BY <1>2, <1>3
<1> QED BY <1>1, <1>4

(* Every number a format prints reads back from it.                        *)
LEMMA NumeralsAreRight ==
  ASSUME KernelAssumption
  PROVE  G!NumeralsRight
<1> SUFFICES ASSUME NEW format \in Formats, NEW i \in DOMAIN format,
                    format[i][1] \in {"u", "llu", "x"}
             PROVE  LET numeral == G!Expanded(format[i])
                    IN /\ G!ValueOf(numeral, IF format[i][1] = "x" THEN 16 ELSE 10) = format[i][2]
                       /\ Head(numeral) = "0" => Len(numeral) = 1
  BY DEF G!NumeralsRight
<1> DEFINE base == IF format[i][1] = "x" THEN 16 ELSE 10
<1>1. format \in Seq(G!Directive)
  BY DEF KernelAssumption, G!TextAssumption
<1>2. format[i] \in G!Directive
  BY <1>1
<1>3. format[i][2] \in Nat
  BY <1>2 DEF G!Directive
<1>4. G!Expanded(format[i]) = G!uint_to_str(format[i][2], base)
  BY DEF G!Expanded
<1>5. base \in 2 .. 16
  OBVIOUS
<1> HIDE DEF base
<1>6. ReadsBack(G!Expanded(format[i]), format[i][2], base)
  BY <1>3, <1>4, <1>5, NumeralReadsBack
<1>7. G!Expanded(format[i]) # << >> /\ G!Expanded(format[i]) \in Seq(Hex)
  BY <1>6 DEF ReadsBack
<1>8. Head(G!Expanded(format[i])) = G!Expanded(format[i])[1]
  BY <1>7
<1> QED BY <1>6, <1>8 DEF ReadsBack, base

(* What a directive prints is a text, whatever it is.                      *)
LEMMA ExpandedType ==
  ASSUME NEW d \in G!Directive
  PROVE  G!Expanded(d) \in Seq(Glyph)
<1>1. \A n \in Nat, base \in {10, 16} : G!uint_to_str(n, base) \in Seq(Glyph)
  <2> SUFFICES ASSUME NEW n \in Nat, NEW base \in {10, 16}
               PROVE  G!uint_to_str(n, base) \in Seq(Glyph)
    OBVIOUS
  <2>1. base \in 2 .. 16
    OBVIOUS
  <2>2. G!uint_to_str(n, base) \in Seq(Hex)
    BY <2>1, NumeralReadsBack DEF ReadsBack
  <2>3. Hex \subseteq Glyph
    BY DEF Glyph
  <2> QED BY <2>2, <2>3, SeqMonotonic
<1>2. CASE d \in {"text", "c"} \X Char
  <2>1. d[1] \in {"text", "c"} /\ d[2] \in Glyph
    BY <1>2 DEF Glyph
  <2>2. G!Expanded(d) = <<d[2]>>
    BY <2>1 DEF G!Expanded
  <2> QED BY <2>1, <2>2
<1>3. CASE d \in {"d"} \X Int
  <2>1. d[1] = "d" /\ d[2] \in Int
    BY <1>3
  <2>2. G!Expanded(d) = G!int_to_str(d[2])
    BY <2>1 DEF G!Expanded
  <2>3. CASE d[2] < 0
    <3>1. PICK n \in Nat : n = -d[2]
      BY <2>1, <2>3
    <3>2. G!Expanded(d) = <<"-">> \o G!uint_to_str(n, 10)
      BY <2>2, <2>3, <3>1 DEF G!int_to_str
    <3>3. <<"-">> \in Seq(Glyph)
      <4>1. "-" \in Glyph
        BY DEF Glyph
      <4> QED BY <4>1
    <3>4. G!uint_to_str(n, 10) \in Seq(Glyph)
      BY <1>1
    <3> QED BY <3>2, <3>3, <3>4, ConcatProperties
  <2>4. CASE ~ (d[2] < 0)
    <3>1. d[2] \in Nat
      BY <2>1, <2>4
    <3>2. G!Expanded(d) = G!uint_to_str(d[2], 10)
      BY <2>2, <2>4 DEF G!int_to_str
    <3> QED BY <1>1, <3>1, <3>2
  <2> QED BY <2>3, <2>4
<1>4. CASE d \in {"u", "llu", "x"} \X Nat
  <2>1. d[1] \in {"u", "llu", "x"} /\ d[2] \in Nat
    BY <1>4
  <2>2. G!Expanded(d) = G!uint_to_str(d[2], IF d[1] = "x" THEN 16 ELSE 10)
    BY <2>1 DEF G!Expanded
  <2> QED BY <1>1, <2>1, <2>2
<1>5. CASE d \in {"s"} \X (Seq(Char) \cup {NULL})
  <2>1. d[1] = "s" /\ d[2] \in Seq(Char) \cup {NULL}
    BY <1>5
  <2>2. G!Expanded(d) = IF d[2] = NULL THEN <<"(", "n", ")">> ELSE d[2]
    BY <2>1 DEF G!Expanded
  <2>3. <<"(", "n", ")">> \in Seq(Glyph)
    <3>1. "(" \in Glyph /\ "n" \in Glyph /\ ")" \in Glyph
      BY DEF Glyph
    <3> QED BY <3>1
  <2>4. \A s \in Seq(Char) : s \in Seq(Glyph)
    <3>1. Char \subseteq Glyph
      BY DEF Glyph
    <3> QED BY <3>1, SeqMonotonic
  <2> QED BY <2>1, <2>2, <2>3, <2>4
<1>6. CASE d \in {"%", "?"} \X {NULL}
  <2>1. d[1] = "%" \/ d[1] = "?"
    BY <1>6
  <2>2. G!Expanded(d) = <<"%">> \/ G!Expanded(d) = << >>
    BY <2>1 DEF G!Expanded
  <2>3. "%" \in Glyph
    BY DEF Glyph
  <2> HIDE DEF Glyph
  <2>4. <<"%">> \in Seq(Glyph) /\ << >> \in Seq(Glyph)
    BY <2>3
  <2> QED BY <2>2, <2>4
<1> QED BY <1>2, <1>3, <1>4, <1>5, <1>6 DEF G!Directive

TextsOf(format) == [j \in DOMAIN format |-> G!Expanded(format[j])]

LEMMA TextsType ==
  ASSUME NEW format \in Seq(G!Directive)
  PROVE  /\ TextsOf(format) \in Seq(Seq(Glyph)) /\ Len(TextsOf(format)) = Len(format)
         /\ Len(format) \in Nat
         /\ \A j \in 1 .. Len(format) : TextsOf(format)[j] = G!Expanded(format[j])
<1>1. Len(format) \in Nat /\ DOMAIN format = 1 .. Len(format)
  BY LenProperties
<1>2. \A j \in 1 .. Len(format) : G!Expanded(format[j]) \in Seq(Glyph)
  BY <1>1, ElementOfSeq, ExpandedType
<1> HIDE DEF Glyph
<1> DEFINE T == Seq(Glyph)
<1>3. \A j \in 1 .. Len(format) : G!Expanded(format[j]) \in T
  BY <1>2
<1> HIDE DEF T
<1>4. [j \in 1 .. Len(format) |-> G!Expanded(format[j])] \in Seq(T)
  BY <1>1, <1>3
<1> QED BY <1>1, <1>4 DEF TextsOf, T

(* A text put behind a text that was cut is cut with it.                   *)
LEMMA PutIs ==
  ASSUME NEW w \in Seq(Glyph), NEW t \in Seq(Glyph), NEW size \in Nat \ {0}
  PROVE  G!Put(Cut(w, size - 1), t, size) = Cut(w \o t, size - 1)
<1> DEFINE k == size - 1
           a == Cut(w, k)
<1>1. k \in Nat /\ k = size - 1
  OBVIOUS
<1> HIDE DEF k
<1>2. CutInParts(w, t, k)
  BY <1>1, CutParts
<1>3. k - Len(a) \in Nat /\ a \o Cut(t, k - Len(a)) = Cut(w \o t, k)
  BY <1>2 DEF CutInParts
<1> HIDE DEF a
<1>4. Len(t) \in Nat
  BY LenProperties
<1>5. PICK x, y \in Int : x = Len(t) /\ y = k - Len(a)
  BY <1>3, <1>4
<1>6. G!Min({x, y}) = (IF y <= x THEN y ELSE x)
  <2>1. G!Min({x, y}) = IF x <= y THEN x ELSE y
    BY TextMin
  <2> QED BY <2>1
<1>7. G!Put(a, t, size) = a \o SubSeq(t, 1, G!Min({x, y}))
  BY <1>1, <1>5 DEF G!Put
<1>8. Cut(t, y) = SubSeq(t, 1, G!Min({x, y}))
  BY <1>5, <1>6 DEF Cut
<1> QED BY <1>1, <1>3, <1>5, <1>7, <1>8 DEF a

(* A call writes the longest prefix that fits of what its format says.     *)
LEMMA PrintIs ==
  ASSUME NEW format \in Seq(G!Directive), NEW size \in Nat \ {0}
  PROVE  /\ G!FullText(format) \in Seq(Glyph)
         /\ G!snprintf(size, format) = Cut(G!FullText(format), size - 1)
<1> DEFINE n == Len(format)
           q == TextsOf(format)
           Loop(f) == [j \in 0 .. n |-> IF j = 0 THEN << >>
                                        ELSE G!Put(f[j - 1], G!Expanded(format[j]), size)]
           out == CHOOSE f : f = Loop(f)
<1>1. /\ n \in Nat /\ q \in Seq(Seq(Glyph)) /\ Len(q) = n
      /\ \A j \in 1 .. n : q[j] = G!Expanded(format[j])
  BY TextsType
<1>2. G!FullText(format) = G!FlattenSeq(q)
  BY DEF G!FullText, TextsOf
<1>3. G!snprintf(size, format) = out[n]
  BY DEF G!snprintf
<1> HIDE DEF n, q
<1>4. PICK all \in [0 .. n -> Seq(Glyph)] :
        /\ all[0] = << >> /\ \A j \in 1 .. n : all[j] = all[j - 1] \o q[j]
        /\ G!FlattenSeq(q) = all[n]
  <2>1. \E all \in [0 .. Len(q) -> Seq(Glyph)] :
        /\ all[0] = << >> /\ \A j \in 1 .. Len(q) : all[j] = all[j - 1] \o q[j]
        /\ G!FlattenSeq(q) = all[Len(q)]
    BY <1>1, FlattenRuns
  <2> QED BY <1>1, <2>1
<1>5. \A j \in 0 .. n : all[j] \in Seq(Glyph)
  BY <1>4
<1>6. Cut(<< >>, size - 1) = << >>
  <2>1. size - 1 \in Nat /\ << >> \in Seq(Glyph) /\ Len(<< >>) = 0
    BY EmptySeq
  <2>2. Cut(<< >>, size - 1) \in Seq(Glyph) /\ Len(Cut(<< >>, size - 1)) = 0
    BY <2>1, CutIs
  <2> QED BY <2>2, EmptySeq
<1>7. \A j \in 1 .. n : G!Put(Cut(all[j - 1], size - 1), G!Expanded(format[j]), size) = Cut(all[j], size - 1)
  <2> SUFFICES ASSUME NEW j \in 1 .. n
               PROVE  G!Put(Cut(all[j - 1], size - 1), G!Expanded(format[j]), size) = Cut(all[j], size - 1)
    OBVIOUS
  <2>1. j - 1 \in 0 .. n
    BY <1>1
  <2>2. all[j - 1] \in Seq(Glyph) /\ q[j] \in Seq(Glyph)
    BY <1>1, <1>5, <2>1, ElementOfSeq
  <2>3. G!Put(Cut(all[j - 1], size - 1), q[j], size) = Cut(all[j - 1] \o q[j], size - 1)
    BY <2>2, PutIs
  <2> QED BY <1>1, <1>4, <2>3
<1> DEFINE g == [j \in 0 .. n |-> Cut(all[j], size - 1)]
<1>8. g = Loop(g)
  <2>1. ASSUME NEW j \in 0 .. n
        PROVE  g[j] = IF j = 0 THEN << >> ELSE G!Put(g[j - 1], G!Expanded(format[j]), size)
    <3>1. CASE j = 0
      BY <1>4, <1>6, <3>1
    <3>2. CASE j # 0
      <4>1. j \in 1 .. n /\ j - 1 \in 0 .. n
        BY <1>1, <3>2
      <4>2. g[j - 1] = Cut(all[j - 1], size - 1) /\ g[j] = Cut(all[j], size - 1)
        BY <4>1
      <4> QED BY <1>7, <3>2, <4>1, <4>2
    <3> QED BY <3>1, <3>2
  <2> QED BY <2>1
<1>9. out = Loop(out)
  <2> HIDE DEF Loop, g
  <2> QED BY <1>8
<1> HIDE DEF out, g
<1>10. /\ out[0] = << >>
       /\ \A j \in 1 .. n : out[j] = G!Put(out[j - 1], G!Expanded(format[j]), size)
  <2>1. \A j \in 0 .. n : Loop(out)[j] = IF j = 0 THEN << >>
                                         ELSE G!Put(out[j - 1], G!Expanded(format[j]), size)
    OBVIOUS
  <2>2. 0 \in 0 .. n /\ \A j \in 1 .. n : j \in 0 .. n /\ j # 0
    BY <1>1
  <2> HIDE DEF Loop
  <2> QED BY <1>9, <2>1, <2>2
<1> DEFINE Ok == {j \in 0 .. n : out[j] = Cut(all[j], size - 1)}
           id == [i \in 0 .. n |-> i]
<1>11. id[0] \in Ok /\ \A i \in 0 .. n : id[i] = i
  BY <1>1, <1>4, <1>6, <1>10
<1>12. ASSUME NEW j \in 1 .. n, id[j - 1] \in Ok
       PROVE  id[j] \in Ok
  <2>1. j - 1 \in 0 .. n /\ j \in 0 .. n
    BY <1>1
  <2>2. out[j - 1] = Cut(all[j - 1], size - 1)
    BY <1>11, <1>12, <2>1
  <2>3. out[j] = Cut(all[j], size - 1)
    BY <1>7, <1>10, <2>2
  <2> QED BY <1>11, <2>1, <2>3
<1> HIDE DEF Ok, id
<1>13. \A i \in 0 .. n : id[i] \in Ok
  BY <1>1, <1>11, <1>12, LoopInvariant
<1>14. out[n] = Cut(all[n], size - 1)
  <2>1. n \in 0 .. n
    BY <1>1
  <2>2. n \in Ok
    BY <1>11, <1>13, <2>1
  <2> QED BY <2>2 DEF Ok
<1>15. all[n] \in Seq(Glyph)
  BY <1>1, <1>5
<1> QED BY <1>2, <1>3, <1>4, <1>14, <1>15

-----------------------------------------------------------------------------
(* What a list of formats says, one behind the other.                      *)
Said(list) == [i \in DOMAIN list |-> G!FullText(list[i])]
AllOf(list) == G!FlattenSeq(Said(list))

LEMMA SaidType ==
  ASSUME NEW list \in Seq(Seq(G!Directive))
  PROVE  /\ Said(list) \in Seq(Seq(Glyph)) /\ Len(Said(list)) = Len(list)
         /\ Len(list) \in Nat
         /\ \A i \in 1 .. Len(list) : Said(list)[i] = G!FullText(list[i])
<1>1. Len(list) \in Nat /\ DOMAIN list = 1 .. Len(list)
  BY LenProperties
<1> DEFINE T == Seq(Glyph)
<1>2. \A i \in 1 .. Len(list) : G!FullText(list[i]) \in T
  <2> SUFFICES ASSUME NEW i \in 1 .. Len(list)
               PROVE  G!FullText(list[i]) \in T
    OBVIOUS
  <2>1. list[i] \in Seq(G!Directive)
    BY ElementOfSeq
  <2> QED BY <2>1, PrintIs
<1> HIDE DEF T
<1>3. [i \in 1 .. Len(list) |-> G!FullText(list[i])] \in Seq(T)
  BY <1>1, <1>2
<1> QED BY <1>1, <1>3 DEF Said, T

LEMMA AllOfEmpty ==
  AllOf(<< >>) = << >>
<1>1. << >> \in Seq(Seq(G!Directive)) /\ Len(<< >>) = 0
  BY EmptySeq
<1>2. Said(<< >>) \in Seq(Seq(Glyph)) /\ Len(Said(<< >>)) = 0
  BY <1>1, SaidType
<1>3. Said(<< >>) = << >>
  BY <1>2, EmptySeq
<1> QED BY <1>2, <1>3 DEF AllOf, G!FlattenSeq

(* One more format says its text behind all the others.                    *)
LEMMA SaidAppend ==
  ASSUME NEW list \in Seq(Seq(G!Directive)), NEW format \in Seq(G!Directive)
  PROVE  /\ AllOf(list) \in Seq(Glyph)
         /\ AllOf(Append(list, format)) = AllOf(list) \o G!FullText(format)
<1> DEFINE q == Said(list)
           t == G!FullText(format)
           r == Append(list, format)
           T == Seq(Glyph)
<1>1. /\ q \in Seq(T) /\ Len(q) = Len(list) /\ Len(list) \in Nat
      /\ \A i \in 1 .. Len(list) : q[i] = G!FullText(list[i])
  BY SaidType
<1>2. t \in T
  BY PrintIs
<1>3. /\ r \in Seq(Seq(G!Directive)) /\ Len(r) = Len(list) + 1 /\ r[Len(list) + 1] = format
      /\ \A i \in 1 .. Len(list) : r[i] = list[i]
  BY AppendProperties
<1>4. /\ Said(r) \in Seq(T) /\ Len(Said(r)) = Len(r)
      /\ \A i \in 1 .. Len(r) : Said(r)[i] = G!FullText(r[i])
  BY <1>3, SaidType
<1>5. /\ Append(q, t) \in Seq(T) /\ Len(Append(q, t)) = Len(q) + 1 /\ Append(q, t)[Len(q) + 1] = t
      /\ \A i \in 1 .. Len(q) : Append(q, t)[i] = q[i]
  <2> HIDE DEF q, t, T
  <2>1. q \in Seq(T) /\ t \in T
    BY <1>1, <1>2
  <2> QED BY <2>1, AppendProperties
<1>6. Said(r) = Append(q, t)
  <2>1. PICK n \in Nat : n = Len(list)
    BY <1>1
  <2>2. ASSUME NEW i \in 1 .. n + 1
        PROVE  Said(r)[i] = Append(q, t)[i]
    <3>1. i \in 1 .. n \/ i = n + 1
      OBVIOUS
    <3>2. Said(r)[i] = G!FullText(r[i])
      BY <1>3, <1>4, <2>1
    <3>3. CASE i \in 1 .. n
      <4>1. r[i] = list[i] /\ q[i] = G!FullText(list[i]) /\ Append(q, t)[i] = q[i]
        <5> HIDE DEF q, r, t
        <5> QED BY <1>1, <1>3, <1>5, <2>1, <3>3
      <4> HIDE DEF q, r, t
      <4> QED BY <3>2, <4>1
    <3>4. CASE i = n + 1
      <4>1. r[i] = format /\ Append(q, t)[i] = t
        <5> HIDE DEF q, r, t
        <5> QED BY <1>1, <1>3, <1>5, <2>1, <3>4
      <4> HIDE DEF q, r
      <4> QED BY <3>2, <4>1
    <3> QED BY <3>1, <3>3, <3>4
  <2>3. Len(Said(r)) = n + 1 /\ Len(Append(q, t)) = n + 1
    BY <1>1, <1>3, <1>4, <1>5, <2>1
  <2> HIDE DEF q, r, t, T
  <2> QED BY <1>4, <1>5, <2>2, <2>3, SeqEqual
<1>7. G!FlattenSeq(q) \in Seq(Glyph) /\ G!FlattenSeq(Append(q, t)) = G!FlattenSeq(q) \o t
  <2> HIDE DEF q, t
  <2> QED BY <1>1, <1>2, FlattenAppend DEF T
<1> QED BY <1>6, <1>7 DEF AllOf

(* What a call appends to what the others left in the buffer.              *)
LEMMA PrintAppends ==
  ASSUME KernelAssumption, NEW list \in Seq(Formats), NEW format \in Formats,
         NEW text, text = Cut(AllOf(list), SIZE - 1)
  PROVE  /\ Append(list, format) \in Seq(Formats)
         /\ text \o G!snprintf(SIZE - Len(text), format) = Cut(AllOf(Append(list, format)), SIZE - 1)
<1>1. SIZE \in Nat \ {0} /\ Formats \subseteq Seq(G!Directive)
  BY DEF KernelAssumption, G!TextAssumption
<1>2. list \in Seq(Seq(G!Directive)) /\ format \in Seq(G!Directive)
  <2>1. list \in Seq(Seq(G!Directive))
    BY <1>1, SeqMonotonic
  <2> QED BY <1>1, <2>1
<1>3. Append(list, format) \in Seq(Formats)
  BY AppendProperties
<1>4. AllOf(list) \in Seq(Glyph) /\ AllOf(Append(list, format)) = AllOf(list) \o G!FullText(format)
  BY <1>2, SaidAppend
<1>5. PICK k \in Nat : k = SIZE - 1
  BY <1>1
<1>6. PICK w \in Seq(Glyph), t \in Seq(Glyph) : w = AllOf(list) /\ t = G!FullText(format)
  BY <1>2, <1>4, PrintIs
<1>7. text = Cut(w, k) /\ AllOf(Append(list, format)) = w \o t
  BY <1>4, <1>5, <1>6
<1>8. CutInParts(w, t, k)
  BY CutParts
<1>9. k - Len(text) \in Nat /\ text \o Cut(t, k - Len(text)) = Cut(w \o t, k)
  BY <1>7, <1>8 DEF CutInParts
<1>10. Len(text) \in Nat
  <2>1. text \in Seq(Glyph)
    BY <1>7, CutIs
  <2> QED BY <2>1, LenProperties
<1>11. PICK m \in Nat \ {0} : m = SIZE - Len(text) /\ m - 1 = k - Len(text)
  <2>1. PICK l \in Nat : l = Len(text)
    BY <1>10
  <2>2. k - l \in Nat
    BY <1>9, <2>1
  <2>3. PICK size \in Int : size = SIZE /\ size = k + 1
    BY <1>1, <1>5
  <2>4. size - l \in Nat \ {0} /\ (size - l) - 1 = k - l
    BY <2>2, <2>3
  <2> QED BY <2>1, <2>3, <2>4
<1>12. G!snprintf(m, format) = Cut(t, m - 1)
  BY <1>2, <1>6, PrintIs
<1> QED BY <1>3, <1>5, <1>7, <1>9, <1>11, <1>12

-----------------------------------------------------------------------------
(* Parts of a string, and parts of its end.                                *)
LEMMA PartIs ==
  ASSUME NEW C, NEW s \in Seq(C), NEW a \in 1 .. Len(s) + 1, NEW b \in a - 1 .. Len(s)
  PROVE  /\ SubSeq(s, a, b) \in Seq(C) /\ Len(SubSeq(s, a, b)) = b - a + 1
         /\ \A j \in 1 .. b - a + 1 : SubSeq(s, a, b)[j] = s[a + j - 1]
<1>1. Len(s) \in Nat
  BY LenProperties
<1>2. a \in Int /\ b \in Int /\ a - 1 <= b
  BY <1>1
<1>3. \A i \in a .. b : s[i] \in C
  <2> SUFFICES ASSUME NEW i \in a .. b PROVE s[i] \in C
    OBVIOUS
  <2>1. i \in 1 .. Len(s)
    BY <1>1
  <2> QED BY <2>1, ElementOfSeq
<1>4. /\ SubSeq(s, a, b) \in Seq(C)
      /\ Len(SubSeq(s, a, b)) = IF a <= b THEN b - a + 1 ELSE 0
      /\ \A i \in 1 .. b - a + 1 : SubSeq(s, a, b)[i] = s[a + i - 1]
  BY <1>2, <1>3, SubSeqProperties
<1> QED BY <1>2, <1>4

LEMMA PartOfEnd ==
  ASSUME NEW C, NEW s \in Seq(C), NEW p \in 0 .. Len(s),
         NEW a \in 1 .. Len(s) - p + 1, NEW b \in a - 1 .. Len(s) - p
  PROVE  SubSeq(SubSeq(s, p + 1, Len(s)), a, b) = SubSeq(s, p + a, p + b)
<1> DEFINE rest == SubSeq(s, p + 1, Len(s))
           x == SubSeq(rest, a, b)
           y == SubSeq(s, p + a, p + b)
<1>1. PICK l \in Nat : l = Len(s)
  BY LenProperties
<1>2. p + 1 \in 1 .. l + 1 /\ l \in (p + 1) - 1 .. l
  BY <1>1
<1>3. /\ rest \in Seq(C) /\ Len(rest) = l - (p + 1) + 1
      /\ \A j \in 1 .. l - (p + 1) + 1 : rest[j] = s[(p + 1) + j - 1]
  BY <1>1, <1>2, PartIs
<1> HIDE DEF rest
<1>4. Len(rest) = l - p
  BY <1>1, <1>3
<1>5. /\ x \in Seq(C) /\ Len(x) = b - a + 1
      /\ \A j \in 1 .. b - a + 1 : x[j] = rest[a + j - 1]
  <2>1. a \in 1 .. Len(rest) + 1 /\ b \in a - 1 .. Len(rest)
    BY <1>1, <1>4
  <2> QED BY <1>3, <2>1, PartIs
<1>6. /\ y \in Seq(C) /\ Len(y) = (p + b) - (p + a) + 1
      /\ \A j \in 1 .. (p + b) - (p + a) + 1 : y[j] = s[(p + a) + j - 1]
  <2>1. p + a \in 1 .. l + 1 /\ p + b \in (p + a) - 1 .. l
    BY <1>1
  <2> QED BY <1>1, <2>1, PartIs
<1> HIDE DEF x, y
<1>7. Len(x) = Len(y)
  BY <1>1, <1>5, <1>6
<1>8. ASSUME NEW j \in 1 .. Len(x)
      PROVE  x[j] = y[j]
  <2>1. j \in 1 .. b - a + 1 /\ j \in 1 .. (p + b) - (p + a) + 1 /\ a + j - 1 \in 1 .. l - (p + 1) + 1
    BY <1>1, <1>5
  <2>2. x[j] = rest[a + j - 1] /\ y[j] = s[(p + a) + j - 1]
    BY <1>5, <1>6, <2>1
  <2>3. rest[a + j - 1] = s[(p + 1) + (a + j - 1) - 1]
    BY <1>3, <2>1
  <2>4. (p + 1) + (a + j - 1) - 1 = (p + a) + j - 1
    BY <1>1, <2>1
  <2> QED BY <2>2, <2>3, <2>4
<1> QED BY <1>5, <1>6, <1>7, <1>8, SeqEqual DEF x, y, rest

(* The place that ends a run of characters, or of delimiters.              *)
LEMMA FirstPlace ==
  ASSUME NEW C, NEW s \in Seq(C), NEW i \in 1 .. Len(s) + 1
  PROVE  /\ G!FirstFrom(s, i, FALSE) \in i .. Len(s) + 1
         /\ \A j \in i .. G!FirstFrom(s, i, FALSE) - 1 : s[j] = DELIM
         /\ G!FirstFrom(s, i, FALSE) <= Len(s) => s[G!FirstFrom(s, i, FALSE)] # DELIM
         /\ G!FirstFrom(s, i, TRUE) \in i .. Len(s) + 1
         /\ \A j \in i .. G!FirstFrom(s, i, TRUE) - 1 : s[j] # DELIM
         /\ G!FirstFrom(s, i, TRUE) <= Len(s) => s[G!FirstFrom(s, i, TRUE)] = DELIM
<1>1. PICK l \in Nat : l = Len(s)
  BY LenProperties
<1> DEFINE Places(T) == {l + 1} \cup {j \in i .. l : j \in T}
           Plain == {j \in i .. l : s[j] # DELIM}
           Delimiter == {j \in i .. l : s[j] = DELIM}
<1>2. ASSUME NEW T, NEW f, f = G!Min(Places(T))
      PROVE  /\ f \in i .. l + 1
             /\ \A j \in i .. f - 1 : j \notin T
             /\ f <= l => f \in T
  <2>1. Places(T) \in SUBSET Nat /\ Places(T) # {}
    BY <1>1
  <2>2. \E x \in Places(T) : \A y \in Places(T) : x <= y
    <3> HIDE DEF Places
    <3> QED BY <2>1, LeastExists
  <2>3. f \in Places(T) /\ \A y \in Places(T) : f <= y
    <3> HIDE DEF Places
    <3> QED BY <1>2, <2>2 DEF G!Min
  <2>4. f \in i .. l + 1 /\ (f <= l => f \in T)
    BY <1>1, <2>3
  <2>5. ASSUME NEW j \in i .. f - 1, j \in T PROVE FALSE
    <3>1. j \in i .. l /\ j < f
      BY <1>1, <2>4
    <3>2. j \in Places(T)
      BY <2>5, <3>1
    <3>3. f <= j
      BY <2>3, <3>2
    <3> QED BY <1>1, <2>4, <3>1, <3>3
  <2> QED BY <2>4, <2>5
<1>3. G!FirstFrom(s, i, FALSE) = G!Min(Places(Plain))
  <2>1. {j \in i .. l : (s[j] = DELIM) = FALSE} = {j \in i .. l : j \in Plain}
    OBVIOUS
  <2> QED BY <1>1, <2>1 DEF G!FirstFrom
<1>4. G!FirstFrom(s, i, TRUE) = G!Min(Places(Delimiter))
  <2>1. {j \in i .. l : (s[j] = DELIM) = TRUE} = {j \in i .. l : j \in Delimiter}
    OBVIOUS
  <2> QED BY <1>1, <2>1 DEF G!FirstFrom
<1> HIDE DEF Places
<1>5. PICK f, g : f = G!FirstFrom(s, i, FALSE) /\ g = G!FirstFrom(s, i, TRUE)
  OBVIOUS
<1>6. f \in i .. l + 1 /\ (\A j \in i .. f - 1 : j \notin Plain) /\ (f <= l => f \in Plain)
  <2> HIDE DEF Plain
  <2> QED BY <1>2, <1>3, <1>5
<1>7. g \in i .. l + 1 /\ (\A j \in i .. g - 1 : j \notin Delimiter) /\ (g <= l => g \in Delimiter)
  <2> HIDE DEF Delimiter
  <2> QED BY <1>2, <1>4, <1>5
<1>8. \A h \in i .. l + 1 : \A j \in i .. h - 1 : j \in i .. l
  BY <1>1
<1>9. (\A j \in i .. f - 1 : s[j] = DELIM) /\ (f <= l => s[f] # DELIM)
  BY <1>6, <1>8
<1>10. (\A j \in i .. g - 1 : s[j] # DELIM) /\ (g <= l => s[g] = DELIM)
  BY <1>7, <1>8
<1> QED BY <1>1, <1>5, <1>6, <1>7, <1>9, <1>10

-----------------------------------------------------------------------------
(* Where the stretches between delimiters start in s, and in its first p   *)
(* characters.                                                             *)
StartsOf(s) == {i \in DOMAIN s : s[i] # DELIM /\ (i > 1 => s[i - 1] = DELIM)}
UpTo(s, p) == {i \in StartsOf(s) : i <= p}

(* token is the stretch of s from i on, which ends before e.               *)
StretchTo(s, token, i, e) == /\ token = SubSeq(s, i, e - 1)
                             /\ \A j \in i .. e - 1 : s[j] # DELIM
                             /\ e <= Len(s) => s[e] = DELIM
StretchAt(s, token, i) == StretchTo(s, token, i, i + Len(token))

(* given are the stretches of the first p characters, which end with one.  *)
AtStop(s, p) == p = 0 \/ p = Len(s) \/ s[p] = DELIM
GivenTo(s, p, given) ==
  /\ AtStop(s, p)
  /\ given \in Seq(Seq(Char)) /\ Cardinality(UpTo(s, p)) = Len(given)
  /\ \A i \in UpTo(s, p) : StretchAt(s, given[Cardinality(UpTo(s, i))], i)

(* What strtok_ptr points to is the string behind what was given of it.    *)
SplitSoFar(s, rest, given, done) ==
  \E p \in 0 .. Len(s) : /\ rest = SubSeq(s, p + 1, Len(s))
                         /\ GivenTo(s, p, given)
                         /\ done => UpTo(s, p) = StartsOf(s)

LEMMA StartsFinite ==
  ASSUME NEW s \in Seq(Char)
  PROVE  /\ IsFiniteSet(StartsOf(s)) /\ StartsOf(s) \subseteq 1 .. Len(s)
         /\ \A p : /\ IsFiniteSet(UpTo(s, p)) /\ Cardinality(UpTo(s, p)) \in Nat
                   /\ Cardinality(UpTo(s, p)) <= Cardinality(StartsOf(s))
<1>1. Len(s) \in Nat /\ DOMAIN s = 1 .. Len(s)
  BY LenProperties
<1>2. IsFiniteSet(1 .. Len(s)) /\ StartsOf(s) \subseteq 1 .. Len(s)
  BY <1>1, FS_Interval DEF StartsOf
<1>3. IsFiniteSet(StartsOf(s))
  BY <1>2, FS_Subset
<1>4. ASSUME NEW p
      PROVE  /\ IsFiniteSet(UpTo(s, p)) /\ Cardinality(UpTo(s, p)) \in Nat
             /\ Cardinality(UpTo(s, p)) <= Cardinality(StartsOf(s))
  <2>1. UpTo(s, p) \subseteq StartsOf(s)
    BY DEF UpTo
  <2> QED BY <1>3, <2>1, FS_Subset, FS_CardinalityType
<1> QED BY <1>2, <1>3, <1>4

(* The rank of a start counts it with the ones before it.                  *)
LEMMA RankGrows ==
  ASSUME NEW s \in Seq(Char), NEW p \in Int, NEW i \in StartsOf(s)
  PROVE  /\ i <= p => Cardinality(UpTo(s, i)) \in 1 .. Cardinality(UpTo(s, p))
         /\ i > p  => Cardinality(UpTo(s, i)) > Cardinality(UpTo(s, p))
<1>1. i \in Int /\ i \in UpTo(s, i)
  BY StartsFinite, LenProperties DEF UpTo
<1>2. /\ IsFiniteSet(UpTo(s, i)) /\ Cardinality(UpTo(s, i)) \in Nat
      /\ IsFiniteSet(UpTo(s, p)) /\ Cardinality(UpTo(s, p)) \in Nat
  BY StartsFinite
<1>3. \A h \in StartsOf(s) : h \in Int
  BY StartsFinite, LenProperties
<1>4. CASE i <= p
  <2>1. UpTo(s, i) \subseteq UpTo(s, p)
    <3> SUFFICES ASSUME NEW h \in UpTo(s, i) PROVE h \in UpTo(s, p)
      OBVIOUS
    <3>1. h \in StartsOf(s) /\ h <= i /\ h \in Int
      BY <1>3 DEF UpTo
    <3> QED BY <1>1, <1>4, <3>1 DEF UpTo
  <2>2. Cardinality(UpTo(s, i)) <= Cardinality(UpTo(s, p))
    BY <1>2, <2>1, FS_Subset
  <2>3. Cardinality(UpTo(s, i)) # 0
    BY <1>1, <1>2, FS_EmptySet
  <2> QED BY <1>1, <1>2, <1>4, <2>2, <2>3
<1>5. CASE i > p
  <2>1. UpTo(s, p) \cup {i} \subseteq UpTo(s, i) /\ i \notin UpTo(s, p)
    <3>1. ASSUME NEW h \in UpTo(s, p) PROVE h \in UpTo(s, i)
      <4>1. h \in StartsOf(s) /\ h <= p /\ h \in Int
        BY <1>3 DEF UpTo
      <4> QED BY <1>1, <1>5, <4>1 DEF UpTo
    <3>2. i \notin UpTo(s, p)
      BY <1>1, <1>5 DEF UpTo
    <3> QED BY <1>1, <3>1, <3>2
  <2>2. Cardinality(UpTo(s, p) \cup {i}) = Cardinality(UpTo(s, p)) + 1
    BY <1>2, <2>1, FS_AddElement
  <2>3. Cardinality(UpTo(s, p) \cup {i}) <= Cardinality(UpTo(s, i))
    BY <1>2, <2>1, FS_Subset
  <2> QED BY <1>1, <1>2, <1>5, <2>2, <2>3
<1> QED BY <1>1, <1>4, <1>5

(* Where only delimiters are left no stretch starts.                       *)
LEMMA NoMoreTo ==
  ASSUME NEW s \in Seq(Char), NEW p \in 0 .. Len(s), NEW given, GivenTo(s, p, given),
         \A j \in p + 1 .. Len(s) : s[j] = DELIM
  PROVE  SplitSoFar(s, SubSeq(s, Len(s) + 1, Len(s)), given, TRUE)
<1>1. PICK l \in Nat : l = Len(s)
  BY LenProperties
<1>2. StartsOf(s) \subseteq 1 .. l
  BY <1>1, StartsFinite
<1>3. \A i \in StartsOf(s) : i <= p
  <2> SUFFICES ASSUME NEW i \in StartsOf(s), i > p PROVE FALSE
    BY <1>1, <1>2
  <2>1. i \in p + 1 .. Len(s)
    BY <1>1, <1>2
  <2>2. s[i] # DELIM
    BY DEF StartsOf
  <2> QED BY <2>1, <2>2
<1>4. UpTo(s, p) = StartsOf(s) /\ UpTo(s, Len(s)) = StartsOf(s)
  <2>1. \A i \in StartsOf(s) : i <= l
    BY <1>1, <1>2
  <2> QED BY <1>1, <1>3, <2>1 DEF UpTo
<1>5. GivenTo(s, Len(s), given)
  BY <1>4 DEF GivenTo, AtStop
<1>6. Len(s) \in 0 .. Len(s)
  BY <1>1
<1> QED BY <1>4, <1>5, <1>6 DEF SplitSoFar

(* The next stretch of s behind p is from i to e.                          *)
NextStretch(s, p, i, e) ==
  /\ p \in 0 .. Len(s) /\ i \in p + 1 .. Len(s) /\ e \in i + 1 .. Len(s) + 1
  /\ AtStop(s, p)
  /\ \A j \in p + 1 .. i - 1 : s[j] = DELIM
  /\ \A j \in i .. e - 1 : s[j] # DELIM
  /\ e <= Len(s) => s[e] = DELIM

StopOf(s, e) == IF e <= Len(s) THEN e ELSE Len(s)

(* Its start is the only one up to its end.                                *)
NewStart(s, p, i, e) ==
  /\ i \in StartsOf(s) /\ i \notin UpTo(s, p)
  /\ UpTo(s, i) = UpTo(s, p) \cup {i}
  /\ UpTo(s, StopOf(s, e)) = UpTo(s, p) \cup {i}

LEMMA NewStartTo ==
  ASSUME NEW s \in Seq(Char), NEW p, NEW i, NEW e, NextStretch(s, p, i, e)
  PROVE  NewStart(s, p, i, e)
<1>1. PICK l \in Nat : l = Len(s)
  BY LenProperties
<1>2. /\ p \in 0 .. l /\ i \in p + 1 .. l /\ e \in i + 1 .. l + 1
      /\ p = 0 \/ p = l \/ s[p] = DELIM
      /\ \A j \in p + 1 .. i - 1 : s[j] = DELIM
      /\ \A j \in i .. e - 1 : s[j] # DELIM
      /\ e <= l => s[e] = DELIM
  BY <1>1 DEF NextStretch, AtStop
<1>3. DOMAIN s = 1 .. l
  BY <1>1, LenProperties
<1>4. i \in StartsOf(s)
  <2>1. i \in DOMAIN s /\ s[i] # DELIM
    BY <1>2, <1>3
  <2>2. i > 1 => s[i - 1] = DELIM
    <3>1. CASE i = p + 1
      BY <1>2, <3>1
    <3>2. CASE i # p + 1
      <4>1. i - 1 \in p + 1 .. i - 1
        BY <1>2, <3>2
      <4> QED BY <1>2, <4>1
    <3> QED BY <3>1, <3>2
  <2> QED BY <2>1, <2>2 DEF StartsOf
<1>5. PICK q \in i .. l : q = StopOf(s, e) /\ q = IF e <= l THEN e ELSE l
  BY <1>1, <1>2 DEF StopOf
<1>6. ASSUME NEW h \in StartsOf(s), h <= q
      PROVE  h <= p \/ h = i
  <2>1. h \in 1 .. l /\ s[h] # DELIM /\ (h > 1 => s[h - 1] = DELIM)
    BY <1>3 DEF StartsOf
  <2>2. CASE h > p /\ h < i
    <3>1. h \in p + 1 .. i - 1
      BY <1>2, <2>1, <2>2
    <3> QED BY <1>2, <2>1, <3>1
  <2>3. CASE h > i
    <3>1. h > 1 /\ h - 1 \in i .. e - 1
      BY <1>2, <1>5, <1>6, <2>1, <2>3
    <3> QED BY <1>2, <2>1, <3>1
  <2> QED BY <1>2, <2>1, <2>2, <2>3
<1>7. \A h \in StartsOf(s) : h \in Int
  BY <1>3 DEF StartsOf
<1>8. ASSUME NEW r \in i .. q
      PROVE  UpTo(s, r) = UpTo(s, p) \cup {i}
  <2>1. ASSUME NEW h \in UpTo(s, r) PROVE h \in UpTo(s, p) \cup {i}
    <3>1. h \in StartsOf(s) /\ h <= r /\ h \in Int
      BY <1>7 DEF UpTo
    <3>2. h <= p \/ h = i
      BY <1>2, <1>5, <1>6, <3>1
    <3> QED BY <3>1, <3>2 DEF UpTo
  <2>2. ASSUME NEW h \in UpTo(s, p) PROVE h \in UpTo(s, r)
    <3>1. h \in StartsOf(s) /\ h <= p /\ h \in Int
      BY <1>7 DEF UpTo
    <3> QED BY <1>2, <3>1 DEF UpTo
  <2>3. i \in UpTo(s, r)
    BY <1>2, <1>4 DEF UpTo
  <2> QED BY <2>1, <2>2, <2>3
<1>9. i \in i .. q /\ q \in i .. q
  BY <1>2, <1>5
<1>10. i \notin UpTo(s, p)
  BY <1>2 DEF UpTo
<1> QED BY <1>4, <1>5, <1>8, <1>9, <1>10 DEF NewStart

(* Giving it goes on behind the delimiter that ends it.                    *)
OneMore(s, i, e, given) ==
  /\ SubSeq(s, i, e - 1) # << >>
  /\ SplitSoFar(s, SubSeq(s, e + 1, Len(s)), Append(given, SubSeq(s, i, e - 1)), FALSE)

LEMMA OneMoreTo ==
  ASSUME NEW s \in Seq(Char), NEW p, NEW i, NEW e, NEW given,
         NextStretch(s, p, i, e), GivenTo(s, p, given)
  PROVE  OneMore(s, i, e, given)
<1> DEFINE token == SubSeq(s, i, e - 1)
           more == Append(given, token)
           q == StopOf(s, e)
<1>1. PICK l \in Nat : l = Len(s)
  BY LenProperties
<1>2. /\ p \in 0 .. l /\ i \in p + 1 .. l /\ e \in i + 1 .. l + 1
      /\ \A j \in i .. e - 1 : s[j] # DELIM
      /\ e <= l => s[e] = DELIM
  BY <1>1 DEF NextStretch
<1>3. NewStart(s, p, i, e)
  BY NewStartTo
<1>4. token \in Seq(Char) /\ Len(token) = e - i
  <2>1. i \in 1 .. l + 1 /\ e - 1 \in i - 1 .. l
    BY <1>2
  <2>2. SubSeq(s, i, e - 1) \in Seq(Char) /\ Len(SubSeq(s, i, e - 1)) = (e - 1) - i + 1
    BY <1>1, <2>1, PartIs
  <2> QED BY <1>2, <2>2
<1>5. /\ given \in Seq(Seq(Char)) /\ Cardinality(UpTo(s, p)) = Len(given)
      /\ \A h \in UpTo(s, p) : StretchAt(s, given[Cardinality(UpTo(s, h))], h)
  BY DEF GivenTo
<1>6. StretchAt(s, token, i)
  <2>1. i + Len(token) = e
    BY <1>2, <1>4
  <2> QED BY <1>1, <1>2, <2>1 DEF StretchAt, StretchTo
<1>7. token # << >>
  <2>1. Len(token) # 0
    BY <1>2, <1>4
  <2> QED BY <2>1, EmptySeq
<1> HIDE DEF token
<1>8. /\ more \in Seq(Seq(Char)) /\ Len(more) = Len(given) + 1 /\ more[Len(given) + 1] = token
      /\ \A h \in 1 .. Len(given) : more[h] = given[h]
  <2> DEFINE T == Seq(Char)
  <2>1. given \in Seq(T) /\ token \in T
    BY <1>4, <1>5
  <2> HIDE DEF T
  <2>2. /\ more \in Seq(T) /\ Len(more) = Len(given) + 1 /\ more[Len(given) + 1] = token
        /\ \A h \in 1 .. Len(given) : more[h] = given[h]
    BY <2>1, AppendProperties
  <2> QED BY <2>2 DEF T
<1> HIDE DEF more
<1>9. PICK n \in Nat : n = Len(given)
  BY <1>5, LenProperties
<1>10. Cardinality(UpTo(s, q)) = n + 1 /\ Cardinality(UpTo(s, i)) = n + 1
  <2>1. IsFiniteSet(UpTo(s, p))
    BY StartsFinite
  <2>2. Cardinality(UpTo(s, p) \cup {i}) = Cardinality(UpTo(s, p)) + 1
    BY <1>3, <2>1, FS_AddElement DEF NewStart
  <2> QED BY <1>3, <1>5, <1>9, <2>2 DEF NewStart
<1>11. ASSUME NEW h \in UpTo(s, q)
       PROVE  StretchAt(s, more[Cardinality(UpTo(s, h))], h)
  <2>1. CASE h = i
    BY <1>6, <1>8, <1>9, <1>10, <2>1
  <2>2. CASE h # i
    <3>1. h \in UpTo(s, p) /\ h \in StartsOf(s) /\ h <= p /\ p \in Int
      BY <1>2, <1>3, <2>2 DEF NewStart, UpTo
    <3>2. Cardinality(UpTo(s, h)) \in 1 .. Len(given)
      BY <1>5, <3>1, RankGrows
    <3>3. more[Cardinality(UpTo(s, h))] = given[Cardinality(UpTo(s, h))]
      BY <1>8, <3>2
    <3> QED BY <1>5, <3>1, <3>3
  <2> QED BY <2>1, <2>2
<1>12. q \in 0 .. Len(s) /\ AtStop(s, q)
  BY <1>1, <1>2 DEF StopOf, AtStop
<1>13. GivenTo(s, q, more)
  BY <1>8, <1>9, <1>10, <1>11, <1>12 DEF GivenTo
<1>14. SubSeq(s, e + 1, Len(s)) = SubSeq(s, q + 1, Len(s))
  <2>1. CASE e <= l
    BY <1>1, <1>2, <2>1 DEF StopOf
  <2>2. CASE ~ (e <= l)
    <3>1. l < e + 1 /\ l < q + 1 /\ e + 1 \in Int /\ q + 1 \in Int /\ l \in Int
      BY <1>1, <1>2, <2>2 DEF StopOf
    <3>2. SubSeq(s, e + 1, l) = << >> /\ SubSeq(s, q + 1, l) = << >>
      BY <3>1, SubSeqEmpty
    <3> QED BY <1>1, <3>2
  <2> QED BY <2>1, <2>2
<1>15. SplitSoFar(s, SubSeq(s, e + 1, Len(s)), more, FALSE)
  BY <1>12, <1>13, <1>14 DEF SplitSoFar
<1> QED BY <1>7, <1>15 DEF OneMore, more, token

(* strtok, called with a string: the token is its next stretch.            *)
LEMMA TokenIsNext ==
  ASSUME NEW s \in Seq(Char), NEW rest, NEW given, NEW done, SplitSoFar(s, rest, given, done)
  PROVE  IF G!TokenOf(rest) = << >>
         THEN SplitSoFar(s, G!RestOf(rest), given, TRUE)
         ELSE SplitSoFar(s, G!RestOf(rest), Append(given, G!TokenOf(rest)), FALSE)
<1>1. PICK l \in Nat : l = Len(s)
  BY LenProperties
<1>2. PICK p \in 0 .. l : rest = SubSeq(s, p + 1, Len(s)) /\ GivenTo(s, p, given)
  BY <1>1 DEF SplitSoFar
<1>3. PICK m \in Nat : m = l - p
  OBVIOUS
<1>4. rest \in Seq(Char) /\ Len(rest) = m /\ \A j \in 1 .. m : rest[j] = s[p + j]
  <2>1. p + 1 \in 1 .. l + 1 /\ l \in (p + 1) - 1 .. l
    OBVIOUS
  <2>2. /\ rest \in Seq(Char) /\ Len(rest) = l - (p + 1) + 1
        /\ \A j \in 1 .. l - (p + 1) + 1 : rest[j] = s[(p + 1) + j - 1]
    BY <1>1, <1>2, <2>1, PartIs
  <2>3. l - (p + 1) + 1 = m /\ \A j \in 1 .. m : (p + 1) + j - 1 = p + j
    BY <1>3
  <2> QED BY <2>2, <2>3
<1>5. PICK f : f = G!FirstFrom(rest, 1, FALSE)
  OBVIOUS
<1>6. /\ f \in 1 .. m + 1 /\ \A j \in 1 .. f - 1 : rest[j] = DELIM
      /\ f <= m => rest[f] # DELIM
  <2>1. 1 \in 1 .. Len(rest) + 1
    BY <1>4
  <2> QED BY <1>4, <1>5, <2>1, FirstPlace
<1>7. PICK g : g = G!FirstFrom(rest, f, TRUE)
  OBVIOUS
<1>8. /\ g \in f .. m + 1 /\ \A j \in f .. g - 1 : rest[j] # DELIM
      /\ g <= m => rest[g] = DELIM
  <2>1. f \in 1 .. Len(rest) + 1
    BY <1>4, <1>6
  <2> QED BY <1>4, <1>7, <2>1, FirstPlace
<1>9. G!TokenOf(rest) = SubSeq(rest, f, g - 1) /\ G!RestOf(rest) = SubSeq(rest, g + 1, m)
  BY <1>4, <1>5, <1>7 DEF G!TokenOf, G!RestOf
<1>10. SubSeq(rest, f, g - 1) = SubSeq(s, p + f, p + g - 1)
  <2>1. f \in 1 .. l - p + 1 /\ g - 1 \in f - 1 .. l - p
    BY <1>3, <1>6, <1>8
  <2>2. p + (g - 1) = p + g - 1
    BY <1>8
  <2> QED BY <1>1, <1>2, <2>1, <2>2, PartOfEnd
<1>11. CASE f = m + 1
  <2>1. g = m + 1
    BY <1>8, <1>11
  <2>2. SubSeq(rest, f, g - 1) = << >> /\ SubSeq(rest, g + 1, m) = << >>
    <3>1. f \in Int /\ g - 1 \in Int /\ g - 1 < f /\ g + 1 \in Int /\ m \in Int /\ m < g + 1
      BY <1>11, <2>1
    <3> QED BY <3>1, SubSeqEmpty
  <2>3. SubSeq(s, l + 1, l) = << >>
    BY SubSeqEmpty
  <2>4. \A j \in p + 1 .. l : s[j] = DELIM
    <3> SUFFICES ASSUME NEW j \in p + 1 .. l PROVE s[j] = DELIM
      OBVIOUS
    <3>1. j - p \in 1 .. f - 1 /\ j - p \in 1 .. m /\ p + (j - p) = j
      BY <1>3, <1>11
    <3> QED BY <1>4, <1>6, <3>1
  <2>5. SplitSoFar(s, SubSeq(s, Len(s) + 1, Len(s)), given, TRUE)
    BY <1>1, <1>2, <2>4, NoMoreTo
  <2> QED BY <1>1, <1>9, <2>2, <2>3, <2>5
<1>12. CASE f # m + 1
  <2>1. f <= m /\ rest[f] # DELIM
    BY <1>6, <1>12
  <2>2. g > f
    <3>1. g = f => FALSE
      BY <1>8, <2>1
    <3> QED BY <1>6, <1>8, <3>1
  <2>3. PICK i \in Int, e \in Int : i = p + f /\ e = p + g
    BY <1>6, <1>8
  <2>4. \A j \in p + 1 .. i - 1 : s[j] = DELIM
    <3> SUFFICES ASSUME NEW j \in p + 1 .. i - 1 PROVE s[j] = DELIM
      OBVIOUS
    <3>1. j - p \in 1 .. f - 1 /\ j - p \in 1 .. m /\ p + (j - p) = j
      BY <1>6, <2>1, <2>3
    <3> QED BY <1>4, <1>6, <3>1
  <2>5. \A j \in i .. e - 1 : s[j] # DELIM
    <3> SUFFICES ASSUME NEW j \in i .. e - 1 PROVE s[j] # DELIM
      OBVIOUS
    <3>1. j - p \in f .. g - 1 /\ j - p \in 1 .. m /\ p + (j - p) = j
      BY <1>6, <1>8, <2>3
    <3> QED BY <1>4, <1>8, <3>1
  <2>6. e <= l => s[e] = DELIM
    <3> SUFFICES ASSUME e <= l PROVE s[e] = DELIM
      OBVIOUS
    <3>1. g <= m /\ g \in 1 .. m
      BY <1>3, <1>6, <1>8, <2>3
    <3> QED BY <1>4, <1>8, <2>3, <3>1
  <2>7. NextStretch(s, p, i, e)
    <3>1. i \in p + 1 .. l /\ e \in i + 1 .. l + 1
      BY <1>3, <1>6, <1>8, <2>1, <2>2, <2>3
    <3>2. AtStop(s, p)
      BY <1>2 DEF GivenTo
    <3> QED BY <1>1, <2>4, <2>5, <2>6, <3>1, <3>2 DEF NextStretch
  <2>8. OneMore(s, i, e, given)
    BY <1>2, <2>7, OneMoreTo
  <2>9. G!TokenOf(rest) = SubSeq(s, i, e - 1)
    <3>1. p + g - 1 = e - 1
      BY <1>6, <1>8, <2>3
    <3> QED BY <1>9, <1>10, <2>3, <3>1
  <2>10. G!RestOf(rest) = SubSeq(s, e + 1, Len(s))
    <3>1. CASE g <= m
      <4>1. g + 1 \in 1 .. l - p + 1 /\ l - p \in (g + 1) - 1 .. l - p
        BY <1>3, <1>6, <1>8, <3>1
      <4>2. SubSeq(rest, g + 1, l - p) = SubSeq(s, p + (g + 1), p + (l - p))
        BY <1>1, <1>2, <4>1, PartOfEnd
      <4>3. p + (g + 1) = e + 1 /\ p + (l - p) = l
        BY <1>8, <2>3
      <4> QED BY <1>1, <1>3, <1>9, <4>2, <4>3
    <3>2. CASE ~ (g <= m)
      <4>1. m < g + 1 /\ l < e + 1 /\ g + 1 \in Int /\ e + 1 \in Int
        BY <1>3, <1>8, <2>3, <3>2
      <4>2. SubSeq(rest, g + 1, m) = << >> /\ SubSeq(s, e + 1, l) = << >>
        BY <4>1, SubSeqEmpty
      <4> QED BY <1>1, <1>9, <4>2
    <3> QED BY <3>1, <3>2
  <2> QED BY <2>8, <2>9, <2>10 DEF OneMore
<1> QED BY <1>11, <1>12

(* Nothing is given of a new string yet.                                   *)
LEMMA SplitStarts ==
  ASSUME NEW s \in Seq(Char)
  PROVE  SplitSoFar(s, s, << >>, FALSE)
<1>1. PICK l \in Nat : l = Len(s)
  BY LenProperties
<1>2. UpTo(s, 0) = {}
  <2>1. \A i \in StartsOf(s) : i \in 1 .. l
    BY <1>1, StartsFinite
  <2> SUFFICES ASSUME NEW i \in UpTo(s, 0) PROVE FALSE
    OBVIOUS
  <2>2. i \in StartsOf(s) /\ i <= 0
    BY DEF UpTo
  <2> QED BY <2>1, <2>2
<1>3. Cardinality({}) = 0
  BY FS_EmptySet
<1>4. << >> \in Seq(Seq(Char)) /\ Len(<< >>) = 0
  BY EmptySeq
<1>5. GivenTo(s, 0, << >>)
  BY <1>2, <1>3, <1>4 DEF GivenTo, AtStop
<1>6. SubSeq(s, 0 + 1, Len(s)) = s /\ 0 \in 0 .. Len(s)
  BY <1>1, SubSeqFull
<1> QED BY <1>5, <1>6 DEF SplitSoFar

-----------------------------------------------------------------------------
(* The buffer holds what was said up to its end, and strtok_ptr is behind  *)
(* the tokens given, or NULL before the first string.                      *)
SplitUp == \/ strtok_ptr = NULL /\ str = << >> /\ tokens = << >> /\ ended = FALSE
           \/ SplitSoFar(str, strtok_ptr, tokens, ended)
TextInv == /\ said \in Seq(Formats) /\ buf = Cut(AllOf(said), SIZE - 1)
           /\ str \in Seq(Char) /\ SplitUp

LEMMA AllOfNone ==
  ASSUME KernelAssumption
  PROVE  << >> \in Seq(Formats) /\ << >> = Cut(AllOf(<< >>), SIZE - 1)
<1>1. PICK k \in Nat : k = SIZE - 1
  BY DEF KernelAssumption, G!TextAssumption
<1>2. PICK e \in Seq(Char) : e = << >> /\ Len(e) = 0
  BY EmptySeq
<1>3. Cut(e, k) \in Seq(Char) /\ Len(Cut(e, k)) = 0
  <2>1. Cut(e, k) \in Seq(Char) /\ Len(Cut(e, k)) = IF k <= Len(e) THEN k ELSE Len(e)
    BY CutIs
  <2> QED BY <1>2, <2>1
<1>4. Cut(e, k) = << >>
  BY <1>3, EmptySeq
<1> QED BY <1>1, <1>2, <1>4, AllOfEmpty, EmptySeq

LEMMA TextInvInit ==
  ASSUME KernelAssumption, G!Init
  PROVE  TextInv
<1>1. << >> \in Seq(Char)
  BY EmptySeq
<1> QED BY <1>1, AllOfNone DEF G!Init, TextInv, SplitUp

LEMMA TextInvFormat ==
  ASSUME KernelAssumption, TextInv, G!Format
  PROVE  TextInv'
<1>1. str' = str /\ strtok_ptr' = strtok_ptr /\ tokens' = tokens /\ ended' = ended
  BY DEF G!Format, G!Start, G!AppendFormat
<1>2. SplitUp' /\ str' \in Seq(Char)
  BY <1>1 DEF TextInv, SplitUp
<1>3. CASE G!Start
  BY <1>2, <1>3, AllOfNone DEF G!Start, TextInv
<1>4. CASE \E format \in Formats : G!AppendFormat(format)
  <2>1. PICK format \in Formats : G!AppendFormat(format)
    BY <1>4
  <2>2. PICK list \in Seq(Formats) : list = said
    BY DEF TextInv
  <2>3. PICK text : text = buf
    OBVIOUS
  <2>4. text = Cut(AllOf(list), SIZE - 1)
    BY <2>2, <2>3 DEF TextInv
  <2>5. /\ Append(list, format) \in Seq(Formats)
        /\ text \o G!snprintf(SIZE - Len(text), format) = Cut(AllOf(Append(list, format)), SIZE - 1)
    BY <2>4, PrintAppends
  <2>6. said' = Append(list, format) /\ buf' = text \o G!snprintf(SIZE - Len(text), format)
    BY <2>1, <2>2, <2>3 DEF G!AppendFormat
  <2> QED BY <1>2, <2>5, <2>6 DEF TextInv
<1> QED BY <1>3, <1>4 DEF G!Format

(* A call with a string, and one that goes on.                             *)
LEMMA TextInvSplit ==
  ASSUME KernelAssumption, TextInv, G!strtok
  PROVE  TextInv'
<1>1. buf' = buf /\ said' = said
  BY DEF G!strtok, G!Token
<1>2. PICK s \in Seq(Char), rest \in {str', strtok_ptr}, given \in {<< >>, tokens}, done \in BOOLEAN :
        str' = s /\ SplitSoFar(s, rest, given, done) /\ G!Token(rest, given)
  <2>1. CASE \E s \in Strings : str' = s /\ G!Token(s, << >>)
    <3>1. PICK s \in Strings : str' = s /\ G!Token(s, << >>)
      BY <2>1
    <3>2. s \in Seq(Char)
      BY DEF KernelAssumption, G!TextAssumption
    <3>3. SplitSoFar(s, s, << >>, FALSE)
      BY <3>2, SplitStarts
    <3> QED BY <3>1, <3>2, <3>3
  <2>2. CASE strtok_ptr # NULL /\ str' = str /\ G!Token(strtok_ptr, tokens)
    <3>1. str \in Seq(Char) /\ SplitSoFar(str, strtok_ptr, tokens, ended)
      BY <2>2 DEF TextInv, SplitUp
    <3>2. SplitSoFar(str, strtok_ptr, tokens, FALSE)
      BY <3>1 DEF SplitSoFar
    <3> QED BY <2>2, <3>1, <3>2
  <2> QED BY <2>1, <2>2 DEF G!strtok
<1>3. PICK t : t = G!TokenOf(rest)
  OBVIOUS
<1>4. IF t = << >> THEN SplitSoFar(s, G!RestOf(rest), given, TRUE)
      ELSE SplitSoFar(s, G!RestOf(rest), Append(given, t), FALSE)
  BY <1>2, <1>3, TokenIsNext
<1>5. /\ strtok_ptr' = G!RestOf(rest)
      /\ tokens' = IF t = << >> THEN given ELSE Append(given, t)
      /\ ended' = (t = << >>)
  BY <1>2, <1>3 DEF G!Token
<1>6. SplitSoFar(str', strtok_ptr', tokens', ended')
  BY <1>2, <1>4, <1>5
<1> QED BY <1>1, <1>2, <1>6 DEF TextInv, SplitUp

LEMMA TextInvPromises ==
  ASSUME KernelAssumption, TextInv
  PROVE  G!TextAsPromised
<1>1. buf = SubSeq(G!Whole, 1, G!Min({SIZE - 1, Len(G!Whole)}))
  <2>1. G!Whole = AllOf(said)
    BY DEF G!Whole, AllOf, Said
  <2>2. said \in Seq(Seq(G!Directive)) /\ SIZE - 1 \in Nat
    <3>1. Formats \subseteq Seq(G!Directive) /\ SIZE - 1 \in Nat
      BY DEF KernelAssumption, G!TextAssumption
    <3> QED BY <3>1, SeqMonotonic DEF TextInv
  <2>3. G!FlattenSeq(Said(said)) \in Seq(Glyph)
    <3>1. Said(said) \in Seq(Seq(Glyph))
      BY <2>2, SaidType
    <3>2. << >> \in Seq(Glyph)
      BY EmptySeq
    <3> QED BY <3>1, <3>2, FlattenAppend
  <2>4. Len(G!Whole) \in Nat
    BY <2>1, <2>3, LenProperties DEF AllOf
  <2>5. PICK k \in Int, l \in Int : k = SIZE - 1 /\ l = Len(G!Whole)
    BY <2>2, <2>4
  <2>6. G!Min({k, l}) = IF k <= l THEN k ELSE l
    BY TextMin
  <2> QED BY <2>1, <2>5, <2>6 DEF TextInv, Cut
<1>2. G!NumeralsRight
  BY NumeralsAreRight
<1>3. PICK s \in Seq(Char) : s = str
  BY DEF TextInv
<1>4. G!Starts = StartsOf(s)
  BY <1>3 DEF G!Starts, StartsOf
<1>5. \A i : G!Rank(i) = Cardinality(UpTo(s, i))
  BY <1>4 DEF G!Rank, UpTo, G!Cardinality, Cardinality
<1>6. /\ \A i \in StartsOf(s) : Cardinality(UpTo(s, i)) <= Len(tokens) =>
                                  StretchAt(s, tokens[Cardinality(UpTo(s, i))], i)
      /\ Len(tokens) <= Cardinality(StartsOf(s))
      /\ ended => Len(tokens) = Cardinality(StartsOf(s))
  <2>1. CASE strtok_ptr = NULL /\ str = << >> /\ tokens = << >> /\ ended = FALSE
    <3>1. StartsOf(s) = {}
      BY <1>3, <2>1 DEF StartsOf
    <3>2. Cardinality({}) = 0 /\ Len(<< >>) = 0
      BY FS_EmptySet
    <3> QED BY <2>1, <3>1, <3>2
  <2>2. CASE SplitSoFar(str, strtok_ptr, tokens, ended)
    <3>1. PICK p \in 0 .. Len(s) : /\ GivenTo(s, p, tokens)
                                   /\ ended => UpTo(s, p) = StartsOf(s)
      BY <1>3, <2>2 DEF SplitSoFar
    <3>2. /\ Cardinality(UpTo(s, p)) = Len(tokens)
          /\ \A i \in UpTo(s, p) : StretchAt(s, tokens[Cardinality(UpTo(s, i))], i)
      BY <3>1 DEF GivenTo
    <3>3. Cardinality(UpTo(s, p)) <= Cardinality(StartsOf(s)) /\ p \in Int
      BY <3>1, StartsFinite, LenProperties
    <3>4. ASSUME NEW i \in StartsOf(s), Cardinality(UpTo(s, i)) <= Len(tokens)
          PROVE  StretchAt(s, tokens[Cardinality(UpTo(s, i))], i)
      <4>1. i \in Int
        BY StartsFinite, LenProperties
      <4>2. Cardinality(UpTo(s, i)) \in Nat /\ Cardinality(UpTo(s, p)) \in Nat
        BY StartsFinite
      <4>3. i <= p
        <5> SUFFICES ASSUME i > p PROVE FALSE
          BY <3>3, <4>1
        <5>1. Cardinality(UpTo(s, i)) > Cardinality(UpTo(s, p))
          BY <3>3, RankGrows
        <5> QED BY <3>2, <3>4, <4>2, <5>1
      <4>4. i \in UpTo(s, p)
        BY <4>3 DEF UpTo
      <4> QED BY <3>2, <4>4
    <3> QED BY <3>1, <3>2, <3>3, <3>4
  <2> QED BY <2>1, <2>2 DEF TextInv, SplitUp
<1>7. ASSUME NEW token, NEW i, StretchAt(s, token, i)
      PROVE  G!IsStretch(token, i)
  <2>1. PICK e : e = i + Len(token)
    OBVIOUS
  <2>2. StretchTo(s, token, i, e)
    BY <1>7, <2>1 DEF StretchAt
  <2> QED BY <1>3, <2>1, <2>2 DEF G!IsStretch, StretchTo
<1>8. G!Cardinality(G!Starts) = Cardinality(StartsOf(s))
  BY <1>4 DEF G!Cardinality, Cardinality
<1>9. \A i \in G!Starts : G!Rank(i) <= Len(tokens) => G!IsStretch(tokens[G!Rank(i)], i)
  BY <1>4, <1>5, <1>6, <1>7
<1> QED BY <1>1, <1>2, <1>6, <1>8, <1>9 DEF G!TextAsPromised

(* Whatever is printed or split, the buffer holds the longest prefix of    *)
(* all formats that fits, numbers read back, and the tokens are the        *)
(* stretches of the string in order, all of them when strtok ends.         *)
THEOREM TextsAreRight ==
  KernelSpec => []TextAsPromised
<1>1. KernelInit => TextInv
  BY KernelAssumption, TextInvInit DEF KernelInit
<1>2. TextInv /\ [KernelNext]_kernelVars => TextInv'
  <2> SUFFICES ASSUME TextInv, [KernelNext]_kernelVars PROVE TextInv'
    OBVIOUS
  <2>1. UNCHANGED textVars \/ G!Format \/ G!strtok
    BY DEF KernelNext, kernelVars
  <2>2. CASE UNCHANGED textVars
    BY <2>2 DEF textVars, TextInv, SplitUp
  <2> QED BY <2>1, <2>2, KernelAssumption, TextInvFormat, TextInvSplit
<1>3. TextInv => TextAsPromised
  BY KernelAssumption, TextInvPromises DEF TextAsPromised
<1> QED BY <1>1, <1>2, <1>3, PTL DEF KernelSpec

-----------------------------------------------------------------------------
(* The scheduler.                                                          *)

USE QSizeAssumption, TimeSliceAssumption, NullAssumption, PriorityAssumption

(* Counting on from the head stays in the ring.                            *)
LEMMA SlotInRing ==
  ASSUME head \in Slots, NEW i \in Int
  PROVE  Slot(i) \in Slots
BY ModRange DEF Slot, Slots

(* A nonempty set of numbers has a smallest, which SmallestOf picks.       *)
LEMMA SmallestOfIsLeast ==
  ASSUME NEW S \in SUBSET Nat, S # {}
  PROVE  /\ SmallestOf(S) \in S
         /\ \A j \in S : SmallestOf(S) <= j
BY LeastExists DEF SmallestOf

(* scheduler_next returns a READY process of the queue, or no process.     *)
LEMMA NextPick ==
  ASSUME TypeOK
  PROVE  /\ Candidates \in SUBSET Slots
         /\ Candidates \subseteq ReadyOffsets
         /\ HeadAfterNext \in Slots
         /\ scheduler_next \in Proc \cup {NULL}
         /\ scheduler_next # NULL =>
              /\ state[scheduler_next] = "READY"
              /\ Queued(scheduler_next)
<1>1. /\ Candidates \in SUBSET Slots
      /\ Candidates \subseteq ReadyOffsets
  BY DEF Candidates, BestOffsets, ReadyOffsets
<1>2. CASE Candidates = {}
  BY <1>1, <1>2 DEF scheduler_next, HeadAfterNext, TypeOK
<1>3. CASE Candidates # {}
  <2> DEFINE k == SmallestOf(Candidates)
  <2>0. Candidates \in SUBSET Nat
    BY <1>1 DEF Slots
  <2>1. k \in Candidates /\ k \in Slots /\ k \in ReadyOffsets
    BY <1>1, <1>3, <2>0, SmallestOfIsLeast
  <2>2. Slot(k) \in Slots
    BY <2>1, SlotInRing DEF TypeOK, Slots
  <2>3. Ready(queue[Slot(k)])
    BY <2>1 DEF ReadyOffsets
  <2>4. scheduler_next = queue[Slot(k)]
    BY <1>3 DEF scheduler_next
  <2>5. HeadAfterNext = IF mode = "RR" THEN (head + k + 1) % QSIZE ELSE head
    BY <1>3 DEF HeadAfterNext
  <2> HIDE DEF k
  <2>6. (head + k + 1) % QSIZE \in Slots
    <3>1. head + k + 1 \in Int
      BY <2>1 DEF TypeOK, Slots
    <3> QED BY <3>1, ModRange DEF Slots
  <2> QED
    BY <1>1, <2>2, <2>3, <2>4, <2>5, <2>6 DEF TypeOK, Ready, Queued
<1> QED BY <1>2, <1>3

-----------------------------------------------------------------------------
(* A switch keeps the types.                                               *)
LEMMA RescheduleType ==
  ASSUME TypeOK, current # NULL, Reschedule
  PROVE  TypeOK'
<1>1. scheduler_next \in Proc \cup {NULL} /\ HeadAfterNext \in Slots
  BY NextPick
<1> HIDE DEF scheduler_next, HeadAfterNext
<1> QED
  BY <1>1 DEF Reschedule, Refilled, TypeOK, ProcState

(* The type invariant is inductive by itself.                              *)
LEMMA TypeStep ==
  ASSUME TypeOK, [Next]_vars
  PROVE  TypeOK'
<1>1. ASSUME NEW m \in Mode, scheduler_init(m) PROVE TypeOK'
  BY <1>1 DEF scheduler_init, TypeOK, Slots
<1>2. ASSUME NEW p \in Proc, scheduler_add(p) PROVE TypeOK'
  <2>1. (tail + 1) % QSIZE \in Slots
    <3>1. tail + 1 \in Int
      BY DEF TypeOK, Slots
    <3> QED BY <3>1, ModRange DEF Slots
  <2>2. count' \in 0 .. QSIZE
    BY <1>2 DEF scheduler_add, HasRoom, TypeOK
  <2> QED BY <1>2, <2>1, <2>2 DEF scheduler_add, HasRoom, TypeOK
<1>3. ASSUME NEW p \in Proc, scheduler_remove(p) PROVE TypeOK'
  <2> DEFINE s == Slot(SmallestOf(FoundAt(p)))
  <2>1. count \in 1 .. QSIZE
    BY <1>3 DEF scheduler_remove, FoundAt, TypeOK
  <2>2. /\ queue' = [queue EXCEPT ![s] = NULL]
        /\ count' = count - 1
        /\ UNCHANGED <<mode, head, tail, current, state, slice>>
    BY <1>3 DEF scheduler_remove
  <2> HIDE DEF s
  <2>3. queue' \in [Slots -> Proc \cup {NULL}]
    BY <2>2 DEF TypeOK
  <2>4. count' \in 0 .. QSIZE
    BY <2>1, <2>2
  <2> QED BY <2>2, <2>3, <2>4 DEF TypeOK
<1>4. CASE TickIdle
  <2>1. current' \in Proc \cup {NULL} /\ head' \in Slots
    BY <1>4, NextPick DEF TickIdle
  <2> QED BY <1>4, <2>1 DEF TickIdle, TypeOK
<1>5. CASE TickRunning
  BY <1>5 DEF TickRunning, TypeOK, ring
<1>6. CASE TickExpired \/ scheduler_yield
  BY <1>6, RescheduleType DEF TickExpired, scheduler_yield
<1>7. ASSUME NEW p \in Proc,
             scheduler_block(p) \/ scheduler_unblock(p) \/ ProcessExit(p)
      PROVE  TypeOK'
  BY <1>7 DEF scheduler_block, scheduler_unblock, ProcessExit, SetState,
              TypeOK, ProcState, ring
<1>8. ASSUME NEW m \in Mode, scheduler_set_mode(m) PROVE TypeOK'
  BY <1>8 DEF scheduler_set_mode, TypeOK, ring
<1>9. CASE UNCHANGED vars
  BY <1>9 DEF vars, TypeOK
<1> QED
  BY <1>1, <1>2, <1>3, <1>4, <1>5, <1>6, <1>7, <1>8, <1>9
     DEF Next, scheduler_tick

(* The scheduler starts with the right types.                              *)
LEMMA TypeInit == Init => TypeOK
BY DEF Init, TypeOK, Slots, ProcState

(* Type correctness, for every queue size and every quantum.               *)
THEOREM TypeCorrect == Spec => []TypeOK
<1>1. TypeOK /\ [Next]_vars => TypeOK'
  BY TypeStep
<1> QED BY <1>1, TypeInit, PTL DEF Spec

-----------------------------------------------------------------------------
(* The slots in use can be counted.                                        *)
LEMMA OccupiedFinite ==
  ASSUME NEW Q \in [Slots -> Proc \cup {NULL}]
  PROVE  IsFiniteSet({s \in Slots : Q[s] # NULL})
<1>1. IsFiniteSet(Slots)
  BY FS_Interval DEF Slots
<1> QED BY <1>1, FS_Subset

(* Every call keeps the count at or above the slots in use.                *)
LEMMA CoverStep ==
  ASSUME TypeOK, CountCoversQueue, [Next]_vars
  PROVE  CountCoversQueue'
<1> USE DEF CountCoversQueue
<1>0. IsFiniteSet(Occupied) /\ Cardinality(Occupied) \in Nat
  BY OccupiedFinite, FS_CardinalityType DEF Occupied, TypeOK
<1>1. ASSUME NEW m \in Mode, scheduler_init(m) PROVE CountCoversQueue'
  <2>1. Occupied' = {}
    BY <1>1 DEF scheduler_init, Occupied
  <2> QED BY <1>1, <2>1, FS_EmptySet DEF scheduler_init
<1>2. ASSUME NEW p \in Proc, scheduler_add(p) PROVE CountCoversQueue'
  <2>1. Occupied' = Occupied \cup {tail}
    BY <1>2 DEF scheduler_add, Occupied, TypeOK
  <2>2. Cardinality(Occupied') = IF tail \in Occupied THEN Cardinality(Occupied)
                                                     ELSE Cardinality(Occupied) + 1
    BY <1>0, <2>1, FS_AddElement
  <2>3. count' = count + 1 /\ count \in Nat
    BY <1>2 DEF scheduler_add, HasRoom, TypeOK
  <2> QED BY <1>0, <2>2, <2>3
<1>3. ASSUME NEW p \in Proc, scheduler_remove(p) PROVE CountCoversQueue'
  <2> DEFINE i == SmallestOf(FoundAt(p))
             s == Slot(i)
  <2>0. FoundAt(p) \in SUBSET Nat /\ FoundAt(p) # {}
    BY <1>3 DEF FoundAt, TypeOK, scheduler_remove
  <2>1. i \in FoundAt(p)
    BY <2>0, SmallestOfIsLeast
  <2>2. s \in Slots /\ queue[s] = p
    BY <2>0, <2>1, SlotInRing DEF FoundAt, TypeOK
  <2>3. queue' = [queue EXCEPT ![s] = NULL] /\ count' = count - 1
    BY <1>3 DEF scheduler_remove
  <2> HIDE DEF i, s
  <2>4. s \in Occupied /\ Occupied' = Occupied \ {s}
    BY <2>2, <2>3 DEF Occupied, TypeOK
  <2>5. Cardinality(Occupied') = Cardinality(Occupied) - 1
    BY <1>0, <2>4, FS_RemoveElement
  <2> QED BY <1>0, <2>3, <2>5 DEF TypeOK
<1>4. CASE UNCHANGED <<queue, count>>
  BY <1>4 DEF Occupied
<1>5. ASSUME NEW p \in Proc,
             scheduler_block(p) \/ scheduler_unblock(p) \/ ProcessExit(p)
      PROVE  UNCHANGED <<queue, count>>
  BY <1>5 DEF scheduler_block, scheduler_unblock, ProcessExit, SetState, ring
<1>6. ASSUME \/ scheduler_tick \/ scheduler_yield \/ UNCHANGED vars
             \/ \E m \in Mode : scheduler_set_mode(m)
      PROVE  UNCHANGED <<queue, count>>
  BY <1>6 DEF scheduler_tick, TickIdle, TickRunning, TickExpired, Reschedule,
              scheduler_yield, scheduler_set_mode, ring, vars
<1> QED
  BY <1>1, <1>2, <1>3, <1>4, <1>5, <1>6 DEF Next

(* g_queue_count never under-reports the queue: the early return of        *)
(* scheduler_next on a zero count skips nobody.                            *)
THEOREM CountCovers == Spec => []CountCoversQueue
<1>1. Init => CountCoversQueue
  <2> SUFFICES ASSUME Init PROVE CountCoversQueue
    OBVIOUS
  <2>1. Occupied = {}
    BY DEF Init, Occupied
  <2> QED BY <2>1, FS_EmptySet DEF Init, CountCoversQueue
<1>2. TypeOK /\ CountCoversQueue /\ [Next]_vars => CountCoversQueue'
  BY CoverStep
<1> QED BY <1>1, <1>2, TypeCorrect, PTL DEF Spec

-----------------------------------------------------------------------------
(* Every call keeps the quantum of who is not running whole.               *)
LEMMA QuantumStep ==
  ASSUME TypeOK, FullQuantumAtDispatch, [Next]_vars
  PROVE  FullQuantumAtDispatch'
<1> USE DEF FullQuantumAtDispatch
<1>1. CASE UNCHANGED <<current, slice>>
  BY <1>1
<1>2. CASE TickIdle
  BY <1>2 DEF TickIdle, TypeOK
<1>3. CASE TickRunning
  BY <1>3 DEF TickRunning, TypeOK
<1>4. ASSUME current # NULL, Reschedule
      PROVE  FullQuantumAtDispatch'
  <2>1. slice' = [slice EXCEPT ![current] = TIME_SLICE]
    BY <1>4 DEF Reschedule, Refilled
  <2>2. \A p \in Proc : slice'[p] = TIME_SLICE
    BY <1>4, <2>1 DEF TypeOK
  <2> QED BY <2>2
<1>5. ASSUME \/ UNCHANGED vars
             \/ \E m \in Mode : scheduler_init(m) \/ scheduler_set_mode(m)
             \/ \E p \in Proc : \/ scheduler_add(p) \/ scheduler_remove(p)
                                 \/ scheduler_block(p) \/ scheduler_unblock(p)
                                 \/ ProcessExit(p)
      PROVE  UNCHANGED <<current, slice>>
  BY <1>5 DEF vars, scheduler_init, scheduler_set_mode, scheduler_add, scheduler_remove,
              scheduler_block, scheduler_unblock, ProcessExit, SetState
<1> QED
  BY <1>1, <1>2, <1>3, <1>4, <1>5
     DEF Next, scheduler_tick, TickExpired, scheduler_yield

(* Whoever is given the processor has a full quantum, although only the    *)
(* process that loses it is refilled.                                      *)
THEOREM FullQuantum == Spec => []FullQuantumAtDispatch
<1>1. Init => FullQuantumAtDispatch
  BY DEF Init, FullQuantumAtDispatch
<1>2. TypeOK /\ FullQuantumAtDispatch /\ [Next]_vars => FullQuantumAtDispatch'
  BY QuantumStep
<1> QED BY <1>1, <1>2, TypeCorrect, PTL DEF Spec

-----------------------------------------------------------------------------
(* The slot s is the Distance(s)-th one the scan looks at.                 *)
LEMMA DistanceSlot ==
  ASSUME head \in Slots, NEW s \in Slots
  PROVE  /\ Distance(s) \in Slots
         /\ Slot(Distance(s)) = s
         /\ Distance(s) = IF s >= head THEN s - head ELSE s - head + QSIZE
<1>1. s - head + QSIZE \in 0 .. 2 * QSIZE - 1
  BY DEF Slots
<1>2. Distance(s) = IF s >= head THEN s - head ELSE s - head + QSIZE
  <2> DEFINE a == s - head + QSIZE
  <2>1. a \in 0 .. 2 * QSIZE - 1 /\ Distance(s) = a % QSIZE
    BY <1>1 DEF Distance
  <2> HIDE DEF a
  <2>2. Distance(s) = IF a < QSIZE THEN a ELSE a - QSIZE
    BY <2>1, ModWrap
  <2> QED BY <2>2 DEF a, Slots
<1>3. Distance(s) \in Slots /\ head + Distance(s) \in 0 .. 2 * QSIZE - 1
  BY <1>2 DEF Slots
<1>4. Slot(Distance(s)) = IF head + Distance(s) < QSIZE
                            THEN head + Distance(s)
                            ELSE head + Distance(s) - QSIZE
  <2> DEFINE a == head + Distance(s)
  <2>1. a \in 0 .. 2 * QSIZE - 1 /\ Slot(Distance(s)) = a % QSIZE
    BY <1>3 DEF Slot
  <2> HIDE DEF a
  <2>2. Slot(Distance(s)) = IF a < QSIZE THEN a ELSE a - QSIZE
    BY <2>1, ModWrap
  <2> QED BY <1>3, <2>2 DEF a, Slots
<1> QED BY <1>2, <1>3, <1>4 DEF Slots

(* A pick under round robin leaves every other READY entry strictly closer *)
(* to the head.                                                            *)
LEMMA PickAdvances ==
  ASSUME TypeOK, mode = "RR", head' = HeadAfterNext, head' # head,
         NEW s \in Slots, Ready(queue[s])
  PROVE  head' = (s + 1) % QSIZE \/ Distance(s)' < Distance(s)
<1> DEFINE k == SmallestOf(Candidates)
           d == Distance(s)
<1>1. d \in Slots /\ Slot(d) = s /\ head \in Slots
  BY DistanceSlot DEF TypeOK
<1>2. Candidates # {} /\ head' = (head + k + 1) % QSIZE
  BY DEF HeadAfterNext
<1>3. Candidates = ReadyOffsets
  BY <1>2 DEF Candidates
<1>4. d \in Candidates
  BY <1>1, <1>3 DEF ReadyOffsets
<1>5. k \in Slots /\ k <= d
  <2>1. Candidates \in SUBSET Nat /\ Candidates \subseteq Slots
    BY NextPick DEF Slots
  <2> QED BY <2>1, <1>2, <1>4, SmallestOfIsLeast
<1>6. d = IF s >= head THEN s - head ELSE s - head + QSIZE
  BY <1>1, DistanceSlot
<1>7. Distance(s)' = (s - head' + QSIZE) % QSIZE
  BY DEF Distance
<1> HIDE DEF k, d
<1>8. head + k + 1 \in 0 .. 2 * QSIZE - 1
  BY <1>1, <1>5 DEF Slots
<1>9. head' = IF head + k + 1 < QSIZE THEN head + k + 1 ELSE head + k + 1 - QSIZE
  <2> DEFINE a == head + k + 1
  <2>1. a \in 0 .. 2 * QSIZE - 1 /\ head' = a % QSIZE
    BY <1>2, <1>8
  <2> HIDE DEF a
  <2>2. head' = IF a < QSIZE THEN a ELSE a - QSIZE
    BY <2>1, ModWrap
  <2> QED BY <1>1, <1>5, <2>2 DEF a, Slots
<1>10. head' \in Slots
  BY <1>1, <1>5, <1>9 DEF Slots
<1>11. CASE k = d
  <2> DEFINE a == s + 1
             b == a % QSIZE
  <2>1. a \in 0 .. 2 * QSIZE - 1
    BY DEF Slots
  <2> HIDE DEF a
  <2>2. b = IF a < QSIZE THEN a ELSE a - QSIZE
    BY <2>1, ModWrap
  <2> HIDE DEF b
  <2>3. head' = b
    BY <1>1, <1>6, <1>9, <1>11, <2>2 DEF a, Slots
  <2> QED BY <2>3 DEF a, b
<1>12. CASE k < d
  <2> DEFINE a == s - head' + QSIZE
             e == Distance(s)'
  <2>1. a \in 0 .. 2 * QSIZE - 1 /\ e = a % QSIZE
    BY <1>7, <1>10 DEF Slots
  <2> HIDE DEF a, e
  <2>2. e = IF a < QSIZE THEN a ELSE a - QSIZE
    BY <2>1, ModWrap
  <2>3. e < d
    BY <1>1, <1>5, <1>6, <1>9, <1>12, <2>2 DEF a, Slots
  <2> QED BY <2>3 DEF d, e
<1> QED BY <1>1, <1>5, <1>11, <1>12 DEF Slots

(* Bounded overtaking under round robin, for every size of the queue.      *)
THEOREM RoundRobinFair == Spec => RoundRobinAdvances
<1> DEFINE A == mode = "RR" /\ mode' = "RR" /\ head' # head /\ queue' = queue =>
                  \A s \in Slots : Ready(queue[s]) =>
                     \/ head' = (s + 1) % QSIZE
                     \/ Distance(s)' < Distance(s)
<1>1. ASSUME TypeOK, [Next]_vars PROVE [A]_vars
  <2> SUFFICES ASSUME mode = "RR", mode' = "RR", head' # head, queue' = queue,
                      NEW s \in Slots, Ready(queue[s])
               PROVE  head' = (s + 1) % QSIZE \/ Distance(s)' < Distance(s)
    OBVIOUS
  <2>1. CASE head' = HeadAfterNext
    BY <1>1, <2>1, PickAdvances
  <2>2. ASSUME NEW m \in Mode, scheduler_init(m) PROVE FALSE
    BY <2>2 DEF scheduler_init, Ready
  <2>3. ASSUME scheduler_tick \/ scheduler_yield PROVE head' = HeadAfterNext
    BY <2>3 DEF scheduler_tick, TickIdle, TickRunning, TickExpired, scheduler_yield,
                Reschedule, ring
  <2>4. ASSUME \/ UNCHANGED vars
               \/ \E m \in Mode : scheduler_set_mode(m)
               \/ \E p \in Proc : \/ scheduler_add(p) \/ scheduler_remove(p)
                                   \/ scheduler_block(p) \/ scheduler_unblock(p)
                                   \/ ProcessExit(p)
        PROVE  head' = head
    BY <2>4 DEF vars, ring, scheduler_set_mode, scheduler_add, scheduler_remove,
                scheduler_block, scheduler_unblock, ProcessExit, SetState
  <2> QED BY <2>1, <2>2, <2>3, <2>4, <1>1 DEF Next
<1>2. TypeOK /\ [Next]_vars => [A]_vars
  BY <1>1
<1> QED BY <1>2, TypeCorrect, PTL DEF Spec, RoundRobinAdvances

-----------------------------------------------------------------------------
(* The switch makes READY the process it leaves and, besides, only a       *)
(* process that was READY.                                                 *)
LEMMA RescheduleKeepsOff ==
  ASSUME TypeOK, current # NULL, Reschedule
  PROVE  /\ \A p \in Proc : state[p] # "READY" /\ state'[p] = "READY" =>
                            p = current /\ current' # p
         /\ current' \notin {current, NULL} => state[current'] = "READY"
<1> DEFINE next == scheduler_next
<1>1. /\ next \in Proc \cup {NULL}
      /\ next # NULL => state[next] = "READY"
  BY NextPick
<1>2. IF next # NULL /\ next # current
        THEN /\ current' = next
             /\ state' = [state EXCEPT ![current] = "READY", ![next] = "READY"]
        ELSE UNCHANGED <<current, state>>
  BY DEF Reschedule
<1> HIDE DEF next
<1> QED BY <1>1, <1>2 DEF TypeOK

(* Nobody who is blocked or dead comes back but by scheduler_unblock, and  *)
(* by line 73 the process that is just losing the processor.               *)
THEOREM OffIsOff == Spec => OffStaysOff
<1> DEFINE A == /\ \A p \in Proc : state[p] # "READY" /\ state'[p] = "READY" =>
                      scheduler_unblock(p) \/ (p = current /\ current' # p)
                /\ current' \notin {current, NULL} => state[current'] = "READY"
<1>1. ASSUME TypeOK, [Next]_vars PROVE A
  <2>1. CASE TickExpired \/ scheduler_yield
    BY <1>1, <2>1, RescheduleKeepsOff DEF TickExpired, scheduler_yield
  <2>2. CASE TickIdle
    <3>1. scheduler_next # NULL => state[scheduler_next] = "READY"
      BY <1>1, NextPick
    <3>2. current' = scheduler_next /\ state' = state
      BY <2>2 DEF TickIdle
    <3> QED BY <3>1, <3>2
  <2>3. ASSUME NEW p \in Proc, scheduler_unblock(p) PROVE A
    BY <1>1, <2>3 DEF scheduler_unblock, SetState, TypeOK
  <2>4. ASSUME NEW p \in Proc, scheduler_block(p) \/ ProcessExit(p) PROVE A
    BY <1>1, <2>4 DEF scheduler_block, ProcessExit, SetState, TypeOK
  <2>5. ASSUME \/ UNCHANGED vars
               \/ TickRunning
               \/ \E p \in Proc : scheduler_add(p) \/ scheduler_remove(p)
               \/ \E m \in Mode : scheduler_init(m) \/ scheduler_set_mode(m)
        PROVE  UNCHANGED <<current, state>>
    BY <2>5 DEF vars, TickRunning, scheduler_add, scheduler_remove, scheduler_init,
                scheduler_set_mode
  <2>6. UNCHANGED <<current, state>> => A
    OBVIOUS
  <2> HIDE DEF A
  <2> QED BY <1>1, <2>1, <2>2, <2>3, <2>4, <2>5, <2>6 DEF Next, scheduler_tick
<1>2. TypeOK /\ [Next]_vars => [A]_vars
  BY <1>1
<1> QED BY <1>2, TypeCorrect, PTL DEF Spec, OffStaysOff

-----------------------------------------------------------------------------
(* The slot i places before t.                                             *)
Before(t, i) == (t + QSIZE - i) % QSIZE

(* How far a slot is ahead of the head, with the wrap spelled out.         *)
LEMMA BeforeIs ==
  ASSUME NEW t \in Slots, NEW i \in 0 .. QSIZE
  PROVE  Before(t, i) = IF i <= t THEN t - i ELSE t + QSIZE - i
<1> DEFINE a == t + QSIZE - i
<1>1. a \in 0 .. 2 * QSIZE - 1 /\ Before(t, i) = a % QSIZE
  BY DEF Slots, Before
<1> HIDE DEF a
<1>2. a % QSIZE = IF a < QSIZE THEN a ELSE a - QSIZE
  BY <1>1, ModWrap
<1> QED BY <1>1, <1>2 DEF a, Slots

(* One place further on, everything is one place further back.             *)
LEMMA BeforeShift ==
  ASSUME NEW t \in Slots, NEW i \in 1 .. QSIZE
  PROVE  /\ (t + 1) % QSIZE \in Slots
         /\ Before((t + 1) % QSIZE, i) = Before(t, i - 1)
<1> DEFINE a == t + 1
           u == a % QSIZE
<1>1. a \in 0 .. 2 * QSIZE - 1
  BY DEF Slots
<1> HIDE DEF a
<1>2. u = IF a < QSIZE THEN a ELSE a - QSIZE
  BY <1>1, ModWrap
<1> HIDE DEF u
<1>3. u = IF t + 1 < QSIZE THEN t + 1 ELSE 0
  BY <1>2 DEF a, Slots
<1>4. u \in Slots
  BY <1>3 DEF Slots
<1>5. Before(u, i) = IF i <= u THEN u - i ELSE u + QSIZE - i
  BY <1>4, BeforeIs
<1>6. i - 1 \in 0 .. QSIZE /\ Before(t, i - 1) = IF i - 1 <= t THEN t - (i - 1)
                                                              ELSE t + QSIZE - (i - 1)
  <2>1. i - 1 \in 0 .. QSIZE
    OBVIOUS
  <2> QED BY <2>1, BeforeIs
<1>7. Before(u, i) = Before(t, i - 1)
  BY <1>3, <1>5, <1>6 DEF Slots
<1> QED BY <1>4, <1>7 DEF u, a

(* An add at a compact ring with room goes to a free slot.                 *)
LEMMA AddKeepsCompact ==
  ASSUME TypeOK, Compact, NEW p \in Proc, scheduler_add(p)
  PROVE  /\ Compact'
         /\ \A r \in Proc : Queued(r) => Queued(r)'
<1>1. /\ tail \in Slots /\ count \in 0 .. QSIZE - 1
      /\ queue \in [Slots -> Proc \cup {NULL}]
      /\ queue' = [queue EXCEPT ![tail] = p]
      /\ tail' = (tail + 1) % QSIZE
      /\ count' = count + 1
  BY DEF scheduler_add, HasRoom, TypeOK
<1>2. Occupied = {Before(tail, i) : i \in 1 .. count}
  BY DEF Compact, Before
<1>3. tail \notin Occupied
  <2> SUFFICES ASSUME NEW i \in 1 .. count, Before(tail, i) = tail PROVE FALSE
    BY <1>2
  <2>1. i \in 0 .. QSIZE
    BY <1>1
  <2>2. Before(tail, i) = IF i <= tail THEN tail - i ELSE tail + QSIZE - i
    BY <1>1, <2>1, BeforeIs
  <2> QED BY <1>1, <2>2 DEF Slots
<1>4. Occupied' = Occupied \cup {tail}
  BY <1>1 DEF Occupied
<1>5. Before(tail, 0) = tail
  <2>1. 0 \in 0 .. QSIZE
    OBVIOUS
  <2>2. Before(tail, 0) = IF 0 <= tail THEN tail - 0 ELSE tail + QSIZE - 0
    BY <1>1, <2>1, BeforeIs
  <2> QED BY <1>1, <2>2 DEF Slots
<1>6. \A i \in 1 .. count + 1 : Before(tail', i) = Before(tail, i - 1)
  BY <1>1, BeforeShift
<1>7. {Before(tail', i) : i \in 1 .. count + 1} = {Before(tail, i) : i \in 0 .. count}
  <2>1. ASSUME NEW i \in 1 .. count + 1
        PROVE  \E j \in 0 .. count : Before(tail', i) = Before(tail, j)
    <3>1. i - 1 \in 0 .. count
      BY <1>1
    <3> QED BY <1>6, <3>1
  <2>2. ASSUME NEW j \in 0 .. count
        PROVE  \E i \in 1 .. count + 1 : Before(tail', i) = Before(tail, j)
    <3>1. j + 1 \in 1 .. count + 1 /\ (j + 1) - 1 = j
      BY <1>1
    <3> QED BY <1>6, <3>1
  <2> QED BY <2>1, <2>2
<1>8. {Before(tail, i) : i \in 0 .. count} = {Before(tail, i) : i \in 1 .. count} \cup {tail}
  <2>1. \A i : i \in 0 .. count <=> i = 0 \/ i \in 1 .. count
    BY <1>1
  <2> QED BY <1>5, <2>1
<1>9. Compact'
  <2>1. Compact' = (Occupied' = {Before(tail', i) : i \in 1 .. count'})
    BY DEF Compact, Before
  <2> QED BY <1>1, <1>2, <1>4, <1>7, <1>8, <2>1
<1>10. ASSUME NEW r \in Proc, Queued(r) PROVE Queued(r)'
  <2>1. PICK s \in Slots : queue[s] = r
    BY <1>10 DEF Queued
  <2>2. s # tail
    BY <1>3, <2>1, NullAssumption DEF Occupied
  <2>3. queue'[s] = r
    BY <1>1, <2>1, <2>2
  <2> QED BY <2>3 DEF Queued
<1> QED BY <1>9, <1>10

(* As long as nothing is removed, no process is lost from the run queue,   *)
(* for every size of it.                                                   *)
THEOREM RemovalsMakeHoles == Spec => OnlyRemovalsMakeHoles
<1> DEFINE A == Compact => \/ \E p \in Proc : scheduler_remove(p)
                           \/ \E m \in Mode : scheduler_init(m)
                           \/ Compact' /\ \A p \in Proc : Queued(p) => Queued(p)'
<1>1. ASSUME TypeOK, [Next]_vars, Compact,
             ~ \E p \in Proc : scheduler_remove(p),
             ~ \E m \in Mode : scheduler_init(m)
      PROVE  Compact' /\ \A p \in Proc : Queued(p) => Queued(p)'
  <2>1. ASSUME NEW p \in Proc, scheduler_add(p)
        PROVE  Compact' /\ \A r \in Proc : Queued(r) => Queued(r)'
    BY <1>1, <2>1, AddKeepsCompact
  <2>2. ASSUME \/ UNCHANGED vars
               \/ scheduler_tick \/ scheduler_yield
               \/ \E m \in Mode : scheduler_set_mode(m)
               \/ \E p \in Proc : scheduler_block(p) \/ scheduler_unblock(p) \/ ProcessExit(p)
        PROVE  UNCHANGED <<queue, tail, count>>
    BY <2>2 DEF vars, ring, scheduler_tick, TickIdle, TickRunning, TickExpired, Reschedule,
                scheduler_yield, scheduler_set_mode, scheduler_block, scheduler_unblock,
                ProcessExit, SetState
  <2>3. UNCHANGED <<queue, tail, count>> => Compact' /\ \A r \in Proc : Queued(r) => Queued(r)'
    BY <1>1 DEF Compact, Occupied, Queued
  <2> QED BY <1>1, <2>1, <2>2, <2>3 DEF Next
<1>2. TypeOK /\ [Next]_vars => [A]_vars
  BY <1>1
<1> QED BY <1>2, TypeCorrect, PTL DEF Spec, OnlyRemovalsMakeHoles
=============================================================================
