--------------------------- MODULE ServicesProofs ---------------------------
(***************************************************************************)
(* What is proved of the parts that MCServices puts side by side: of the   *)
(* access control, for every set of rules, labels and requests and every   *)
(* size of its tables, that a change of the rules changes decisions in one *)
(* direction only and that a label changes with its own process alone; of  *)
(* the debugger, for any number of breakpoints, that the code comes back;  *)
(* of the virtual file system, that a path resolves to what was mounted    *)
(* and that descriptors stay apart; of the sockets, that a new one has     *)
(* what was set in its slot while no socket was in it and nothing else; of *)
(* ext4, that a file in a single run is read byte for byte; and of the     *)
(* rings of all of them that readers get what was put in last.             *)
(***************************************************************************)
EXTENDS MCServices, RingFacts, FiniteSetTheorems, SequenceTheorems

-----------------------------------------------------------------------------
(* The log that the access control and the debugger both keep, about the   *)
(* values of its variables: lg the cells, h the counter, n the cells in    *)
(* use and rc the history.                                                 *)

(* recent is what the ring holds from the oldest entry on, where the       *)
(* counter has wrapped as well as before.                                  *)
CellOf(h, n, k) == (h - n + k - 1) % LOG_SIZE

LogHolds(T, lg, h, n, rc) ==
  /\ n \in 0 .. LOG_SIZE
  /\ h \in 0 .. LOG_WIDTH - 1
  /\ DOMAIN lg = 0 .. LOG_SIZE - 1
  /\ lg = [i \in 0 .. LOG_SIZE - 1 |-> lg[i]]
  /\ rc \in Seq(T) /\ Len(rc) = n
  /\ \A k \in 1 .. n : rc[k] = lg[CellOf(h, n, k)]

(* The smaller of two numbers.                                             *)
LEMMA MinIsSmaller ==
  ASSUME NEW a \in Nat, NEW b \in Nat
  PROVE  Min({a, b}) = IF a <= b THEN a ELSE b
<1>1. Min({a, b}) \in {a, b} /\ \A y \in {a, b} : Min({a, b}) <= y
  <2>1. \E x \in {a, b} : \A y \in {a, b} : x <= y
    OBVIOUS
  <2> QED BY <2>1 DEF Min
<1> QED BY <1>1

(* The cell of an entry does not move when the counter wraps, and entries  *)
(* of the ring are in cells of their own.                                  *)
LEMMA CellStays ==
  ASSUME RingAssumption, NEW h \in Int, NEW n \in Int, NEW k \in Int
  PROVE  /\ CellOf((h + 1) % LOG_WIDTH, n, k) = CellOf(h + 1, n, k)
         /\ CellOf(h, n, k) \in 0 .. LOG_SIZE - 1
<1> DEFINE y == h + 1
           w == y % LOG_WIDTH
           d == k - 1 - n
<1>1. LOG_SIZE \in Nat \ {0} /\ LOG_WIDTH \in Nat \ {0} /\ LOG_WIDTH % LOG_SIZE = 0
  BY DEF RingAssumption
<1>2. d \in Int /\ y \in Int
  OBVIOUS
<1> HIDE DEF y
<1>3. w \in Int /\ w % LOG_SIZE = y % LOG_SIZE
  <2>1. w \in 0 .. LOG_WIDTH - 1
    BY <1>1, <1>2, ModRange
  <2>2. (y % LOG_WIDTH) % LOG_SIZE = y % LOG_SIZE
    BY <1>1, <1>2, ModOfMod, Zenon
  <2> HIDE DEF w
  <2>3. w \in Int
    BY <1>1, <2>1
  <2> QED BY <2>2, <2>3 DEF w
<1> HIDE DEF w, d
<1>4. (w + d) % LOG_SIZE = ((w % LOG_SIZE) + d) % LOG_SIZE
  BY <1>1, <1>2, <1>3, ModPlus
<1>5. (y + d) % LOG_SIZE = ((y % LOG_SIZE) + d) % LOG_SIZE
  BY <1>1, <1>2, ModPlus
<1>6. w - n + k - 1 = w + d /\ y - n + k - 1 = y + d
  BY <1>2, <1>3 DEF d
<1>7. CellOf(w, n, k) = CellOf(y, n, k)
  BY <1>3, <1>4, <1>5, <1>6 DEF CellOf
<1>8. CellOf(h, n, k) \in 0 .. LOG_SIZE - 1
  <2>1. h - n + k - 1 \in Int
    OBVIOUS
  <2> QED BY <1>1, <2>1, ModRange DEF CellOf
<1> QED BY <1>7, <1>8 DEF w, y

(* An entry that stays is not in the cell that is written.                 *)
LEMMA CellsDiffer ==
  ASSUME RingAssumption, NEW h \in Int, NEW n \in 0 .. LOG_SIZE, NEW k \in 1 .. n,
         n < LOG_SIZE \/ k > 1
  PROVE  CellOf(h, n, k) # h % LOG_SIZE
<1>1. LOG_SIZE \in Nat \ {0} /\ h - n + k - 1 \in Int
  BY DEF RingAssumption
<1>2. h - n + k - 1 < h /\ h < (h - n + k - 1) + LOG_SIZE
  BY <1>1
<1> DEFINE x == h - n + k - 1
<1>3. x \in Int /\ x < h /\ h < x + LOG_SIZE
  BY <1>1, <1>2
<1> HIDE DEF x
<1>4. x % LOG_SIZE # h % LOG_SIZE
  <2> SUFFICES ASSUME x % LOG_SIZE = h % LOG_SIZE PROVE FALSE
    OBVIOUS
  <2>1. x <= h
    BY <1>3
  <2>2. x = h
    BY <1>1, <1>3, <2>1, ModInjective
  <2> QED BY <1>3, <2>2
<1> QED BY <1>4 DEF CellOf, x

(* The last of a sequence with one more.                                   *)
LEMMA LastOfAppend ==
  ASSUME NEW T, NEW s \in Seq(T), NEW e \in T, NEW n \in 1 .. Len(s) + 1,
         NEW t, t = LastOf(Append(s, e), n)
  PROVE  /\ t \in Seq(T) /\ Len(t) = n
         /\ \A k \in 1 .. n : t[k] = IF k = n THEN e ELSE s[Len(s) + 1 - n + k]
<1> DEFINE a == Append(s, e)
           m == Len(s)
           l == SubSeq(a, (m + 1) - n + 1, m + 1)
<1>1. m \in Nat /\ a \in Seq(T) /\ Len(a) = m + 1 /\ a[m + 1] = e
      /\ \A i \in 1 .. m : a[i] = s[i]
  BY AppendProperties, LenProperties
<1>2. LastOf(a, n) = l
  BY <1>1 DEF LastOf
<1> HIDE DEF a, m
<1> DEFINE f == (m + 1) - n + 1
<1>3. f \in 1 .. m + 1 /\ m + 1 \in Int /\ f \in Int /\ n \in 1 .. m + 1
  BY <1>1 DEF m
<1>4. \A i \in f .. m + 1 : a[i] \in T
  <2> TAKE i \in f .. m + 1
  <2>1. i \in 1 .. Len(a)
    BY <1>1, <1>3
  <2> QED BY <1>1, <2>1, ElementOfSeq
<1>5. l = SubSeq(a, f, m + 1)
  OBVIOUS
<1>6. (m + 1) - f + 1 = n /\ f <= m + 1
  BY <1>1, <1>3
<1> HIDE DEF l
<1>7. /\ l \in Seq(T)
      /\ Len(l) = n
      /\ \A i \in 1 .. n : l[i] = a[f + i - 1]
  BY <1>3, <1>4, <1>5, <1>6, SubSeqProperties
<1>8. ASSUME NEW k \in 1 .. n
      PROVE  l[k] = IF k = n THEN e ELSE s[m + 1 - n + k]
  <2>1. l[k] = a[f + k - 1] /\ f + k - 1 = m + 1 - n + k
    BY <1>1, <1>3, <1>7
  <2>2. CASE k = n
    <3>1. m + 1 - n + k = m + 1
      BY <1>1, <2>2
    <3> QED BY <1>1, <2>1, <2>2, <3>1
  <2>3. CASE k # n
    <3>1. m + 1 - n + k \in 1 .. m
      BY <1>1, <1>3, <2>3
    <3> QED BY <1>1, <2>1, <2>3, <3>1
  <2> QED BY <2>2, <2>3
<1> QED BY <1>2, <1>7, <1>8 DEF a, m

(* Logging an entry keeps the invariant.                                   *)
LEMMA LogKeeps ==
  ASSUME RingAssumption, NEW T, NEW e \in T,
         NEW lg, NEW h, NEW n, NEW rc, LogHolds(T, lg, h, n, rc),
         NEW lg2, lg2 = [lg EXCEPT ![h % LOG_SIZE] = e],
         NEW h2, h2 = (h + 1) % LOG_WIDTH,
         NEW n2, n2 = Counted(n),
         NEW rc2, rc2 = LastOf(Append(rc, e), Min({LOG_SIZE, Len(rc) + 1}))
  PROVE  LogHolds(T, lg2, h2, n2, rc2)
<1> DEFINE cell == h % LOG_SIZE
<1>1. /\ LOG_SIZE \in Nat \ {0} /\ LOG_WIDTH \in Nat \ {0}
      /\ h \in 0 .. LOG_WIDTH - 1 /\ n \in 0 .. LOG_SIZE
      /\ rc \in Seq(T) /\ Len(rc) = n
  BY DEF RingAssumption, LogHolds
<1>2. cell \in 0 .. LOG_SIZE - 1 /\ h2 \in 0 .. LOG_WIDTH - 1
  <2>1. h \in Int /\ h + 1 \in Int
    BY <1>1
  <2> QED BY <1>1, <2>1, ModRange
<1>3. lg2 = [lg EXCEPT ![cell] = e]
  OBVIOUS
<1>4. n2 \in 1 .. LOG_SIZE /\ n2 <= n + 1
      /\ n2 = IF n < LOG_SIZE THEN n + 1 ELSE LOG_SIZE
  BY <1>1 DEF Counted
<1>5. rc2 = LastOf(Append(rc, e), n2)
  <2>1. Min({LOG_SIZE, n + 1}) = n2
    <3>1. Min({LOG_SIZE, n + 1}) = IF LOG_SIZE <= n + 1 THEN LOG_SIZE ELSE n + 1
      BY <1>1, MinIsSmaller
    <3> QED BY <1>1, <1>4, <3>1
  <2> QED BY <1>1, <2>1
<1> HIDE DEF cell
<1>6. /\ rc2 \in Seq(T) /\ Len(rc2) = n2
      /\ \A k \in 1 .. n2 : rc2[k] = IF k = n2 THEN e ELSE rc[n + 1 - n2 + k]
  <2>1. n2 \in 1 .. Len(rc) + 1
    BY <1>1, <1>4
  <2>2. /\ rc2 \in Seq(T) /\ Len(rc2) = n2
        /\ \A k \in 1 .. n2 :
             rc2[k] = IF k = n2 THEN e ELSE rc[Len(rc) + 1 - n2 + k]
    <3> DEFINE IsLast(U, s, x, k, t) ==
             /\ t \in Seq(U) /\ Len(t) = k
             /\ \A i \in 1 .. k : t[i] = IF i = k THEN x ELSE s[Len(s) + 1 - k + i]
    <3>1. \A U : \A s \in Seq(U), x \in U : \A k \in 1 .. Len(s) + 1 : \A t :
             t = LastOf(Append(s, x), k) => IsLast(U, s, x, k, t)
      BY LastOfAppend
    <3> HIDE DEF IsLast
    <3>2. IsLast(T, rc, e, n2, rc2)
      BY <1>1, <1>5, <2>1, <3>1
    <3> QED BY <3>2 DEF IsLast
  <2> QED BY <1>1, <2>2
<1>7. /\ DOMAIN lg = 0 .. LOG_SIZE - 1
      /\ lg = [i \in 0 .. LOG_SIZE - 1 |-> lg[i]]
      /\ \A k \in 1 .. n : rc[k] = lg[CellOf(h, n, k)]
  BY DEF LogHolds
<1>8. /\ DOMAIN lg2 = 0 .. LOG_SIZE - 1
      /\ lg2 = [i \in 0 .. LOG_SIZE - 1 |-> lg2[i]]
      /\ \A i \in 0 .. LOG_SIZE - 1 : lg2[i] = IF i = cell THEN e ELSE lg[i]
  BY <1>2, <1>3, <1>7
<1>9. ASSUME NEW k \in 1 .. n2
      PROVE  rc2[k] = lg2[CellOf(h2, n2, k)]
  <2>1. CellOf(h2, n2, k) = CellOf(h + 1, n2, k) /\ CellOf(h2, n2, k) \in 0 .. LOG_SIZE - 1
    <3>1. h \in Int /\ n2 \in Int /\ k \in Int /\ h2 \in Int
      BY <1>1, <1>2, <1>4
    <3> QED BY <3>1, CellStays
  <2>2. CASE k = n2
    <3>1. CellOf(h + 1, n2, k) = cell
      <4>1. (h + 1) - n2 + k - 1 = h
        BY <1>1, <1>4, <2>2
      <4> QED BY <4>1 DEF CellOf, cell
    <3> QED BY <1>2, <1>6, <1>8, <2>1, <2>2, <3>1
  <2>3. CASE k # n2
    <3> DEFINE j == n + 1 - n2 + k
    <3>1. j \in 1 .. n /\ (n < LOG_SIZE \/ j > 1)
      BY <1>1, <1>4, <2>3
    <3>2. (h + 1) - n2 + k - 1 = h - n + j - 1
      BY <1>1, <1>4
    <3>3. rc2[k] = rc[j]
      BY <1>6, <2>3
    <3> HIDE DEF j
    <3>4. CellOf(h + 1, n2, k) = CellOf(h, n, j)
      BY <3>2 DEF CellOf
    <3>5. CellOf(h, n, j) # cell
      <4>1. h \in Int
        BY <1>1
      <4> QED BY <1>1, <3>1, <4>1, CellsDiffer DEF cell
    <3>6. rc[j] = lg[CellOf(h, n, j)]
      BY <1>7, <3>1
    <3> QED BY <1>8, <2>1, <3>3, <3>4, <3>5, <3>6
  <2> QED BY <2>2, <2>3
<1>10. n2 \in 0 .. LOG_SIZE
  BY <1>1, <1>4
<1> QED BY <1>2, <1>6, <1>8, <1>9, <1>10 DEF LogHolds

(* The empty log is in the invariant.                                      *)
LEMMA LogStart ==
  ASSUME RingAssumption, NEW T, NEW lg, lg = [i \in 0 .. LOG_SIZE - 1 |-> NOENTRY]
  PROVE  LogHolds(T, lg, 0, 0, << >>)
<1>1. LOG_SIZE \in Nat \ {0} /\ LOG_WIDTH \in Nat \ {0}
  BY DEF RingAssumption
<1>2. << >> \in Seq(T) /\ Len(<< >>) = 0
  BY EmptySeq
<1>3. DOMAIN lg = 0 .. LOG_SIZE - 1 /\ lg = [i \in 0 .. LOG_SIZE - 1 |-> lg[i]]
  OBVIOUS
<1> QED BY <1>1, <1>2, <1>3 DEF LogHolds

(* What a reader with a buffer of max entries is given.                    *)
ReadOf(lg, h, n, max) ==
  [k \in 1 .. Min({n, max}) |-> lg[((h - Min({n, max}) + (k - 1)) % LOG_WIDTH) % LOG_SIZE]]

(* What the ring holds is what a reader gets.                              *)
LEMMA ReadersGetRecent ==
  ASSUME RingAssumption, NEW T, NEW lg, NEW h, NEW n, NEW rc, LogHolds(T, lg, h, n, rc),
         NEW max \in Nat
  PROVE  ReadOf(lg, h, n, max) = LastOf(rc, Min({Len(rc), max}))
<1>1. /\ LOG_SIZE \in Nat \ {0} /\ LOG_WIDTH \in Nat \ {0} /\ LOG_WIDTH % LOG_SIZE = 0
      /\ h \in Nat /\ n \in 0 .. LOG_SIZE
      /\ rc \in Seq(T) /\ Len(rc) = n
      /\ \A k \in 1 .. n : rc[k] = lg[CellOf(h, n, k)]
  <2>1. LOG_SIZE \in Nat \ {0} /\ LOG_WIDTH \in Nat \ {0} /\ LOG_WIDTH % LOG_SIZE = 0
    BY DEF RingAssumption
  <2>2. h \in 0 .. LOG_WIDTH - 1 /\ n \in 0 .. LOG_SIZE /\ rc \in Seq(T) /\ Len(rc) = n
    BY DEF LogHolds
  <2>3. \A k \in 1 .. n : rc[k] = lg[CellOf(h, n, k)]
    BY DEF LogHolds
  <2>4. h \in Nat
    BY <2>1, <2>2
  <2> QED BY <2>1, <2>2, <2>3, <2>4
<1> DEFINE m == Min({n, max})
           l == LastOf(rc, m)
           at(k) == ((h - m + (k - 1)) % LOG_WIDTH) % LOG_SIZE
<1>2. m = IF n <= max THEN n ELSE max
  BY <1>1, MinIsSmaller
<1>3. ReadOf(lg, h, n, max) = [k \in 1 .. m |-> lg[at(k)]]
  BY DEF ReadOf
<1> HIDE DEF m
<1>4. m \in 0 .. n
  BY <1>1, <1>2
<1>5. /\ l \in Seq(T) /\ Len(l) = m
      /\ \A k \in 1 .. m : l[k] = rc[n - m + k]
  <2> DEFINE f == n - m + 1
             t == SubSeq(rc, f, n)
  <2>1. f \in Int /\ n \in Int /\ n - f + 1 = m
    BY <1>1, <1>4
  <2>2. \A i \in f .. n : rc[i] \in T
    <3> TAKE i \in f .. n
    <3>1. i \in 1 .. Len(rc)
      BY <1>1, <1>4
    <3> QED BY <1>1, <3>1, ElementOfSeq
  <2>3. l = t
    BY <1>1 DEF LastOf
  <2> HIDE DEF t, l
  <2>4. t = SubSeq(rc, f, n)
    BY DEF t
  <2> HIDE DEF f
  <2>5. /\ t \in Seq(T)
        /\ Len(t) = IF f <= n THEN n - f + 1 ELSE 0
        /\ \A i \in 1 .. n - f + 1 : t[i] = rc[f + i - 1]
    BY <2>1, <2>2, <2>4, SubSeqProperties
  <2>6. Len(t) = m
    BY <1>1, <1>4, <2>1, <2>5
  <2>7. \A i \in 1 .. m : f + i - 1 = n - m + i
    BY <1>1, <1>4 DEF f
  <2> QED BY <2>1, <2>3, <2>5, <2>6, <2>7
<1>6. ASSUME NEW k \in 1 .. m
      PROVE  l[k] = lg[at(k)]
  <2> DEFINE x == h - m + (k - 1)
  <2>1. n - m + k \in 1 .. n /\ x \in Int /\ h - n + (n - m + k) - 1 = x
    BY <1>1, <1>4
  <2>2. l[k] = lg[CellOf(h, n, n - m + k)]
    BY <1>1, <1>5, <2>1
  <2>3. CellOf(h, n, n - m + k) = x % LOG_SIZE
    BY <2>1 DEF CellOf
  <2>4. at(k) = (x % LOG_WIDTH) % LOG_SIZE
    OBVIOUS
  <2> HIDE DEF x
  <2>5. (x % LOG_WIDTH) % LOG_SIZE = x % LOG_SIZE
    BY <1>1, <2>1, ModOfMod, Zenon
  <2> QED BY <2>2, <2>3, <2>4, <2>5
<1> HIDE DEF l, at
<1>7. l = [k \in 1 .. m |-> lg[at(k)]]
  <2>1. l = [k \in 1 .. m |-> l[k]]
    BY <1>1, <1>4, <1>5
  <2> QED BY <1>6, <2>1
<1>8. l = LastOf(rc, Min({Len(rc), max}))
  BY <1>1 DEF l, m
<1> QED BY <1>3, <1>7, <1>8

-----------------------------------------------------------------------------
(* The access control: the rules.                                          *)

AllRules == NewRules \cup {DefaultRules[i] : i \in DOMAIN DefaultRules}

PolicyTyped == mode \in Mode /\ rules \in Seq(AllRules)

(* The rules that decide, in a table and in one that has a rule less.      *)
SameBut(rs, less, i) ==
  /\ \A j \in DOMAIN less : \E k \in DOMAIN rs : k # i /\ less[j] = rs[k]
  /\ \A k \in DOMAIN rs : k # i => \E j \in DOMAIN less : less[j] = rs[k]

(* A rule less, whichever and from wherever: without an allow rule nothing *)
(* new is granted, without a deny rule nothing is taken away.              *)
LEMMA LessDecides ==
  ASSUME NEW rs, NEW less, NEW i \in DOMAIN rs, SameBut(rs, less, i),
         NEW type, NEW q
  PROVE  /\ rs[i].allow => (Decided(less, type, q) => Decided(rs, type, q))
         /\ ~rs[i].allow => (Decided(rs, type, q) => Decided(less, type, q))
<1>1. ASSUME rs[i].allow, Decided(less, type, q)
      PROVE  Decided(rs, type, q)
  <2>1. \E k \in DOMAIN rs : rs[k].allow /\ Matches(rs[k], type, q)
    BY <1>1 DEF Decided, SameBut
  <2>2. ~\E k \in DOMAIN rs : ~rs[k].allow /\ Matches(rs[k], type, q)
    BY <1>1 DEF Decided, SameBut
  <2> QED BY <2>1, <2>2 DEF Decided
<1>2. ASSUME ~rs[i].allow, Decided(rs, type, q)
      PROVE  Decided(less, type, q)
  <2>1. \E k \in DOMAIN less : less[k].allow /\ Matches(less[k], type, q)
    BY <1>2 DEF Decided, SameBut
  <2>2. ~\E k \in DOMAIN less : ~less[k].allow /\ Matches(less[k], type, q)
    BY <1>2 DEF Decided, SameBut
  <2> QED BY <2>1, <2>2 DEF Decided
<1> QED BY <1>1, <1>2

(* The table after a rule is added, less that rule, is the table before.   *)
LEMMA AppendIsMore ==
  ASSUME NEW T, NEW rs \in Seq(T), NEW r \in T
  PROVE  /\ Append(rs, r) \in Seq(T)
         /\ Len(rs) + 1 \in DOMAIN Append(rs, r)
         /\ Append(rs, r)[Len(rs) + 1] = r
         /\ SameBut(Append(rs, r), rs, Len(rs) + 1)
<1> DEFINE a == Append(rs, r)
           n == Len(rs)
<1>1. /\ a \in Seq(T) /\ Len(a) = n + 1 /\ n \in Nat
      /\ \A i \in 1 .. n : a[i] = rs[i]
      /\ a[n + 1] = r
  BY AppendProperties, LenProperties
<1>2. DOMAIN rs = 1 .. n /\ DOMAIN a = 1 .. Len(a)
  BY <1>1, LenProperties
<1> HIDE DEF a, n
<1>3. /\ n + 1 \in DOMAIN a
      /\ \A i \in DOMAIN rs : i \in DOMAIN a /\ i # n + 1 /\ a[i] = rs[i]
      /\ \A i \in DOMAIN a : i # n + 1 => i \in DOMAIN rs
  BY <1>1, <1>2
<1>4. SameBut(a, rs, n + 1)
  BY <1>3 DEF SameBut
<1> QED BY <1>1, <1>3, <1>4 DEF a, n

(* The shift of a removal loses the rule at i and no other.                *)
LEMMA ShiftedIsLess ==
  ASSUME NEW T, NEW rs \in Seq(T), NEW i \in DOMAIN rs
  PROVE  Shifted(rs, i) \in Seq(T) /\ SameBut(rs, Shifted(rs, i), i)
<1> DEFINE n == Len(rs)
           sh == Shifted(rs, i)
<1>1. n \in Nat /\ DOMAIN rs = 1 .. n /\ i \in 1 .. n /\ \A k \in 1 .. n : rs[k] \in T
  BY LenProperties, ElementOfSeq
<1>2. sh = [j \in 1 .. n - 1 |-> IF j < i THEN rs[j] ELSE rs[j + 1]]
  BY DEF Shifted
<1> HIDE DEF n, sh
<1>3. ASSUME NEW j \in 1 .. n - 1
      PROVE  \E k \in 1 .. n : k # i /\ sh[j] = rs[k]
  <2>1. CASE j < i
    BY <1>1, <1>2, <2>1
  <2>2. CASE ~(j < i)
    <3>1. j + 1 \in 1 .. n /\ j + 1 # i /\ sh[j] = rs[j + 1]
      BY <1>1, <1>2, <2>2
    <3> QED BY <3>1
  <2> QED BY <2>1, <2>2
<1>4. ASSUME NEW k \in 1 .. n, k # i
      PROVE  \E j \in 1 .. n - 1 : sh[j] = rs[k]
  <2>1. CASE k < i
    <3>1. k \in 1 .. n - 1 /\ sh[k] = rs[k]
      BY <1>1, <1>2, <2>1
    <3> QED BY <3>1
  <2>2. CASE ~(k < i)
    <3>1. k - 1 \in 1 .. n - 1 /\ ~(k - 1 < i) /\ (k - 1) + 1 = k
      BY <1>1, <1>4, <2>2
    <3>2. sh[k - 1] = rs[k]
      BY <1>2, <3>1
    <3> QED BY <3>1, <3>2
  <2> QED BY <2>1, <2>2
<1>5. DOMAIN sh = 1 .. n - 1
  BY <1>2
<1>6. \A j \in 1 .. n - 1 : sh[j] \in T
  BY <1>1, <1>3
<1>7. sh \in Seq(T)
  <2>1. sh \in [1 .. n - 1 -> T] /\ n - 1 \in Nat
    BY <1>1, <1>2, <1>6
  <2> QED BY <2>1
<1>8. SameBut(rs, sh, i)
  BY <1>1, <1>3, <1>4, <1>5 DEF SameBut
<1> QED BY <1>7, <1>8 DEF sh

(* The first rule of a name is one of them.                                *)
LEMMA FirstIsNamed ==
  ASSUME NEW T, NEW rs \in Seq(T), NEW Named \in SUBSET DOMAIN rs, Named # {}
  PROVE  Min(Named) \in DOMAIN rs
<1>1. Named \in SUBSET Nat
  BY LenProperties
<1>2. \E x \in Named : \A y \in Named : x <= y
  BY <1>1, LeastExists
<1> QED BY <1>2 DEF Min

(* The default policy is a table of rules.                                 *)
LEMMA DefaultTyped ==
  DefaultRules \in Seq({DefaultRules[i] : i \in DOMAIN DefaultRules})
<1>1. ASSUME NEW a, NEW b, NEW c, NEW d, NEW e, NEW f, NEW g, NEW h, NEW i, NEW j
      PROVE  <<a, b, c, d, e, f, g, h, i, j>> \in Seq({a, b, c, d, e, f, g, h, i, j})
  OBVIOUS
<1>2. DefaultRules \in Seq({DefaultRules[1], DefaultRules[2], DefaultRules[3], DefaultRules[4],
        DefaultRules[5], DefaultRules[6], DefaultRules[7], DefaultRules[8],
        DefaultRules[9], DefaultRules[10]})
  BY <1>1 DEF DefaultRules
<1> QED BY <1>2, LenProperties

-----------------------------------------------------------------------------
(* The policy starts in the invariant.                                     *)
LEMMA PolicyInit ==
  ASSUME Init
  PROVE  PolicyTyped
<1>1. rules = DefaultRules /\ mode = "permissive"
  BY DEF Init
<1> HIDE DEF DefaultRules
<1>2. rules \in Seq(AllRules)
  BY <1>1, DefaultTyped DEF AllRules
<1> QED BY <1>1, <1>2 DEF PolicyTyped, Mode

(* Every call keeps the invariant.                                         *)
LEMMA PolicyNext ==
  ASSUME PolicyTyped, [Next]_vars
  PROVE  PolicyTyped'
<1>1. ASSUME NEW m \in Mode, blocksec_set_mode(m) PROVE PolicyTyped'
  BY <1>1 DEF blocksec_set_mode, PolicyTyped
<1>2. ASSUME NEW r \in NewRules, blocksec_add_rule(r) PROVE PolicyTyped'
  <2>1. r \in AllRules /\ rules' = Append(rules, r) /\ mode' = mode
    BY <1>2 DEF AllRules, blocksec_add_rule
  <2> QED BY <2>1, AppendIsMore DEF PolicyTyped
<1>3. ASSUME NEW name \in Removed, blocksec_remove_rule(name) PROVE PolicyTyped'
  <2> DEFINE Named == {i \in DOMAIN rules : rules[i].name = name}
  <2>1. Named # {} /\ rules' = Shifted(rules, Min(Named)) /\ mode' = mode
    BY <1>3 DEF blocksec_remove_rule
  <2>2. Min(Named) \in DOMAIN rules
    BY <2>1, FirstIsNamed DEF PolicyTyped
  <2> QED BY <2>1, <2>2, ShiftedIsLess DEF PolicyTyped
<1>4. CASE UNCHANGED <<mode, rules>>
  BY <1>4 DEF PolicyTyped
<1>5. CASE Label
  BY <1>4, <1>5 DEF Label, blocksec_add_domain, blocksec_transition, blocksec_set_process_label
<1>6. ASSUME NEW q \in Requests, Check(q) PROVE PolicyTyped'
  BY <1>4, <1>6 DEF Check, policyVars
<1>7. CASE UNCHANGED vars
  BY <1>4, <1>7 DEF vars, policyVars
<1> QED BY <1>1, <1>2, <1>3, <1>5, <1>6, <1>7 DEF Next, ChangePolicy, Lookup

(* What the caller is told follows the rules when nothing else changes.    *)
LEMMA CheckFollows ==
  ASSUME mode \in Mode, mode' = mode, labels' = labels, NEW q,
         \A type : Decided(rules, type, q) => Decided(rules', type, q)
  PROVE  blocksec_check(q) => blocksec_check(q)'
BY DEF blocksec_check, LabelOf, LabelAt, Mode

(* The same, the other way round.                                          *)
LEMMA CheckFollowsBack ==
  ASSUME mode \in Mode, mode' = mode, labels' = labels, NEW q,
         \A type : Decided(rules', type, q) => Decided(rules, type, q)
  PROVE  blocksec_check(q)' => blocksec_check(q)
BY DEF blocksec_check, LabelOf, LabelAt, Mode

(* What an added rule changes.                                             *)
LEMMA AddWorksOneWay ==
  ASSUME PolicyTyped, NEW q, NEW r \in NewRules, blocksec_add_rule(r)
  PROVE  IF r.allow THEN blocksec_check(q) => blocksec_check(q)'
                    ELSE blocksec_check(q)' => blocksec_check(q)
<1> DEFINE n == Len(rules) + 1
<1>1. rules' = Append(rules, r) /\ mode' = mode /\ labels' = labels /\ mode \in Mode
  BY DEF blocksec_add_rule, PolicyTyped
<1>2. n \in DOMAIN rules' /\ rules'[n] = r /\ SameBut(rules', rules, n)
  <2>1. r \in AllRules /\ rules \in Seq(AllRules)
    BY DEF AllRules, PolicyTyped
  <2> QED BY <1>1, <2>1, AppendIsMore
<1> HIDE DEF n
<1>3. ASSUME NEW type
      PROVE  /\ r.allow => (Decided(rules, type, q) => Decided(rules', type, q))
             /\ ~r.allow => (Decided(rules', type, q) => Decided(rules, type, q))
  BY <1>2, LessDecides
<1> QED BY <1>1, <1>3, CheckFollows, CheckFollowsBack

(* What a removal changes: the first rule of the name is gone.             *)
LEMMA RemoveWorksOneWay ==
  ASSUME PolicyTyped, NEW q, NEW name, blocksec_remove_rule(name)
  PROVE  LET first == Min({i \in DOMAIN rules : rules[i].name = name})
         IN IF rules[first].allow THEN blocksec_check(q)' => blocksec_check(q)
                                  ELSE blocksec_check(q) => blocksec_check(q)'
<1> DEFINE Named == {i \in DOMAIN rules : rules[i].name = name}
           f == Min(Named)
<1>1. Named # {} /\ rules' = Shifted(rules, f) /\ mode' = mode /\ labels' = labels /\ mode \in Mode
  BY DEF blocksec_remove_rule, PolicyTyped
<1>2. f \in DOMAIN rules
  BY <1>1, FirstIsNamed DEF PolicyTyped
<1> HIDE DEF f
<1>3. SameBut(rules, rules', f)
  BY <1>1, <1>2, ShiftedIsLess DEF PolicyTyped
<1>4. ASSUME NEW type
      PROVE  /\ rules[f].allow => (Decided(rules', type, q) => Decided(rules, type, q))
             /\ ~rules[f].allow => (Decided(rules, type, q) => Decided(rules', type, q))
  BY <1>2, <1>3, LessDecides
<1>5. IF rules[f].allow THEN blocksec_check(q)' => blocksec_check(q)
                        ELSE blocksec_check(q) => blocksec_check(q)'
  BY <1>1, <1>4, CheckFollows, CheckFollowsBack
<1> QED BY <1>5 DEF f

(* Adding a deny rule or removing an allow rule grants nothing new; adding *)
(* an allow rule or removing a deny rule takes nothing away; wherever the  *)
(* rules are in the table, whatever their names and however many share one.*)
THEOREM ChangesWorkOneWay ==
  Spec => RulesWorkOneWay
<1> DEFINE OneWay ==
      \A q \in Requests :
        /\ \A r \in NewRules : blocksec_add_rule(r) =>
             IF r.allow THEN blocksec_check(q) => blocksec_check(q)'
                        ELSE blocksec_check(q)' => blocksec_check(q)
        /\ \A name \in Removed : blocksec_remove_rule(name) =>
             LET first == Min({i \in DOMAIN rules : rules[i].name = name})
             IN IF rules[first].allow THEN blocksec_check(q)' => blocksec_check(q)
                                      ELSE blocksec_check(q) => blocksec_check(q)'
<1>1. Init => PolicyTyped
  BY PolicyInit
<1>2. PolicyTyped /\ [Next]_vars => PolicyTyped'
  BY PolicyNext
<1>3. PolicyTyped => OneWay
  BY AddWorksOneWay, RemoveWorksOneWay
<1>4. PolicyTyped /\ [Next]_vars => [OneWay]_vars
  BY <1>3
<1>5. RulesWorkOneWay <=> [][OneWay]_vars
  BY DEF RulesWorkOneWay
<1> HIDE DEF OneWay
<1> QED BY <1>1, <1>2, <1>4, <1>5, PTL DEF Spec

-----------------------------------------------------------------------------
(* The labels, about the value of their table: the places of a process in  *)
(* it and the label it has.                                                *)
PlacesIn(table, pid) == {i \in DOMAIN table : table[i].pid = pid}
LabelIn(table, pid) == IF PlacesIn(table, pid) = {} THEN {}
                       ELSE {table[Min(PlacesIn(table, pid))].type}

(* What the table is made of.                                              *)
Labels == [pid : Pid, type : Entered]

(* No two entries are of one process.                                      *)
OneEach(table) == /\ table \in Seq(Labels)
                  /\ \A i, j \in DOMAIN table : table[i].pid = table[j].pid => i = j

LEMMA OnePlace ==
  ASSUME NEW table, OneEach(table), NEW pid
  PROVE  /\ Cardinality(PlacesIn(table, pid)) <= 1
         /\ \A i \in DOMAIN table : table[i].pid = pid =>
              PlacesIn(table, pid) = {i} /\ LabelIn(table, pid) = {table[i].type}
<1>1. ASSUME NEW i \in DOMAIN table, table[i].pid = pid
      PROVE  PlacesIn(table, pid) = {i} /\ LabelIn(table, pid) = {table[i].type}
  <2>1. PlacesIn(table, pid) = {i}
    BY <1>1 DEF OneEach, PlacesIn
  <2>2. Min({i}) = i
    <3>1. i \in Int
      BY LenProperties DEF OneEach
    <3> QED BY <3>1 DEF Min
  <2> QED BY <2>1, <2>2 DEF LabelIn
<1>2. PlacesIn(table, pid) = {} \/ \E i \in DOMAIN table : PlacesIn(table, pid) = {i}
  <2>1. PlacesIn(table, pid) # {} => \E i \in DOMAIN table : table[i].pid = pid
    BY DEF PlacesIn
  <2> QED BY <1>1, <2>1
<1>3. Cardinality({}) = 0 /\ \A i : Cardinality({i}) = 1
  BY FS_EmptySet, FS_Singleton
<1>4. Cardinality(PlacesIn(table, pid)) <= 1
  <2>1. PICK k \in {0, 1} : Cardinality(PlacesIn(table, pid)) = k
    <3> HIDE DEF OneEach
    <3> QED BY <1>2, <1>3
  <2> QED BY <2>1
<1> QED BY <1>1, <1>4

(* Setting the label of a process keeps the table so, gives the label to   *)
(* the process and leaves all others theirs.                               *)
SetFor(old, new, pid, type) ==
  /\ OneEach(new)
  /\ LabelIn(new, pid) = {type}
  /\ \A p : p # pid => LabelIn(new, p) = LabelIn(old, p)

LEMMA LabelReplaced ==
  ASSUME NEW old, OneEach(old), NEW type \in Entered, NEW n \in DOMAIN old
  PROVE  SetFor(old, [old EXCEPT ![n].type = type], old[n].pid, type)
<1> DEFINE new == [old EXCEPT ![n].type = type]
<1>1. old \in Seq(Labels) /\ DOMAIN old = 1 .. Len(old) /\ Len(old) \in Nat
  BY LenProperties DEF OneEach
<1>2. PICK entry \in Labels : /\ entry = [old[n] EXCEPT !.type = type]
                              /\ entry.pid = old[n].pid /\ entry.type = type
  <2>1. old[n] \in Labels
    BY <1>1, ElementOfSeq
  <2>2. [old[n] EXCEPT !.type = type] \in Labels
    BY <2>1 DEF Labels
  <2>3. [old[n] EXCEPT !.type = type].pid = old[n].pid /\ [old[n] EXCEPT !.type = type].type = type
    BY <2>1 DEF Labels
  <2> QED BY <2>2, <2>3
<1>3. new = [old EXCEPT ![n] = entry]
  BY <1>2
<1> HIDE DEF new
<1>4. /\ new \in Seq(Labels) /\ Len(new) = Len(old)
      /\ \A i \in 1 .. Len(old) : new[i] = IF i = n THEN entry ELSE old[i]
  BY <1>1, <1>3, ExceptSeq
<1>5. DOMAIN new = DOMAIN old /\ \A i \in DOMAIN old : new[i].pid = old[i].pid /\ (i # n => new[i] = old[i])
  BY <1>1, <1>2, <1>4, LenProperties
<1>6. OneEach(new)
  BY <1>4, <1>5 DEF OneEach
<1>7. LabelIn(new, old[n].pid) = {type}
  <2>1. new[n].pid = old[n].pid /\ new[n].type = type /\ n \in DOMAIN new
    BY <1>1, <1>2, <1>4, <1>5
  <2> QED BY <1>6, <2>1, OnePlace
<1>8. ASSUME NEW p, p # old[n].pid
      PROVE  LabelIn(new, p) = LabelIn(old, p)
  <2>1. CASE \E i \in DOMAIN old : old[i].pid = p
    <3>1. PICK i \in DOMAIN old : old[i].pid = p
      BY <2>1
    <3>2. i # n /\ new[i] = old[i] /\ i \in DOMAIN new
      BY <1>5, <1>8, <3>1
    <3>3. LabelIn(old, p) = {old[i].type}
      BY <3>1, OnePlace
    <3>4. LabelIn(new, p) = {new[i].type}
      BY <1>6, <3>1, <3>2, OnePlace
    <3> QED BY <3>2, <3>3, <3>4
  <2>2. CASE ~\E i \in DOMAIN old : old[i].pid = p
    <3>1. PlacesIn(old, p) = {} /\ PlacesIn(new, p) = {}
      BY <1>5, <2>2 DEF PlacesIn
    <3> QED BY <3>1 DEF LabelIn
  <2> QED BY <2>1, <2>2
<1> QED BY <1>6, <1>7, <1>8 DEF SetFor, new

LEMMA LabelAdded ==
  ASSUME NEW old, OneEach(old), NEW type \in Entered, NEW pid \in Pid, PlacesIn(old, pid) = {}
  PROVE  SetFor(old, Append(old, [pid |-> pid, type |-> type]), pid, type)
<1> DEFINE new == Append(old, [pid |-> pid, type |-> type])
<1>1. old \in Seq(Labels) /\ DOMAIN old = 1 .. Len(old) /\ Len(old) \in Nat
  BY LenProperties DEF OneEach
<1>2. PICK entry \in Labels : entry = [pid |-> pid, type |-> type] /\ entry.pid = pid /\ entry.type = type
  <2>1. [pid |-> pid, type |-> type] \in Labels
    BY DEF Labels
  <2> QED BY <2>1
<1>3. new = Append(old, entry)
  BY <1>2
<1> HIDE DEF new
<1>4. /\ new \in Seq(Labels) /\ Len(new) = Len(old) + 1 /\ new[Len(old) + 1] = entry
      /\ \A i \in 1 .. Len(old) : new[i] = old[i]
  BY <1>1, <1>3, AppendProperties
<1>5. PICK n \in Nat : n = Len(old) + 1
  BY <1>1
<1>6. DOMAIN new = DOMAIN old \cup {n} /\ n \notin DOMAIN old
  BY <1>1, <1>4, <1>5, LenProperties
<1>7. /\ new[n] = entry /\ \A i \in DOMAIN old : new[i] = old[i]
      /\ \A i \in DOMAIN old : old[i].pid # pid
  BY <1>1, <1>4, <1>5 DEF PlacesIn
<1>8. OneEach(new)
  <2>1. ASSUME NEW i \in DOMAIN new, NEW j \in DOMAIN new, new[i].pid = new[j].pid
        PROVE  i = j
    BY <1>2, <1>6, <1>7, <2>1 DEF OneEach
  <2> QED BY <1>4, <2>1 DEF OneEach
<1>9. LabelIn(new, pid) = {type}
  BY <1>2, <1>6, <1>7, <1>8, OnePlace
<1>10. ASSUME NEW p, p # pid
       PROVE  LabelIn(new, p) = LabelIn(old, p)
  <2>1. CASE \E i \in DOMAIN old : old[i].pid = p
    <3>1. PICK i \in DOMAIN old : old[i].pid = p
      BY <2>1
    <3>2. new[i] = old[i] /\ i \in DOMAIN new
      BY <1>6, <1>7
    <3>3. LabelIn(old, p) = {old[i].type}
      BY <3>1, OnePlace
    <3>4. LabelIn(new, p) = {new[i].type}
      BY <1>8, <3>1, <3>2, OnePlace
    <3> QED BY <3>2, <3>3, <3>4
  <2>2. CASE ~\E i \in DOMAIN old : old[i].pid = p
    <3>1. PlacesIn(old, p) = {} /\ PlacesIn(new, p) = {}
      BY <1>2, <1>6, <1>7, <1>10, <2>2 DEF PlacesIn
    <3> QED BY <3>1 DEF LabelIn
  <2> QED BY <2>1, <2>2
<1> QED BY <1>8, <1>9, <1>10 DEF SetFor, new

LEMMA LabelSet ==
  ASSUME OneEach(labels), NEW pid \in Pid, NEW name \in Entered, blocksec_transition(pid, name)
  PROVE  SetFor(labels, labels', pid, name)
<1>1. LabelAt(pid) = PlacesIn(labels, pid)
  BY DEF LabelAt, PlacesIn
<1>2. CASE Known(pid) /\ labels' = [labels EXCEPT ![Min(LabelAt(pid))].type = name]
  <2>1. PICK n \in DOMAIN labels : labels[n].pid = pid
    BY <1>2 DEF Known, LabelAt
  <2>2. LabelAt(pid) = {n}
    BY <1>1, <2>1, OnePlace
  <2>3. Min({n}) = n
    <3>1. n \in Int
      BY LenProperties DEF OneEach
    <3> QED BY <3>1 DEF Min
  <2>4. labels' = [labels EXCEPT ![n].type = name]
    BY <1>2, <2>2, <2>3
  <2> QED BY <2>1, <2>4, LabelReplaced
<1>3. CASE ~Known(pid) /\ labels' = Append(labels, [pid |-> pid, type |-> name])
  BY <1>1, <1>3, LabelAdded DEF Known
<1> QED BY <1>2, <1>3 DEF blocksec_transition, blocksec_set_process_label

(* Any step leaves a process its label or is its own.                      *)
LEMMA LabelStep ==
  ASSUME OneEach(labels), [Next]_vars
  PROVE  /\ OneEach(labels')
         /\ \A pid \in Pid : LabelIn(labels', pid) # LabelIn(labels, pid) =>
              \E name \in ToSet(domains) : /\ blocksec_transition(pid, name)
                                           /\ LabelIn(labels', pid) = {name}
<1>1. CASE labels' = labels
  BY <1>1
<1>2. CASE \E pid \in Pid, name \in Entered : blocksec_transition(pid, name)
  <2>1. PICK pid \in Pid, name \in Entered : blocksec_transition(pid, name)
    BY <1>2
  <2>2. SetFor(labels, labels', pid, name)
    BY <2>1, LabelSet
  <2>3. name \in ToSet(domains)
    BY <2>1 DEF blocksec_transition
  <2> QED BY <2>1, <2>2, <2>3 DEF SetFor
<1>3. labels' = labels \/ \E pid \in Pid, name \in Entered : blocksec_transition(pid, name)
  BY DEF Next, ChangePolicy, Label, Lookup, Check, vars, policyVars, blocksec_set_mode,
         blocksec_add_rule, blocksec_remove_rule, blocksec_add_domain
<1> QED BY <1>1, <1>2, <1>3

(* However many processes there are and whatever domains they enter, no    *)
(* process but the one that enters a domain changes its label, and none    *)
(* has two places in the table.                                            *)
THEOREM LabelsAreTheirOwn ==
  Spec => LabelsChangeAlone
<1> DEFINE Alone ==
      \A pid \in Pid :
        /\ Cardinality(LabelAt(pid)') <= 1
        /\ LabelOf(pid)' # LabelOf(pid) =>
             \E name \in ToSet(domains) : /\ blocksec_transition(pid, name)
                                          /\ LabelOf(pid)' = {name}
           Inv == OneEach(labels)
<1>1. Init => Inv
  <2>1. << >> \in Seq(Labels) /\ DOMAIN << >> = {}
    OBVIOUS
  <2> QED BY <2>1 DEF Init, OneEach
<1>2. Inv /\ [Next]_vars => Inv'
  BY LabelStep
<1>3. Inv /\ [Next]_vars => [Alone]_vars
  <2> SUFFICES ASSUME Inv, [Next]_vars, NEW pid \in Pid
               PROVE  /\ Cardinality(LabelAt(pid)') <= 1
                      /\ LabelOf(pid)' # LabelOf(pid) =>
                           \E name \in ToSet(domains) : /\ blocksec_transition(pid, name)
                                                        /\ LabelOf(pid)' = {name}
    OBVIOUS
  <2>1. /\ LabelAt(pid)' = PlacesIn(labels', pid) /\ LabelOf(pid) = LabelIn(labels, pid)
        /\ LabelOf(pid)' = LabelIn(labels', pid)
    BY DEF LabelAt, LabelOf, PlacesIn, LabelIn
  <2>2. PICK table : table = labels'
    OBVIOUS
  <2>3. OneEach(table)
    BY <2>2, LabelStep
  <2>4. Cardinality(PlacesIn(labels', pid)) <= 1
    BY <2>2, <2>3, OnePlace
  <2> QED BY <2>1, <2>4, LabelStep
<1>4. LabelsChangeAlone <=> [][Alone]_vars
  BY DEF LabelsChangeAlone
<1> HIDE DEF Alone, Inv
<1> QED BY <1>1, <1>2, <1>3, <1>4, PTL DEF Spec

-----------------------------------------------------------------------------
(* The breakpoints.                                                        *)

Bytes == {TRAP, "instr"}
Breakpoints == [address : Address, active : BOOLEAN, original_byte : Bytes]

BpTyped == /\ memory \in [Address -> Bytes]
           /\ code \in [Address -> Bytes]
           /\ bp \in Seq(Breakpoints)

OldestAt(i) == \A j \in DOMAIN bp : j < i => bp[j].address # bp[i].address
OnlyAt(i) == \A j \in DOMAIN bp : j # i => bp[j].address # bp[i].address
NoneAt(addr) == \A i \in DOMAIN bp : bp[i].address # addr

(* Each breakpoint holds the code's byte or the trap, the oldest at its    *)
(* address the code's byte.                                                *)
Restorable ==
  /\ \A addr \in Address : /\ memory[addr] \in {TRAP, code[addr]}
                           /\ NoneAt(addr) => memory[addr] = code[addr]
  /\ \A i \in DOMAIN bp :
       /\ bp[i].original_byte \in {TRAP, code[bp[i].address]}
       /\ OldestAt(i) => bp[i].original_byte = code[bp[i].address]
       /\ OnlyAt(i) => memory[bp[i].address] =
                         IF bp[i].active THEN TRAP ELSE code[bp[i].address]

BpInv == BpTyped /\ Restorable

(* Setting a breakpoint keeps the invariant.                               *)
LEMMA AddInv ==
  ASSUME BpInv, NEW a \in Address, D!dbg_add_breakpoint(a)
  PROVE  BpInv'
<1> DEFINE n == Len(bp)
           new == [address |-> a, active |-> TRUE, original_byte |-> memory[a]]
<1>1. BpTyped /\ Restorable /\ code' = code /\ memory' = [memory EXCEPT ![a] = TRAP]
      /\ bp' = Append(bp, new)
  BY DEF BpInv, D!dbg_add_breakpoint, D!Saved
<1>2. new \in Breakpoints /\ new.address = a /\ new.active /\ new.original_byte = memory[a]
      /\ memory[a] \in Bytes
  BY <1>1 DEF BpTyped, Breakpoints
<1> HIDE DEF new
<1>3. /\ bp' \in Seq(Breakpoints) /\ n \in Nat /\ Len(bp') = n + 1
      /\ \A i \in 1 .. n : bp'[i] = bp[i]
      /\ bp'[n + 1] = new
  BY <1>1, <1>2, AppendProperties, LenProperties DEF BpTyped
<1>4. DOMAIN bp = 1 .. n /\ DOMAIN bp' = 1 .. n + 1
  BY <1>1, <1>3, LenProperties DEF BpTyped
<1> HIDE DEF n
<1>5. /\ memory' \in [Address -> Bytes] /\ memory'[a] = TRAP
      /\ \A x \in Address \ {a} : memory'[x] = memory[x]
  BY <1>1 DEF BpTyped, Bytes
<1>6. BpTyped'
  BY <1>1, <1>3, <1>5 DEF BpTyped
<1>7. ASSUME NEW x \in Address
      PROVE  /\ memory'[x] \in {TRAP, code'[x]}
             /\ NoneAt(x)' => memory'[x] = code'[x]
  <2>1. CASE x = a
    BY <1>1, <1>2, <1>3, <1>4, <1>5, <2>1 DEF NoneAt
  <2>2. CASE x # a
    <3>1. NoneAt(x)' => NoneAt(x)
      BY <1>3, <1>4 DEF NoneAt
    <3> QED BY <1>1, <1>5, <2>2, <3>1 DEF Restorable
  <2> QED BY <2>1, <2>2
<1>8. ASSUME NEW i \in 1 .. n
      PROVE  /\ bp'[i].original_byte \in {TRAP, code'[bp'[i].address]}
             /\ OldestAt(i)' => bp'[i].original_byte = code'[bp'[i].address]
             /\ OnlyAt(i)' => memory'[bp'[i].address] =
                                IF bp'[i].active THEN TRAP ELSE code'[bp'[i].address]
  <2>1. bp'[i] = bp[i] /\ i \in DOMAIN bp /\ bp[i].address \in Address
    <3>1. bp[i] \in Breakpoints
      BY <1>1, <1>4, ElementOfSeq DEF BpTyped, n
    <3> QED BY <1>3, <1>4, <3>1 DEF Breakpoints
  <2>2. OldestAt(i)' => OldestAt(i)
    BY <1>3, <1>4, <2>1 DEF OldestAt
  <2>3. OnlyAt(i)' => OnlyAt(i) /\ bp[i].address # a
    <3>1. n + 1 \in DOMAIN bp' /\ n + 1 # i
      BY <1>3, <1>4
    <3> QED BY <1>2, <1>3, <1>4, <2>1, <3>1 DEF OnlyAt
  <2> QED BY <1>1, <1>5, <2>1, <2>2, <2>3 DEF Restorable
<1>9. ASSUME NEW i, i = n + 1
      PROVE  /\ bp'[i].original_byte \in {TRAP, code'[bp'[i].address]}
             /\ OldestAt(i)' => bp'[i].original_byte = code'[bp'[i].address]
             /\ OnlyAt(i)' => memory'[bp'[i].address] =
                                IF bp'[i].active THEN TRAP ELSE code'[bp'[i].address]
  <2>1. bp'[i] = new
    BY <1>3, <1>9
  <2>2. OldestAt(i)' => NoneAt(a)
    <3>1. \A j \in 1 .. n : j \in DOMAIN bp' /\ j < i /\ bp'[j] = bp[j]
      BY <1>3, <1>4, <1>9
    <3> QED BY <1>2, <1>4, <2>1, <3>1 DEF OldestAt, NoneAt
  <2>3. bp'[i].address = a /\ bp'[i].active /\ bp'[i].original_byte = memory[a]
    BY <1>2, <2>1
  <2> QED BY <1>1, <1>5, <2>2, <2>3 DEF Restorable
<1>10. Restorable'
  <2>1. ASSUME NEW i \in DOMAIN bp'
        PROVE  /\ bp'[i].original_byte \in {TRAP, code'[bp'[i].address]}
               /\ OldestAt(i)' => bp'[i].original_byte = code'[bp'[i].address]
               /\ OnlyAt(i)' => memory'[bp'[i].address] =
                                  IF bp'[i].active THEN TRAP ELSE code'[bp'[i].address]
    <3>1. i \in 1 .. n \/ i = n + 1
      BY <1>3, <1>4
    <3> QED BY <1>8, <1>9, <3>1
  <2> QED BY <1>7, <2>1 DEF Restorable
<1> QED BY <1>6, <1>10 DEF BpInv

(* Removing a breakpoint, also one removed before, keeps the invariant.    *)
LEMMA RemoveInv ==
  ASSUME BpInv, NEW k, D!dbg_remove_breakpoint(k)
  PROVE  BpInv'
<1> DEFINE a == bp[k].address
           o == bp[k].original_byte
<1>1. BpTyped /\ Restorable /\ code' = code /\ k \in DOMAIN bp
      /\ memory' = [memory EXCEPT ![a] = o]
      /\ bp' = [bp EXCEPT ![k].active = FALSE]
  BY DEF BpInv, D!dbg_remove_breakpoint
<1>2. DOMAIN bp = 1 .. Len(bp) /\ \A i \in DOMAIN bp : bp[i] \in Breakpoints
  BY <1>1, LenProperties, ElementOfSeq DEF BpTyped
<1>3. a \in Address /\ o \in Bytes
  BY <1>1, <1>2 DEF Breakpoints
<1>4. /\ DOMAIN bp' = DOMAIN bp
      /\ \A i \in DOMAIN bp : /\ bp'[i].address = bp[i].address
                              /\ bp'[i].original_byte = bp[i].original_byte
                              /\ bp'[i].active = IF i = k THEN FALSE ELSE bp[i].active
  BY <1>1, <1>2 DEF Breakpoints
<1>5. bp' \in Seq(Breakpoints)
  <2> DEFINE b == [bp[k] EXCEPT !.active = FALSE]
  <2>1. b \in Breakpoints
    BY <1>1, <1>2 DEF Breakpoints
  <2> HIDE DEF b
  <2>2. bp' = [bp EXCEPT ![k] = b]
    BY <1>1 DEF b
  <2>3. bp \in Seq(Breakpoints) /\ k \in 1 .. Len(bp)
    BY <1>1, <1>2 DEF BpTyped
  <2>4. [bp EXCEPT ![k] = b] \in Seq(Breakpoints)
    BY <2>1, <2>3, ExceptSeq
  <2> QED BY <2>2, <2>4
<1> HIDE DEF a, o
<1>6. /\ memory' \in [Address -> Bytes] /\ memory'[a] = o
      /\ \A x \in Address \ {a} : memory'[x] = memory[x]
  BY <1>1, <1>3 DEF BpTyped
<1>7. BpTyped'
  BY <1>1, <1>5, <1>6 DEF BpTyped
<1>8. ASSUME NEW i \in DOMAIN bp
      PROVE  /\ OldestAt(i)' => OldestAt(i)
             /\ OnlyAt(i)' => OnlyAt(i)
             /\ OnlyAt(i) => OldestAt(i)
  <2>1. \A j \in DOMAIN bp : j < i => j # i
    BY <1>2
  <2>2. OldestAt(i)' => OldestAt(i)
    BY <1>4 DEF OldestAt
  <2>3. OnlyAt(i)' => OnlyAt(i)
    BY <1>4 DEF OnlyAt
  <2>4. OnlyAt(i) => OldestAt(i)
    BY <2>1 DEF OldestAt, OnlyAt
  <2> QED BY <2>2, <2>3, <2>4
<1>9. \A x \in Address : NoneAt(x)' => NoneAt(x) /\ x # a
  BY <1>1, <1>4 DEF NoneAt, a
<1>10. o \in {TRAP, code[a]}
  BY <1>1 DEF Restorable, o, a
<1>11. \A x \in Address : /\ memory'[x] \in {TRAP, code'[x]}
                          /\ NoneAt(x)' => memory'[x] = code'[x]
  BY <1>1, <1>6, <1>9, <1>10 DEF Restorable
<1>12. ASSUME NEW i \in DOMAIN bp, OnlyAt(i)'
       PROVE  memory'[bp[i].address] =
                IF bp'[i].active THEN TRAP ELSE code[bp[i].address]
  <2>1. OnlyAt(i) /\ OldestAt(i) /\ bp[i].address \in Address
    BY <1>2, <1>8, <1>12 DEF Breakpoints
  <2>2. CASE i = k
    BY <1>1, <1>4, <1>6, <2>1, <2>2 DEF Restorable, a, o
  <2>3. CASE i # k
    <3>1. bp[i].address # a
      BY <1>1, <2>1, <2>3 DEF OnlyAt, a
    <3> QED BY <1>1, <1>4, <1>6, <2>1, <2>3, <3>1 DEF Restorable
  <2> QED BY <2>2, <2>3
<1>13. Restorable'
  BY <1>1, <1>4, <1>8, <1>11, <1>12 DEF Restorable
<1> QED BY <1>7, <1>13 DEF BpInv

(* The debugger counts as the module of finite sets does.                  *)
LEMMA SameCardinality ==
  ASSUME NEW T
  PROVE  D!Cardinality(T) = Cardinality(T)
BY DEF D!Cardinality, Cardinality

(* The invariant says what CodeComesBack asks, in terms of the oldest.     *)
LEMMA RestorableMeans ==
  ASSUME BpInv
  PROVE  D!CodeComesBack
<1> SUFFICES ASSUME NEW addr \in Address
             PROVE  /\ Cardinality(D!At(addr)) <= 1 =>
                         memory[addr] = IF \E i \in D!At(addr) : bp[i].active
                                        THEN TRAP ELSE code[addr]
                    /\ memory[addr] \in {TRAP, code[addr]}
                    /\ D!At(addr) # {} => bp[D!Min(D!At(addr))].original_byte = code[addr]
  BY SameCardinality DEF D!CodeComesBack
<1>1. BpTyped /\ Restorable /\ DOMAIN bp = 1 .. Len(bp) /\ Len(bp) \in Nat
  BY LenProperties DEF BpInv, BpTyped
<1>2. D!At(addr) \in SUBSET Nat /\ IsFiniteSet(D!At(addr))
  <2>1. D!At(addr) \subseteq 1 .. Len(bp)
    BY <1>1 DEF D!At
  <2>2. IsFiniteSet(1 .. Len(bp))
    BY <1>1, FS_Interval
  <2> QED BY <1>1, <2>1, <2>2, FS_Subset
<1>3. memory[addr] \in {TRAP, code[addr]}
  BY <1>1 DEF Restorable
<1>4. ASSUME D!At(addr) # {}
      PROVE  bp[D!Min(D!At(addr))].original_byte = code[addr]
  <2> DEFINE f == D!Min(D!At(addr))
  <2>1. \E x \in D!At(addr) : \A y \in D!At(addr) : x <= y
    BY <1>2, <1>4, LeastExists
  <2>2. f \in D!At(addr) /\ \A y \in D!At(addr) : f <= y
    BY <2>1 DEF D!Min
  <2> HIDE DEF f
  <2>3. f \in DOMAIN bp /\ bp[f].address = addr /\ OldestAt(f)
    <3>1. f \in DOMAIN bp /\ bp[f].address = addr
      BY <2>2 DEF D!At
    <3>2. ASSUME NEW j \in DOMAIN bp, j < f PROVE bp[j].address # addr
      <4>1. j \in D!At(addr) => f <= j
        BY <2>2
      <4>2. j \in Nat /\ f \in Nat
        BY <1>1, <3>1
      <4> QED BY <3>2, <4>1, <4>2 DEF D!At
    <3> QED BY <3>1, <3>2 DEF OldestAt
  <2> QED BY <1>1, <2>3 DEF Restorable, f
<1>5. ASSUME Cardinality(D!At(addr)) <= 1
      PROVE  memory[addr] = IF \E i \in D!At(addr) : bp[i].active THEN TRAP ELSE code[addr]
  <2>1. CASE D!At(addr) = {}
    BY <1>1, <2>1 DEF Restorable, NoneAt, D!At
  <2>2. CASE D!At(addr) # {}
    <3>1. PICK i \in D!At(addr) : TRUE
      BY <2>2
    <3>2. D!At(addr) = {i}
      <4>1. Cardinality(D!At(addr)) \in Nat /\ Cardinality(D!At(addr)) # 0
        BY <1>2, <2>2, FS_CardinalityType, FS_EmptySet
      <4>2. Cardinality(D!At(addr)) = 1
        BY <1>5, <4>1
      <4>3. \E x : D!At(addr) = {x}
        BY <1>2, <4>2, FS_Singleton
      <4> QED BY <3>1, <4>3
    <3>3. i \in DOMAIN bp /\ bp[i].address = addr
      BY <3>1 DEF D!At
    <3>4. OnlyAt(i)
      BY <3>2, <3>3 DEF OnlyAt, D!At
    <3> QED BY <1>1, <3>2, <3>3, <3>4 DEF Restorable
  <2> QED BY <2>1, <2>2
<1> QED BY <1>3, <1>4, <1>5

-----------------------------------------------------------------------------
(* A single breakpoint at an address is exact and vanishes without trace,  *)
(* and with several the oldest holds the code, for every number of         *)
(* breakpoints and addresses.                                              *)
THEOREM CodeIsRestorable ==
  D!Spec => []CodeComesBack
<1>1. D!Init => BpInv
  <2> SUFFICES ASSUME D!Init PROVE BpInv
    OBVIOUS
  <2>1. memory \in [Address -> Bytes] /\ code = memory /\ bp = << >>
    BY DEF D!Init, D!dbg_init, Bytes
  <2>2. BpTyped /\ DOMAIN bp = {}
    BY <2>1, EmptySeq DEF BpTyped
  <2> QED BY <2>1, <2>2 DEF BpInv, Restorable
<1>2. BpInv /\ [D!Next]_(D!vars) => BpInv'
  <2> SUFFICES ASSUME BpInv, [D!Next]_(D!vars) PROVE BpInv'
    OBVIOUS
  <2>1. ASSUME NEW level \in Levels, D!dbg_log(level) PROVE BpInv'
    BY <2>1 DEF D!dbg_log, D!bpVars, BpInv, BpTyped, Restorable, OldestAt, OnlyAt, NoneAt
  <2>2. ASSUME NEW addr \in Address, D!dbg_add_breakpoint(addr) PROVE BpInv'
    BY <2>2, AddInv
  <2>3. ASSUME NEW idx \in 1 .. DBG_MAX_BP, D!dbg_remove_breakpoint(idx) PROVE BpInv'
    BY <2>3, RemoveInv
  <2>4. CASE UNCHANGED D!vars
    BY <2>4 DEF D!vars, D!bpVars, BpInv, BpTyped, Restorable, OldestAt, OnlyAt, NoneAt
  <2> QED BY <2>1, <2>2, <2>3, <2>4 DEF D!Next, D!Lookup
<1>3. BpInv => D!CodeComesBack
  BY RestorableMeans
<1> QED BY <1>1, <1>2, <1>3, PTL DEF D!Spec, CodeComesBack

-----------------------------------------------------------------------------
(* The access control: its log and its statistics.                         *)

(* What the log is made of.                                                *)
AuditEntries == [pid : {q.pid : q \in Requests}, source : Entered,
                 target : {q.target : q \in Requests}, class : {q.class : q \in Requests},
                 perm : {q.perm : q \in Requests}, allowed : BOOLEAN]

LabelsTyped == labels \in Seq(Labels)

Denials(rc) == {k \in DOMAIN rc : ~rc[k].allowed}

(* The counts, the ring and the history tell the same.                     *)
AuditCounts ==
  /\ denied_count \in Nat /\ allowed_count \in Nat
  /\ log_count = Min({LOG_SIZE, denied_count + allowed_count})
  /\ log_head = (denied_count + allowed_count) % LOG_WIDTH
  /\ Cardinality(Denials(recent)) <= denied_count
  /\ denied_count + allowed_count <= LOG_SIZE => Cardinality(Denials(recent)) = denied_count

AuditInv == /\ LabelsTyped
            /\ LogHolds(AuditEntries, log, log_head, log_count, recent)
            /\ AuditCounts

(* The denials of a history are finitely many.                             *)
LEMMA DenialsFinite ==
  ASSUME NEW T, NEW rc \in Seq(T)
  PROVE  /\ IsFiniteSet(Denials(rc)) /\ Cardinality(Denials(rc)) \in Nat
         /\ Denials(rc) \subseteq 1 .. Len(rc)
<1>1. DOMAIN rc = 1 .. Len(rc) /\ Len(rc) \in Nat
  BY LenProperties
<1>2. Denials(rc) \subseteq 1 .. Len(rc)
  BY <1>1 DEF Denials
<1>3. IsFiniteSet(1 .. Len(rc))
  BY <1>1, FS_Interval
<1> QED BY <1>2, <1>3, FS_Subset, FS_CardinalityType

(* An entry more adds one denial at most, and while the ring has room it   *)
(* adds exactly the one it is.                                             *)
LEMMA DenialsOfNext ==
  ASSUME NEW T, NEW rc \in Seq(T), NEW rc2 \in Seq(T), NEW e,
         NEW more \in {0, 1}, Len(rc2) = Len(rc) + more,
         \A k \in 1 .. Len(rc2) :
           rc2[k] = IF k = Len(rc2) THEN e ELSE rc[Len(rc) + 1 - Len(rc2) + k]
  PROVE  LET d == Cardinality(Denials(rc))
             d2 == Cardinality(Denials(rc2))
         IN /\ d2 <= IF e.allowed THEN d ELSE d + 1
            /\ more = 1 => d2 = IF e.allowed THEN d ELSE d + 1
<1> DEFINE n == Len(rc)
           m == Len(rc2)
<1>1. /\ n \in Nat /\ DOMAIN rc = 1 .. n
      /\ m \in Nat /\ DOMAIN rc2 = 1 .. m /\ m = n + more
  BY LenProperties
<1>2. /\ IsFiniteSet(Denials(rc)) /\ Cardinality(Denials(rc)) \in Nat
      /\ Denials(rc) \subseteq 1 .. n
  BY DenialsFinite
<1>3. /\ IsFiniteSet(Denials(rc2)) /\ Cardinality(Denials(rc2)) \in Nat
      /\ Denials(rc2) \subseteq 1 .. m
  BY DenialsFinite
<1>4. \A k \in 1 .. m : rc2[k] = IF k = m THEN e ELSE rc[n + 1 - m + k]
  OBVIOUS
<1> HIDE DEF n, m
<1>5. CASE more = 1
  <2>1. m = n + 1 /\ \A k \in 1 .. n : k \in 1 .. m /\ rc2[k] = rc[k]
    BY <1>1, <1>4, <1>5
  <2>2. rc2[m] = e /\ m \in 1 .. m /\ m \notin 1 .. n
    BY <1>1, <1>4, <2>1
  <2>3. Denials(rc2) = IF e.allowed THEN Denials(rc) ELSE Denials(rc) \cup {m}
    <3>1. \A k \in 1 .. m : k \in 1 .. n \/ k = m
      BY <1>1, <2>1
    <3> QED BY <1>1, <2>1, <2>2, <3>1 DEF Denials
  <2>4. Cardinality(Denials(rc) \cup {m}) = Cardinality(Denials(rc)) + 1
    BY <1>2, <2>2, FS_AddElement
  <2> QED BY <1>2, <1>3, <2>3, <2>4
<1>6. CASE more = 0
  <2> DEFINE Old == Denials(rc2) \ {m}
             f == [k \in Old |-> k + 1]
  <2>1. ASSUME NEW k \in Old PROVE k + 1 \in Denials(rc) /\ k \in Nat
    <3>1. k \in 1 .. m /\ k # m /\ m = n
      BY <1>1, <1>3, <1>6
    <3>2. rc2[k] = rc[k + 1] /\ k + 1 \in 1 .. n
      BY <1>1, <1>4, <3>1
    <3> QED BY <1>1, <3>1, <3>2 DEF Denials
  <2>2. f \in Injection(Old, Denials(rc))
    <3>1. f \in [Old -> Denials(rc)]
      BY <2>1
    <3>2. \A a, b \in Old : a + 1 = b + 1 => a = b
      BY <2>1
    <3> QED BY <3>1, <3>2 DEF Injection, IsInjective
  <2> HIDE DEF f
  <2>3. IsFiniteSet(Old) /\ Cardinality(Old) <= Cardinality(Denials(rc)) /\ Cardinality(Old) \in Nat
    <3>1. IsFiniteSet(Old) /\ Cardinality(Old) <= Cardinality(Denials(rc))
      BY <1>2, <2>2, FS_Injection
    <3> QED BY <3>1, FS_CardinalityType
  <2>4. CASE e.allowed
    <3>1. m \notin Denials(rc2)
      BY <1>1, <1>4, <2>4 DEF Denials
    <3>2. Old = Denials(rc2)
      BY <3>1
    <3> HIDE DEF Old
    <3>3. Cardinality(Denials(rc2)) <= Cardinality(Denials(rc)) /\ more # 1
      BY <1>6, <2>3, <3>2
    <3> QED BY <2>4, <3>3
  <2>5. CASE ~e.allowed
    <3>1. Denials(rc2) \subseteq Old \cup {m}
      OBVIOUS
    <3>2. /\ IsFiniteSet(Old \cup {m})
          /\ Cardinality(Old \cup {m}) = Cardinality(Old) + 1
      BY <2>3, FS_AddElement
    <3> HIDE DEF Old
    <3>3. Cardinality(Denials(rc2)) <= Cardinality(Old) + 1
      BY <3>1, <3>2, FS_Subset
    <3> QED BY <1>2, <1>3, <1>6, <2>3, <2>5, <3>3
  <2> QED BY <2>4, <2>5
<1> QED BY <1>5, <1>6

(* The assumption on the ring is one of those of the composition.          *)
LEMMA RingAssumed == RingAssumption
BY ServicesAssumption

(* The log starts in the invariant.                                        *)
LEMMA AuditInit ==
  ASSUME Init
  PROVE  AuditInv
<1>1. /\ labels = << >> /\ denied_count = 0 /\ allowed_count = 0
      /\ log = [i \in 0 .. LOG_SIZE - 1 |-> NOENTRY]
      /\ log_head = 0 /\ log_count = 0 /\ recent = << >>
  BY DEF Init, LogInit
<1>2. LabelsTyped
  BY <1>1, EmptySeq DEF LabelsTyped
<1>3. LogHolds(AuditEntries, log, 0, 0, << >>)
  BY <1>1, RingAssumed, LogStart
<1>4. AuditCounts
  <2>1. LOG_SIZE \in Nat /\ LOG_WIDTH \in Nat \ {0}
    BY RingAssumed DEF RingAssumption
  <2>2. Min({LOG_SIZE, 0}) = 0
    <3>1. Min({LOG_SIZE, 0}) = IF LOG_SIZE <= 0 THEN LOG_SIZE ELSE 0
      BY <2>1, MinIsSmaller
    <3> QED BY <2>1, <3>1
  <2>3. 0 % LOG_WIDTH = 0
    BY <2>1
  <2>4. Cardinality(Denials(recent)) = 0
    <3>1. Denials(recent) = {}
      BY <1>1 DEF Denials
    <3> QED BY <3>1, FS_EmptySet
  <2> QED BY <1>1, <2>2, <2>3, <2>4 DEF AuditCounts
<1> QED BY <1>1, <1>2, <1>3, <1>4 DEF AuditInv

(* A decision is logged and counted.                                       *)
LEMMA CheckAudited ==
  ASSUME AuditInv, NEW q \in Requests, Check(q)
  PROVE  AuditInv'
<1>1. PICK type \in LabelOf(q.pid) :
        LET allowed == Decided(rules, type, q)
        IN /\ Log([pid |-> q.pid, source |-> type, target |-> q.target,
                   class |-> q.class, perm |-> q.perm, allowed |-> allowed])
           /\ Count(allowed)
  BY DEF Check
<1> DEFINE ok == Decided(rules, type, q)
           e == [pid |-> q.pid, source |-> type, target |-> q.target,
                 class |-> q.class, perm |-> q.perm, allowed |-> ok]
           all == denied_count + allowed_count
<1>2. Log(e) /\ Count(ok) /\ labels' = labels
  BY <1>1 DEF Check, policyVars
<1>3. ok \in BOOLEAN
  BY DEF Decided
<1> HIDE DEF ok
<1>4. type \in Entered
  <2>1. LabelAt(q.pid) # {} /\ type = labels[Min(LabelAt(q.pid))].type
    BY DEF LabelOf
  <2>2. LabelAt(q.pid) \in SUBSET DOMAIN labels /\ labels \in Seq(Labels)
    BY DEF LabelAt, AuditInv, LabelsTyped
  <2>3. Min(LabelAt(q.pid)) \in DOMAIN labels
    BY <2>1, <2>2, FirstIsNamed
  <2>4. labels[Min(LabelAt(q.pid))] \in Labels
    BY <2>2, <2>3, ElementOfSeq, LenProperties
  <2> QED BY <2>1, <2>4 DEF Labels
<1>5. e \in AuditEntries /\ e.allowed = ok
  BY <1>3, <1>4 DEF AuditEntries
<1> HIDE DEF e
<1>6. /\ log' = [log EXCEPT ![log_head % LOG_SIZE] = e]
      /\ log_head' = (log_head + 1) % LOG_WIDTH
      /\ log_count' = Counted(log_count)
      /\ recent' = LastOf(Append(recent, e), Min({LOG_SIZE, Len(recent) + 1}))
  BY <1>2 DEF Log
<1>7. LogHolds(AuditEntries, log', log_head', log_count', recent')
  <2>1. LogHolds(AuditEntries, log, log_head, log_count, recent)
    BY DEF AuditInv
  <2> QED BY <1>5, <1>6, <2>1, RingAssumed, LogKeeps
<1>8. /\ LOG_SIZE \in Nat \ {0} /\ LOG_WIDTH \in Nat \ {0}
      /\ denied_count \in Nat /\ allowed_count \in Nat
      /\ log_count = IF LOG_SIZE <= all THEN LOG_SIZE ELSE all
      /\ log_head = all % LOG_WIDTH
      /\ recent \in Seq(AuditEntries) /\ Len(recent) = log_count
  <2>1. /\ LOG_SIZE \in Nat \ {0} /\ LOG_WIDTH \in Nat \ {0}
        /\ denied_count \in Nat /\ allowed_count \in Nat
    BY RingAssumed DEF RingAssumption, AuditInv, AuditCounts
  <2>2. all \in Nat /\ log_count = Min({LOG_SIZE, all}) /\ log_head = all % LOG_WIDTH
    BY <2>1 DEF AuditInv, AuditCounts
  <2>3. recent \in Seq(AuditEntries) /\ Len(recent) = log_count
    BY DEF AuditInv, LogHolds
  <2> HIDE DEF all
  <2>4. Min({LOG_SIZE, all}) = IF LOG_SIZE <= all THEN LOG_SIZE ELSE all
    BY <2>1, <2>2, MinIsSmaller
  <2> QED BY <2>1, <2>2, <2>3, <2>4
<1>9. /\ denied_count' = IF ok THEN denied_count ELSE denied_count + 1
      /\ allowed_count' = IF ok THEN allowed_count + 1 ELSE allowed_count
      /\ denied_count' + allowed_count' = all + 1
  BY <1>2, <1>8 DEF Count
<1>10. /\ log_count' = IF log_count < LOG_SIZE THEN log_count + 1 ELSE log_count
       /\ log_count' = IF LOG_SIZE <= all + 1 THEN LOG_SIZE ELSE all + 1
  BY <1>6, <1>8 DEF Counted
<1>11. log_head' = (all + 1) % LOG_WIDTH
  <2>1. all \in Int /\ 1 \in Int
    BY <1>8
  <2> HIDE DEF all
  <2>2. ((all % LOG_WIDTH) + 1) % LOG_WIDTH = (all + 1) % LOG_WIDTH
    BY <1>8, <2>1, ModPlus
  <2> QED BY <1>6, <1>8, <2>2
<1>12. /\ recent' \in Seq(AuditEntries) /\ Len(recent') = log_count'
       /\ \A k \in 1 .. Len(recent') :
            recent'[k] = IF k = Len(recent') THEN e ELSE recent[Len(recent) + 1 - Len(recent') + k]
  <2>1. Min({LOG_SIZE, Len(recent) + 1}) = log_count'
    <3>1. Len(recent) + 1 \in Nat /\ log_count \in Nat
      BY <1>8
    <3>2. Min({LOG_SIZE, Len(recent) + 1}) =
            IF LOG_SIZE <= Len(recent) + 1 THEN LOG_SIZE ELSE Len(recent) + 1
      BY <1>8, <3>1, MinIsSmaller
    <3> QED BY <1>8, <1>10, <3>1, <3>2
  <2>2. log_count' \in 1 .. Len(recent) + 1
    BY <1>8, <1>10
  <2>3. PICK m \in 1 .. Len(recent) + 1 : m = log_count'
    BY <2>2
  <2>4. PICK t : t = recent'
    OBVIOUS
  <2>5. t = LastOf(Append(recent, e), m)
    BY <1>6, <2>1, <2>3, <2>4
  <2>6. /\ t \in Seq(AuditEntries) /\ Len(t) = m
        /\ \A k \in 1 .. m : t[k] = IF k = m THEN e ELSE recent[Len(recent) + 1 - m + k]
    <3> DEFINE IsLast(U, s, x, k, u) ==
             /\ u \in Seq(U) /\ Len(u) = k
             /\ \A i \in 1 .. k : u[i] = IF i = k THEN x ELSE s[Len(s) + 1 - k + i]
    <3>1. \A U : \A s \in Seq(U), x \in U : \A k \in 1 .. Len(s) + 1 : \A u :
             u = LastOf(Append(s, x), k) => IsLast(U, s, x, k, u)
      BY LastOfAppend
    <3> HIDE DEF IsLast
    <3>2. IsLast(AuditEntries, recent, e, m, t)
      BY <1>5, <1>8, <2>5, <3>1
    <3> QED BY <3>2 DEF IsLast
  <2> QED BY <2>3, <2>4, <2>6
<1>13. LET d == Cardinality(Denials(recent))
           d2 == Cardinality(Denials(recent'))
       IN /\ d2 <= IF ok THEN d ELSE d + 1
          /\ log_count < LOG_SIZE => d2 = IF ok THEN d ELSE d + 1
  <2>1. PICK more \in {0, 1} : more = IF log_count < LOG_SIZE THEN 1 ELSE 0
    OBVIOUS
  <2>2. Len(recent') = Len(recent) + more
    BY <1>8, <1>10, <1>12, <2>1
  <2>3. PICK t : t = recent'
    OBVIOUS
  <2>4. /\ t \in Seq(AuditEntries) /\ Len(t) = Len(recent) + more
        /\ \A k \in 1 .. Len(t) :
             t[k] = IF k = Len(t) THEN e ELSE recent[Len(recent) + 1 - Len(t) + k]
    BY <1>12, <2>2, <2>3
  <2>5. LET d == Cardinality(Denials(recent))
            d2 == Cardinality(Denials(t))
        IN /\ d2 <= IF e.allowed THEN d ELSE d + 1
           /\ more = 1 => d2 = IF e.allowed THEN d ELSE d + 1
    BY <1>8, <2>4, DenialsOfNext
  <2>6. Denials(recent') = Denials(t)
    BY <2>3 DEF Denials
  <2> QED BY <1>5, <2>1, <2>5, <2>6
<1>14. AuditCounts'
  <2>1. Min({LOG_SIZE, denied_count' + allowed_count'}) = log_count'
    <3>1. PICK more \in Nat : more = all + 1 /\ denied_count' + allowed_count' = more
      BY <1>8, <1>9
    <3>2. Min({LOG_SIZE, more}) = IF LOG_SIZE <= more THEN LOG_SIZE ELSE more
      BY <1>8, MinIsSmaller
    <3> QED BY <1>10, <3>1, <3>2
  <2>2. PICK d : d = Cardinality(Denials(recent))
    OBVIOUS
  <2>3. PICK d2 : d2 = Cardinality(Denials(recent'))
    OBVIOUS
  <2>4. d \in Nat /\ d2 \in Nat
    <3>1. d \in Nat
      BY <1>8, <2>2, DenialsFinite
    <3>2. PICK t : t = recent'
      OBVIOUS
    <3>3. Cardinality(Denials(t)) \in Nat
      BY <1>12, <3>2, DenialsFinite
    <3> QED BY <2>3, <3>1, <3>2, <3>3 DEF Denials
  <2>5. d <= denied_count /\ (all <= LOG_SIZE => d = denied_count)
    BY <2>2 DEF AuditInv, AuditCounts
  <2>6. d2 <= denied_count' /\ (all + 1 <= LOG_SIZE => d2 = denied_count')
    <3>1. /\ d2 <= IF ok THEN d ELSE d + 1
          /\ log_count < LOG_SIZE => d2 = IF ok THEN d ELSE d + 1
      BY <1>13, <2>2, <2>3
    <3>2. d2 <= denied_count'
      BY <1>8, <1>9, <2>4, <2>5, <3>1
    <3>3. ASSUME all + 1 <= LOG_SIZE PROVE d2 = denied_count'
      <4>1. all <= LOG_SIZE /\ log_count < LOG_SIZE
        BY <1>8, <3>3
      <4> QED BY <1>9, <2>5, <3>1, <4>1
    <3> QED BY <3>2, <3>3
  <2>7. denied_count' \in Nat /\ allowed_count' \in Nat
    BY <1>8, <1>9
  <2> HIDE DEF all
  <2> QED BY <1>9, <1>11, <2>1, <2>3, <2>6, <2>7 DEF AuditCounts, Denials
<1>15. LabelsTyped'
  BY <1>2 DEF AuditInv, LabelsTyped
<1>16. LogHolds(AuditEntries, log, log_head, log_count, recent)'
  BY <1>7 DEF LogHolds, CellOf
<1> QED BY <1>14, <1>15, <1>16 DEF AuditInv

(* The other calls leave the log and its counts alone.                     *)
LEMMA AuditNext ==
  ASSUME AuditInv, [Next]_vars
  PROVE  AuditInv'
<1>1. ASSUME UNCHANGED <<countVars, logVars>>, LabelsTyped'
      PROVE  AuditInv'
  BY <1>1 DEF countVars, logVars, AuditInv, AuditCounts, LogHolds, CellOf, Denials
<1>2. CASE ChangePolicy
  BY <1>1, <1>2 DEF ChangePolicy, blocksec_set_mode, blocksec_add_rule, blocksec_remove_rule,
                    Policy, AuditInv, LabelsTyped
<1>3. ASSUME NEW name \in NewDomains, blocksec_add_domain(name)
      PROVE  AuditInv'
  BY <1>1, <1>3 DEF blocksec_add_domain, Policy, AuditInv, LabelsTyped
<1>4. ASSUME NEW pid \in Pid, NEW name \in Entered, blocksec_transition(pid, name)
      PROVE  AuditInv'
  <2>1. labels \in Seq(Labels) /\ UNCHANGED <<countVars, logVars>>
    BY <1>4 DEF blocksec_transition, blocksec_set_process_label, Policy, AuditInv, LabelsTyped
  <2>2. CASE labels' = Append(labels, [pid |-> pid, type |-> name])
    <3>1. [pid |-> pid, type |-> name] \in Labels
      BY DEF Labels
    <3>2. labels' \in Seq(Labels)
      BY <2>1, <2>2, <3>1, AppendProperties
    <3> QED BY <1>1, <2>1, <3>2 DEF LabelsTyped
  <2>3. CASE Known(pid) /\ labels' = [labels EXCEPT ![Min(LabelAt(pid))].type = name]
    <3> DEFINE i == Min(LabelAt(pid))
               b == [labels[i] EXCEPT !.type = name]
    <3>1. LabelAt(pid) # {} /\ LabelAt(pid) \in SUBSET DOMAIN labels
      BY <2>3 DEF Known, LabelAt
    <3>2. i \in DOMAIN labels
      BY <2>1, <3>1, FirstIsNamed
    <3> HIDE DEF i
    <3>3. i \in 1 .. Len(labels) /\ labels[i] \in Labels
      BY <2>1, <3>2, LenProperties, ElementOfSeq
    <3>4. b \in Labels
      BY <3>3 DEF Labels
    <3>5. labels' = [labels EXCEPT ![i] = b]
      BY <2>3 DEF i
    <3> HIDE DEF b
    <3>6. [labels EXCEPT ![i] = b] \in Seq(Labels)
      BY <2>1, <3>3, <3>4, ExceptSeq
    <3> QED BY <1>1, <2>1, <3>5, <3>6 DEF LabelsTyped
  <2> QED BY <1>4, <2>2, <2>3 DEF blocksec_transition, blocksec_set_process_label
<1>5. ASSUME NEW q \in Requests, Check(q)
      PROVE  AuditInv'
  BY <1>5, CheckAudited
<1>6. CASE UNCHANGED vars
  BY <1>1, <1>6 DEF vars, policyVars, AuditInv, LabelsTyped
<1> QED BY <1>2, <1>3, <1>4, <1>5, <1>6 DEF Next, Label, Lookup

(* A reader of this log gets its newest entries.                           *)
LEMMA AuditRead ==
  ASSUME AuditInv
  PROVE  LogIsRecent /\ CountsMatchLog
<1>1. LogHolds(AuditEntries, log, log_head, log_count, recent) /\ AuditCounts
  BY DEF AuditInv
<1>2. ASSUME NEW max \in 0 .. LOG_SIZE + 1
      PROVE  get_log(max) = LastOf(recent, Min({Len(recent), max}))
  <2>1. max \in Nat
    BY RingAssumed DEF RingAssumption
  <2>2. ReadOf(log, log_head, log_count, max) = LastOf(recent, Min({Len(recent), max}))
    BY <1>1, <2>1, RingAssumed, ReadersGetRecent
  <2> QED BY <2>2 DEF ReadOf, get_log, Cell
<1>3. CountsMatchLog
  BY <1>1 DEF AuditCounts, CountsMatchLog, Denials
<1> QED BY <1>2, <1>3 DEF LogIsRecent

(* Readers of the log get the newest entries of it, and the statistics     *)
(* count what is in it, whatever sequence of decisions, changes of the     *)
(* policy and labels went before.                                          *)
THEOREM AuditIsRecent ==
  Spec => [](LogIsRecent /\ CountsMatchLog)
<1>1. Init => AuditInv
  BY AuditInit
<1>2. AuditInv /\ [Next]_vars => AuditInv'
  BY AuditNext
<1>3. AuditInv => LogIsRecent /\ CountsMatchLog
  BY AuditRead
<1> QED BY <1>1, <1>2, <1>3, PTL DEF Spec

-----------------------------------------------------------------------------
(* The debugger: its log.                                                  *)

DbgEntries == [level : Levels, pid : Pids]

DbgLogInv == LogHolds(DbgEntries, dLog, dHead, dCount, dRecent)

(* The debugger's own copies of the operators are those of the log.        *)
LEMMA SameOperators ==
  /\ \A T : D!Min(T) = Min(T)
  /\ \A s, n : D!LastOf(s, n) = LastOf(s, n)
BY DEF D!Min, Min, D!LastOf, LastOf

(* An entry of the debugger keeps the invariant.                           *)
LEMMA DbgLogKeeps ==
  ASSUME DbgLogInv, NEW level \in Levels, D!dbg_log(level)
  PROVE  DbgLogInv'
<1>1. PICK pid \in Pids : D!Log([level |-> level, pid |-> pid])
  BY DEF D!dbg_log
<1> DEFINE e == [level |-> level, pid |-> pid]
<1>2. e \in DbgEntries /\ D!Log(e)
  BY <1>1 DEF DbgEntries
<1> HIDE DEF e
<1>3. /\ dLog' = [dLog EXCEPT ![dHead % LOG_SIZE] = e]
      /\ dHead' = (dHead + 1) % LOG_WIDTH
      /\ dCount' = Counted(dCount)
      /\ dRecent' = LastOf(Append(dRecent, e), Min({LOG_SIZE, Len(dRecent) + 1}))
  BY <1>2, SameOperators DEF D!Log, D!Counted, Counted
<1>4. LogHolds(DbgEntries, dLog, dHead, dCount, dRecent)
  BY DEF DbgLogInv
<1>5. LogHolds(DbgEntries, dLog', dHead', dCount', dRecent')
  BY <1>2, <1>3, <1>4, RingAssumed, LogKeeps
<1> QED BY <1>5 DEF DbgLogInv, LogHolds, CellOf

(* A reader of the log gets its newest entries, oldest first and each once,*)
(* for every size of the ring and of its buffer, and across the wrap of    *)
(* the counter.                                                            *)
THEOREM LogReadsRecent ==
  D!Spec => []D!LogIsRecent
<1>1. D!Init => DbgLogInv
  <2> SUFFICES ASSUME D!Init PROVE DbgLogInv
    OBVIOUS
  <2>1. /\ dLog = [i \in 0 .. LOG_SIZE - 1 |-> NOENTRY]
        /\ dHead = 0 /\ dCount = 0 /\ dRecent = << >>
    BY DEF D!Init, D!dbg_init, D!LogInit
  <2>2. LogHolds(DbgEntries, dLog, 0, 0, << >>)
    BY <2>1, RingAssumed, LogStart
  <2> QED BY <2>1, <2>2 DEF DbgLogInv
<1>2. DbgLogInv /\ [D!Next]_(D!vars) => DbgLogInv'
  <2> SUFFICES ASSUME DbgLogInv, [D!Next]_(D!vars) PROVE DbgLogInv'
    OBVIOUS
  <2>1. ASSUME NEW level \in Levels, D!dbg_log(level) PROVE DbgLogInv'
    BY <2>1, DbgLogKeeps
  <2>2. CASE UNCHANGED D!logVars
    BY <2>2 DEF D!logVars, DbgLogInv, LogHolds, CellOf
  <2> QED BY <2>1, <2>2 DEF D!Next, D!Lookup, D!vars, D!dbg_add_breakpoint, D!dbg_remove_breakpoint
<1>3. DbgLogInv => D!LogIsRecent
  <2> SUFFICES ASSUME DbgLogInv, NEW max \in 0 .. LOG_SIZE + 1
               PROVE  D!get_log(max) = D!LastOf(dRecent, D!Min({Len(dRecent), max}))
    BY DEF D!LogIsRecent
  <2>1. max \in Nat
    BY RingAssumed DEF RingAssumption
  <2>2. ReadOf(dLog, dHead, dCount, max) = LastOf(dRecent, Min({Len(dRecent), max}))
    BY <2>1, RingAssumed, ReadersGetRecent DEF DbgLogInv
  <2> QED BY <2>2, SameOperators DEF ReadOf, D!get_log, D!Cell
<1> QED BY <1>1, <1>2, <1>3, PTL DEF D!Spec

-----------------------------------------------------------------------------
(* The monitor's graphs.                                                   *)

Samples == [cpu : 0 .. PERCENT, mem : 0 .. PERCENT]

(* As many of the newest values as the index has counted since it was zero *)
(* last are in the cells before it: hist the cells, idx the index, ln the  *)
(* length of the history and col its values.                               *)
GraphHolds(hist, idx, ln, col) ==
  \A j \in 1 .. HIST_SIZE : j <= idx => col[ln + 1 - j] = hist[(idx - j) % HIST_SIZE]

(* The length of the history, never less than what the index promises.     *)
LengthHolds(idx, ln) == /\ idx \in 0 .. INDEX_WIDTH - 1
                        /\ ln \in 0 .. HIST_SIZE
                        /\ idx <= ln \/ ln = HIST_SIZE

(* A value more at the end, and so many less at the front.                 *)
NextLength(n) == IF n + 1 > HIST_SIZE THEN HIST_SIZE ELSE n + 1
NextColumn(col, n, v, col2, m) ==
  \A k \in 1 .. m : col2[k] = IF k = m THEN v ELSE col[k + n + 1 - m]

Column(s, f) == [k \in DOMAIN s |-> s[k][f]]

(* A value is put in at the index and the index is moved on.               *)
Sampled(hist, idx, v, hist2, idx2) == /\ DOMAIN hist = 0 .. HIST_SIZE - 1
                                      /\ hist2 = [hist EXCEPT ![idx % HIST_SIZE] = v]
                                      /\ idx2 = (idx + 1) % INDEX_WIDTH

GraphInv ==
  /\ LengthHolds(hist_idx, Len(samples))
  /\ samples \in Seq(Samples)
  /\ cpu_hist \in [M!Cells -> 0 .. PERCENT]
  /\ mem_hist \in [M!Cells -> 0 .. PERCENT]
  /\ GraphHolds(cpu_hist, hist_idx, Len(samples), Column(samples, "cpu"))
  /\ GraphHolds(mem_hist, hist_idx, Len(samples), Column(samples, "mem"))

(* The sizes.                                                              *)
LEMMA MonitorAssumed ==
  /\ HIST_SIZE \in Nat \ {0} /\ INDEX_WIDTH \in Nat \ {0} /\ WIDTH \in Nat \ {0}
  /\ BYTE_WIDTH \in Nat \ {0} /\ PERCENT \in Nat \ {0}
  /\ PERCENT < BYTE_WIDTH /\ HIST_SIZE < INDEX_WIDTH
BY ServicesAssumption DEF M!SysmonAssumption

(* A sample more, and the index one on or back at zero.                    *)
LEMMA SampleKeeps ==
  ASSUME NEW idx, NEW ln, LengthHolds(idx, ln),
         NEW hist, NEW col, GraphHolds(hist, idx, ln, col),
         NEW v, NEW hist2, NEW idx2, Sampled(hist, idx, v, hist2, idx2),
         NEW ln2, ln2 = NextLength(ln),
         NEW col2, NextColumn(col, ln, v, col2, ln2)
  PROVE  LengthHolds(idx2, ln2) /\ GraphHolds(hist2, idx2, ln2, col2)
<1>0. /\ DOMAIN hist = 0 .. HIST_SIZE - 1
      /\ hist2 = [hist EXCEPT ![idx % HIST_SIZE] = v]
      /\ idx2 = (idx + 1) % INDEX_WIDTH
  BY DEF Sampled
<1>1. /\ HIST_SIZE \in Nat \ {0} /\ INDEX_WIDTH \in Nat \ {0} /\ HIST_SIZE < INDEX_WIDTH
      /\ idx \in 0 .. INDEX_WIDTH - 1 /\ ln \in 0 .. HIST_SIZE
      /\ idx <= ln \/ ln = HIST_SIZE
      /\ ln2 = IF ln + 1 > HIST_SIZE THEN HIST_SIZE ELSE ln + 1
      /\ \A k \in 1 .. ln2 : col2[k] = IF k = ln2 THEN v ELSE col[k + ln + 1 - ln2]
  BY MonitorAssumed DEF LengthHolds, NextLength, NextColumn
<1>2. idx2 = IF idx + 1 = INDEX_WIDTH THEN 0 ELSE idx + 1
  <2>1. PICK y \in 0 .. 2 * INDEX_WIDTH - 1 : y = idx + 1
    BY <1>1
  <2>2. y % INDEX_WIDTH = IF y < INDEX_WIDTH THEN y ELSE y - INDEX_WIDTH
    BY <1>1, ModWrap
  <2> QED BY <1>0, <1>1, <2>1, <2>2
<1>3. LengthHolds(idx2, ln2)
  BY <1>1, <1>2 DEF LengthHolds
<1>4. ASSUME NEW j \in 1 .. HIST_SIZE, j <= idx2
      PROVE  col2[ln2 + 1 - j] = hist2[(idx2 - j) % HIST_SIZE]
  <2>1. idx2 = idx + 1 /\ idx2 - j = idx - (j - 1)
    BY <1>1, <1>2, <1>4
  <2>2. ln2 + 1 - j \in 1 .. ln2 /\ ln2 \in 1 .. HIST_SIZE
    BY <1>1, <1>4, <2>1
  <2>3. CASE j = 1
    <3>1. idx % HIST_SIZE \in DOMAIN hist
      <4>1. idx \in Int
        BY <1>1
      <4>2. idx % HIST_SIZE \in 0 .. HIST_SIZE - 1
        BY <1>1, <4>1, ModRange
      <4> QED BY <1>0, <4>2
    <3>2. idx2 - j = idx /\ ln2 + 1 - j = ln2
      BY <1>1, <2>1, <2>2, <2>3
    <3> QED BY <1>0, <1>1, <2>2, <3>1, <3>2
  <2>4. CASE j # 1
    <3> DEFINE i == j - 1
               x == idx - i
    <3>1. /\ i \in 1 .. HIST_SIZE /\ i <= idx /\ i < HIST_SIZE
          /\ x \in Nat /\ x < idx /\ idx < x + HIST_SIZE
      BY <1>1, <1>4, <2>1, <2>4
    <3>2. col2[ln2 + 1 - j] = col[ln + 1 - i]
      <4>1. ln2 + 1 - j # ln2 /\ (ln2 + 1 - j) + ln + 1 - ln2 = ln + 1 - i
        BY <1>1, <2>2, <2>4
      <4> QED BY <1>1, <2>2, <4>1
    <3>3. col[ln + 1 - i] = hist[x % HIST_SIZE]
      BY <3>1 DEF GraphHolds
    <3>4. idx2 - j = x
      BY <2>1
    <3> HIDE DEF x
    <3>5. x % HIST_SIZE # idx % HIST_SIZE
      <4> SUFFICES ASSUME x % HIST_SIZE = idx % HIST_SIZE PROVE FALSE
        OBVIOUS
      <4>1. x \in Int /\ idx \in Int /\ x <= idx
        BY <1>1, <3>1
      <4>2. x = idx
        BY <1>1, <3>1, <4>1, ModInjective
      <4> QED BY <1>1, <3>1, <4>2
    <3>6. hist2[x % HIST_SIZE] = hist[x % HIST_SIZE]
      <4>1. x \in Int
        BY <3>1
      <4>2. x % HIST_SIZE \in 0 .. HIST_SIZE - 1
        BY <1>1, <4>1, ModRange
      <4> QED BY <1>0, <3>5, <4>2
    <3> QED BY <3>2, <3>3, <3>4, <3>6
  <2> QED BY <2>3, <2>4
<1> QED BY <1>3, <1>4 DEF GraphHolds

(* A quotient is no more than what its dividend is a multiple of.          *)
LEMMA QuotientBound ==
  ASSUME NEW t \in Nat \ {0}, NEW x \in Nat, NEW p \in Nat, x <= t * p
  PROVE  x \div t \in 0 .. p
<1> DEFINE d == x \div t
<1>1. d \in Nat /\ x = t * d + (x % t) /\ x % t \in Nat
  OBVIOUS
<1> HIDE DEF d
<1>2. t * d <= t * p
  BY <1>1
<1>3. d <= p
  <2> SUFFICES ASSUME d >= p + 1 PROVE FALSE
    BY <1>1
  <2>1. t * d >= t * (p + 1)
    BY <1>1
  <2>2. t * (p + 1) = t * p + t
    OBVIOUS
  <2> QED BY <1>1, <1>2, <2>1, <2>2
<1> QED BY <1>1, <1>3 DEF d

(* What is left of an amount by a width is not more than the amount.       *)
LEMMA ModIsLess ==
  ASSUME NEW w \in Nat \ {0}, NEW a \in Nat
  PROVE  a % w \in Nat /\ a % w <= a
<1> DEFINE x == a % w
<1>1. a \in Int
  OBVIOUS
<1>2. PICK k \in Int : a = w * k + x
  BY <1>1, DivMod
<1>3. x \in 0 .. w - 1
  BY <1>1, ModRange
<1> HIDE DEF x
<1>4. k >= 0
  <2> SUFFICES ASSUME k <= -1 PROVE FALSE
    BY <1>2
  <2>1. w * k <= w * (-1)
    OBVIOUS
  <2>2. w * (-1) = -w
    OBVIOUS
  <2> QED BY <1>2, <1>3, <2>1, <2>2
<1>5. w * k >= 0
  BY <1>4
<1> QED BY <1>2, <1>3, <1>5 DEF x

(* A sample stays in the frame of the graph, whatever wraps before.        *)
LEMMA SampleRange ==
  ASSUME NEW r \in Readings
  PROVE  M!Cpu(r) \in 0 .. PERCENT /\ M!Mem(r) \in 0 .. PERCENT
<1>1. r.procs \in Nat /\ r.free \in 0 .. r.total /\ r.total \in 0 .. WIDTH - 1
  BY ServicesAssumption DEF M!SysmonAssumption
<1>2. M!Cpu(r) \in 0 .. PERCENT
  <2> DEFINE x == (r.procs * 5) % BYTE_WIDTH
  <2>1. x \in Nat
    <3>1. r.procs * 5 \in Int
      BY <1>1
    <3>2. x \in 0 .. BYTE_WIDTH - 1
      BY <3>1, MonitorAssumed, ModRange
    <3> HIDE DEF x
    <3> QED BY <3>2, MonitorAssumed
  <2> HIDE DEF x
  <2>2. M!Clipped(x) \in 0 .. PERCENT
    BY <2>1, MonitorAssumed DEF M!Clipped
  <2> QED BY <2>2 DEF M!Cpu, x
<1>3. M!Mem(r) \in 0 .. PERCENT
  <2> DEFINE t == IF r.total = 0 THEN 1 ELSE r.total
             u == r.total - r.free
             a == u * PERCENT
             x == a % WIDTH
             z == x \div t
  <2>1. t \in Nat \ {0} /\ u \in 0 .. t /\ PERCENT \in Nat
    BY <1>1, MonitorAssumed
  <2> HIDE DEF t, u
  <2>2. a \in Nat /\ a <= t * PERCENT
    <3>1. a \in Nat /\ (t - u) * PERCENT \in Nat /\ t * PERCENT = a + (t - u) * PERCENT
      BY <2>1
    <3> QED BY <3>1
  <2> HIDE DEF a
  <2>3. x \in Nat /\ x <= a
    BY <2>2, MonitorAssumed, ModIsLess
  <2> HIDE DEF x
  <2>4. z \in 0 .. PERCENT
    <3>1. x <= t * PERCENT
      <4>1. t * PERCENT \in Int
        BY <2>1
      <4> QED BY <2>2, <2>3, <4>1
    <3> QED BY <2>1, <2>3, <3>1, QuotientBound
  <2> HIDE DEF z
  <2>5. z % BYTE_WIDTH = z
    <3>1. z \in 0 .. 2 * BYTE_WIDTH - 1 /\ z < BYTE_WIDTH
      BY <2>4, MonitorAssumed
    <3> QED BY <3>1, MonitorAssumed, ModWrap
  <2> QED BY <2>4, <2>5 DEF M!Mem, z, x, a, u, t
<1> QED BY <1>2, <1>3

(* The history has one sample more, and one less at the front when full.   *)
LEMMA SamplesOfNext ==
  ASSUME NEW s \in Seq(Samples), Len(s) \in 0 .. HIST_SIZE, NEW e \in Samples,
         NEW s2, s2 = M!Newest(Append(s, e)), NEW f \in {"cpu", "mem"}
  PROVE  /\ s2 \in Seq(Samples)
         /\ Len(s2) = NextLength(Len(s))
         /\ NextColumn(Column(s, f), Len(s), e[f], Column(s2, f), Len(s2))
<1> DEFINE n == Len(s)
           a == Append(s, e)
<1>1. /\ n \in 0 .. HIST_SIZE /\ HIST_SIZE \in Nat \ {0} /\ DOMAIN s = 1 .. n
      /\ a \in Seq(Samples) /\ Len(a) = n + 1
      /\ \A k \in 1 .. n : a[k] = s[k]
      /\ a[n + 1] = e
  BY MonitorAssumed, AppendProperties, LenProperties
<1>2. s2 = IF n + 1 > HIST_SIZE THEN Tail(a) ELSE a
  BY <1>1 DEF M!Newest
<1> HIDE DEF n, a
<1> DEFINE m == IF n + 1 > HIST_SIZE THEN HIST_SIZE ELSE n + 1
<1>3. /\ s2 \in Seq(Samples) /\ Len(s2) = m
      /\ \A k \in 1 .. m : s2[k] = a[k + n + 1 - m]
  <2>1. CASE n + 1 > HIST_SIZE
    <3>1. a # << >> /\ n = HIST_SIZE /\ m = n
      BY <1>1, <2>1
    <3>2. /\ Tail(a) \in Seq(Samples) /\ Len(Tail(a)) = Len(a) - 1
          /\ \A k \in 1 .. Len(Tail(a)) : Tail(a)[k] = a[k + 1]
      BY <1>1, <3>1, HeadTailProperties
    <3>3. \A k \in 1 .. m : k + n + 1 - m = k + 1
      BY <1>1, <3>1
    <3> QED BY <1>1, <1>2, <2>1, <3>1, <3>2, <3>3
  <2>2. CASE ~(n + 1 > HIST_SIZE)
    <3>1. m = n + 1 /\ s2 = a /\ \A k \in 1 .. m : k + n + 1 - m = k
      BY <1>1, <1>2, <2>2
    <3> QED BY <1>1, <3>1
  <2> QED BY <2>1, <2>2
<1>4. m \in 1 .. n + 1
  BY <1>1
<1> HIDE DEF m
<1>5. DOMAIN s2 = 1 .. m
  BY <1>3, LenProperties
<1>6. ASSUME NEW k \in 1 .. m
      PROVE  Column(s2, f)[k] = IF k = m THEN e[f] ELSE Column(s, f)[k + n + 1 - m]
  <2>1. Column(s2, f)[k] = a[k + n + 1 - m][f]
    BY <1>3, <1>5 DEF Column
  <2>2. CASE k = m
    <3>1. k + n + 1 - m = n + 1
      BY <1>1, <1>4, <2>2
    <3> QED BY <1>1, <2>1, <2>2, <3>1
  <2>3. CASE k # m
    <3>1. k + n + 1 - m \in 1 .. n
      BY <1>1, <1>4, <2>3
    <3> QED BY <1>1, <2>1, <2>3, <3>1 DEF Column
  <2> QED BY <2>2, <2>3
<1> QED BY <1>3, <1>6 DEF n, m, NextLength, NextColumn

(* A round of the monitor keeps the graphs.                                *)
LEMMA UpdateKeeps ==
  ASSUME GraphInv, NEW r \in Readings, M!sysmon_update(r)
  PROVE  GraphInv'
<1> DEFINE e == [cpu |-> M!Cpu(r), mem |-> M!Mem(r)]
<1>1. e \in Samples
  BY SampleRange DEF Samples
<1>2. e.cpu = M!Cpu(r) /\ e.mem = M!Mem(r) /\ e["cpu"] = e.cpu /\ e["mem"] = e.mem
  OBVIOUS
<1> HIDE DEF e
<1>3. /\ cpu_hist' = [cpu_hist EXCEPT ![hist_idx % HIST_SIZE] = e["cpu"]]
      /\ mem_hist' = [mem_hist EXCEPT ![hist_idx % HIST_SIZE] = e["mem"]]
      /\ hist_idx' = (hist_idx + 1) % INDEX_WIDTH
  BY <1>2 DEF M!sysmon_update, M!CellOf
<1>4. samples' = M!Newest(Append(samples, e))
  BY DEF M!sysmon_update, e
<1>5. /\ samples \in Seq(Samples) /\ Len(samples) \in 0 .. HIST_SIZE
      /\ LengthHolds(hist_idx, Len(samples))
      /\ GraphHolds(cpu_hist, hist_idx, Len(samples), Column(samples, "cpu"))
      /\ GraphHolds(mem_hist, hist_idx, Len(samples), Column(samples, "mem"))
  BY DEF GraphInv, LengthHolds
<1>6. /\ cpu_hist \in [0 .. HIST_SIZE - 1 -> 0 .. PERCENT]
      /\ mem_hist \in [0 .. HIST_SIZE - 1 -> 0 .. PERCENT]
  BY DEF GraphInv, M!Cells
<1>7. PICK s2 : s2 = samples'
  OBVIOUS
<1>8. PICK ln2 : ln2 = NextLength(Len(samples))
  OBVIOUS
<1>9. ASSUME NEW f \in {"cpu", "mem"}
      PROVE  /\ s2 \in Seq(Samples) /\ Len(s2) = ln2
             /\ NextColumn(Column(samples, f), Len(samples), e[f], Column(s2, f), ln2)
  <2>1. s2 = M!Newest(Append(samples, e))
    BY <1>4, <1>7
  <2>2. /\ s2 \in Seq(Samples)
        /\ Len(s2) = NextLength(Len(samples))
        /\ NextColumn(Column(samples, f), Len(samples), e[f], Column(s2, f), Len(s2))
    BY <1>1, <1>5, <2>1, SamplesOfNext
  <2> QED BY <1>8, <2>2
<1>10. ASSUME NEW f \in {"cpu", "mem"}, NEW hist, NEW hist2,
              DOMAIN hist = 0 .. HIST_SIZE - 1,
              GraphHolds(hist, hist_idx, Len(samples), Column(samples, f)),
              hist2 = [hist EXCEPT ![hist_idx % HIST_SIZE] = e[f]]
       PROVE  LengthHolds(hist_idx', ln2) /\ GraphHolds(hist2, hist_idx', ln2, Column(s2, f))
  <2>1. PICK col2 : col2 = Column(s2, f)
    OBVIOUS
  <2>2. PICK col : col = Column(samples, f)
    OBVIOUS
  <2>3. PICK ln : ln = Len(samples)
    OBVIOUS
  <2>4. PICK idx2 : idx2 = hist_idx'
    OBVIOUS
  <2>5. PICK idx : idx = hist_idx
    OBVIOUS
  <2>6. PICK v : v = e[f]
    OBVIOUS
  <2>7. NextColumn(col, ln, v, col2, ln2)
    BY <1>9, <2>1, <2>2, <2>3, <2>6
  <2>8. LengthHolds(idx, ln) /\ GraphHolds(hist, idx, ln, col)
    BY <1>5, <1>10, <2>2, <2>3, <2>5
  <2>9. ln2 = NextLength(ln)
    BY <1>8, <2>3
  <2>10. Sampled(hist, idx, v, hist2, idx2)
    BY <1>3, <1>10, <2>4, <2>5, <2>6 DEF Sampled
  <2>11. LengthHolds(idx2, ln2) /\ GraphHolds(hist2, idx2, ln2, col2)
    BY <2>7, <2>8, <2>9, <2>10, SampleKeeps
  <2> QED BY <2>1, <2>4, <2>11
<1>11. /\ LengthHolds(hist_idx', ln2)
       /\ GraphHolds(cpu_hist', hist_idx', ln2, Column(s2, "cpu"))
       /\ GraphHolds(mem_hist', hist_idx', ln2, Column(s2, "mem"))
  <2>1. DOMAIN cpu_hist = 0 .. HIST_SIZE - 1 /\ DOMAIN mem_hist = 0 .. HIST_SIZE - 1
    BY <1>6
  <2>2. LengthHolds(hist_idx', ln2) /\ GraphHolds(cpu_hist', hist_idx', ln2, Column(s2, "cpu"))
    BY <1>3, <1>5, <1>10, <2>1
  <2>3. GraphHolds(mem_hist', hist_idx', ln2, Column(s2, "mem"))
    BY <1>3, <1>5, <1>10, <2>1
  <2> QED BY <2>2, <2>3
<1>12. cpu_hist' \in [M!Cells -> 0 .. PERCENT] /\ mem_hist' \in [M!Cells -> 0 .. PERCENT]
  <2>1. e["cpu"] \in 0 .. PERCENT /\ e["mem"] \in 0 .. PERCENT
    BY <1>2, SampleRange
  <2> QED BY <1>3, <1>6, <2>1 DEF M!Cells
<1>13. samples' \in Seq(Samples) /\ Len(samples') = ln2
  BY <1>7, <1>9
<1>14. Column(samples, "cpu")' = Column(s2, "cpu") /\ Column(samples, "mem")' = Column(s2, "mem")
  BY <1>7 DEF Column
<1>15. /\ GraphHolds(cpu_hist, hist_idx, Len(samples), Column(samples, "cpu"))'
       /\ GraphHolds(mem_hist, hist_idx, Len(samples), Column(samples, "mem"))'
  BY <1>11, <1>13, <1>14 DEF GraphHolds
<1>16. LengthHolds(hist_idx, Len(samples))'
  BY <1>11, <1>13 DEF LengthHolds
<1> QED BY <1>12, <1>13, <1>15, <1>16 DEF GraphInv

(* The monitor starts in the invariant.                                    *)
LEMMA GraphStart ==
  ASSUME M!Init
  PROVE  GraphInv
<1>1. /\ cpu_hist = [i \in M!Cells |-> 0] /\ mem_hist = [i \in M!Cells |-> 0]
      /\ hist_idx = 0 /\ samples = << >>
  BY DEF M!Init, M!sysmon_init
<1>2. samples \in Seq(Samples) /\ Len(samples) = 0
  BY <1>1, EmptySeq
<1>3. LengthHolds(hist_idx, Len(samples))
  BY <1>1, <1>2, MonitorAssumed DEF LengthHolds
<1>4. 0 \in 0 .. PERCENT
  BY MonitorAssumed
<1>5. \A j \in 1 .. HIST_SIZE : ~(j <= hist_idx)
  BY <1>1, MonitorAssumed
<1> QED BY <1>1, <1>2, <1>3, <1>4, <1>5 DEF GraphInv, GraphHolds

(* The line that is drawn ends with the newest of the history.             *)
LEMMA GraphDrawn ==
  ASSUME GraphInv
  PROVE  M!GraphIsRecent
<1>1. /\ HIST_SIZE \in Nat \ {0} /\ INDEX_WIDTH \in Nat \ {0} /\ HIST_SIZE < INDEX_WIDTH
      /\ hist_idx \in 0 .. INDEX_WIDTH - 1
      /\ samples \in Seq(Samples)
      /\ Len(samples) \in 0 .. HIST_SIZE
      /\ hist_idx <= Len(samples) \/ Len(samples) = HIST_SIZE
  BY MonitorAssumed DEF GraphInv, LengthHolds
<1>2. ASSUME NEW j \in 1 .. HIST_SIZE, j <= hist_idx
      PROVE  j <= Len(samples)
  BY <1>1, <1>2
<1>3. ASSUME NEW j \in 1 .. HIST_SIZE, j <= hist_idx, NEW f \in {"cpu", "mem"}, NEW hist,
             GraphHolds(hist, hist_idx, Len(samples), Column(samples, f))
      PROVE  M!draw_graph(hist)[HIST_SIZE + 1 - j] = samples[Len(samples) + 1 - j][f]
  <2> DEFINE i == HIST_SIZE + 1 - j
             x == hist_idx - j
  <2>1. /\ i \in 1 .. HIST_SIZE /\ hist_idx - HIST_SIZE + i - 1 = x
        /\ x \in 0 .. 2 * INDEX_WIDTH - 1 /\ x < INDEX_WIDTH
    BY <1>1, <1>3
  <2>2. Column(samples, f)[Len(samples) + 1 - j] = hist[x % HIST_SIZE]
    BY <1>3 DEF GraphHolds
  <2>3. Column(samples, f)[Len(samples) + 1 - j] = samples[Len(samples) + 1 - j][f]
    <3>1. PICK n \in Nat : n = Len(samples)
      BY <1>1
    <3>2. n + 1 - j \in 1 .. n
      BY <1>2, <1>3, <3>1
    <3>3. DOMAIN samples = 1 .. n
      BY <1>1, <3>1, LenProperties
    <3> QED BY <3>1, <3>2, <3>3 DEF Column
  <2> HIDE DEF i, x
  <2>4. M!draw_graph(hist)[i] = hist[((hist_idx - HIST_SIZE + i - 1) % INDEX_WIDTH) % HIST_SIZE]
    BY <2>1 DEF M!draw_graph
  <2>5. x % INDEX_WIDTH = x
    BY <1>1, <2>1, ModWrap
  <2> QED BY <2>1, <2>2, <2>3, <2>4, <2>5 DEF i
<1>4. ASSUME NEW j \in 1 .. HIST_SIZE, j <= hist_idx
      PROVE  /\ j <= Len(samples)
             /\ M!draw_graph(cpu_hist)[HIST_SIZE + 1 - j] = samples[Len(samples) + 1 - j].cpu
             /\ M!draw_graph(mem_hist)[HIST_SIZE + 1 - j] = samples[Len(samples) + 1 - j].mem
  <2>1. /\ GraphHolds(cpu_hist, hist_idx, Len(samples), Column(samples, "cpu"))
        /\ GraphHolds(mem_hist, hist_idx, Len(samples), Column(samples, "mem"))
    BY DEF GraphInv
  <2>2. M!draw_graph(cpu_hist)[HIST_SIZE + 1 - j] = samples[Len(samples) + 1 - j]["cpu"]
    BY <1>3, <1>4, <2>1
  <2>3. M!draw_graph(mem_hist)[HIST_SIZE + 1 - j] = samples[Len(samples) + 1 - j]["mem"]
    BY <1>3, <1>4, <2>1
  <2> QED BY <1>2, <1>4, <2>2, <2>3
<1>5. \A i \in M!Cells : cpu_hist[i] <= PERCENT /\ mem_hist[i] <= PERCENT
  <2>1. \A i \in M!Cells : cpu_hist[i] \in 0 .. PERCENT /\ mem_hist[i] \in 0 .. PERCENT
    BY DEF GraphInv
  <2> QED BY <2>1, MonitorAssumed
<1> QED BY <1>4, <1>5 DEF M!GraphIsRecent

(* From the right, both graphs show as many of the last samples as the     *)
(* index has counted since it last was zero, whatever the sizes, and       *)
(* nothing is said of the columns left of them; and no sample is beyond    *)
(* the frame, although the amounts overflow.                               *)
THEOREM GraphsAreRecent ==
  M!Spec => []M!GraphIsRecent
<1>1. M!Init => GraphInv
  BY GraphStart
<1>2. GraphInv /\ [M!Next]_(M!vars) => GraphInv'
  <2> SUFFICES ASSUME GraphInv, [M!Next]_(M!vars) PROVE GraphInv'
    OBVIOUS
  <2>1. ASSUME NEW r \in Readings, M!sysmon_update(r) PROVE GraphInv'
    BY <2>1, UpdateKeeps
  <2>2. CASE UNCHANGED M!vars
    BY <2>2 DEF M!vars, GraphInv, GraphHolds, LengthHolds, Column
  <2> QED BY <2>1, <2>2 DEF M!Next
<1>3. GraphInv => M!GraphIsRecent
  BY GraphDrawn
<1> QED BY <1>1, <1>2, <1>3, PTL DEF M!Spec

-----------------------------------------------------------------------------
(* The virtual file system.                                                *)

Chars == UNION {ToSet(path) : path \in Paths}
Slots == [path : Seq(Chars), fs : Fs \cup {NULL}, active : BOOLEAN]

VfsInv == /\ mounts \in [V!Slot -> Slots]
          /\ fds \in [V!Fd -> [active : BOOLEAN, position : Nat]]

(* The paths are sequences, the offsets naturals.                          *)
LEMMA VfsAssumed ==
  /\ VFS_MAX_MOUNTS \in Nat /\ VFS_MAX_FDS \in Nat /\ Offsets \subseteq Nat
  /\ \A path \in Paths : path \in Seq(Chars)
<1>1. VFS_MAX_MOUNTS \in Nat /\ VFS_MAX_FDS \in Nat /\ Offsets \subseteq Nat
  BY ServicesAssumption DEF V!VfsAssumption
<1>2. ASSUME NEW path \in Paths PROVE path \in Seq(Chars)
  <2>1. path \in Seq({path[i] : i \in DOMAIN path})
    BY ServicesAssumption DEF V!VfsAssumption, V!ToSet
  <2>2. /\ Len(path) \in Nat /\ DOMAIN path = 1 .. Len(path)
        /\ path \in [1 .. Len(path) -> {path[i] : i \in DOMAIN path}]
    BY <2>1, LenProperties
  <2>3. \A i \in 1 .. Len(path) : path[i] \in Chars
    BY <2>2 DEF Chars, ToSet
  <2>4. path \in [1 .. Len(path) -> Chars]
    BY <2>2, <2>3
  <2> QED BY <2>2, <2>4
<1> QED BY <1>1, <1>2

(* The table of mounts starts in the invariant.                            *)
LEMMA VfsInit ==
  ASSUME V!Init
  PROVE  VfsInv
<1>1. /\ mounts = [i \in V!Slot |-> [path |-> << >>, fs |-> NULL, active |-> FALSE]]
      /\ fds = [fd \in V!Fd |-> [active |-> FALSE, position |-> 0]]
  BY DEF V!Init
<1>2. [path |-> << >>, fs |-> NULL, active |-> FALSE] \in Slots
  BY EmptySeq DEF Slots
<1>3. [active |-> FALSE, position |-> 0] \in [active : BOOLEAN, position : Nat]
  OBVIOUS
<1> QED BY <1>1, <1>2, <1>3 DEF VfsInv

(* Every call keeps the invariant.                                         *)
LEMMA VfsNext ==
  ASSUME VfsInv, [V!Next]_(V!vars)
  PROVE  VfsInv'
<1> DEFINE Open == [active : BOOLEAN, position : Nat]
<1>1. ASSUME NEW path \in Paths, NEW fs \in Fs, V!vfs_mount(path, fs)
      PROVE  VfsInv'
  <2> DEFINE new == [path |-> path, fs |-> fs, active |-> TRUE]
  <2>1. new \in Slots
    BY VfsAssumed DEF Slots
  <2> HIDE DEF new
  <2>2. PICK i \in V!Slot : mounts' = [mounts EXCEPT ![i] = new] /\ fds' = fds
    BY <1>1 DEF V!vfs_mount, new
  <2> QED BY <2>1, <2>2 DEF VfsInv
<1>2. ASSUME NEW path \in Paths, V!vfs_umount(path)
      PROVE  VfsInv'
  <2>1. PICK i \in V!Slot : mounts' = [mounts EXCEPT ![i].active = FALSE] /\ fds' = fds
    BY <1>2 DEF V!vfs_umount, V!FirstOf, V!MountedAt
  <2>2. [mounts[i] EXCEPT !.active = FALSE] \in Slots
    BY DEF VfsInv, Slots
  <2> HIDE DEF Slots
  <2> QED BY <2>1, <2>2 DEF VfsInv
<1>3. ASSUME NEW path \in Paths, V!vfs_open(path)
      PROVE  VfsInv'
  <2>1. PICK fd \in V!Fd : /\ mounts' = mounts
                           /\ \/ fds' = V!Opened(fd)
                              \/ fds' = [V!Opened(fd) EXCEPT ![fd].active = FALSE]
    BY <1>3 DEF V!vfs_open
  <2>2. V!Opened(fd) \in [V!Fd -> Open]
    BY DEF V!Opened, VfsInv
  <2>3. [V!Opened(fd) EXCEPT ![fd].active = FALSE] \in [V!Fd -> Open]
    BY <2>2
  <2> QED BY <2>1, <2>2, <2>3 DEF VfsInv
<1>4. ASSUME NEW fd \in V!Fd, V!vfs_close(fd)
      PROVE  VfsInv'
  BY <1>4 DEF V!vfs_close, VfsInv
<1>5. ASSUME NEW fd \in V!Fd, NEW offset \in Offsets, V!vfs_seek(fd, offset)
      PROVE  VfsInv'
  BY <1>5, VfsAssumed DEF V!vfs_seek, VfsInv
<1>6. CASE UNCHANGED V!vars
  BY <1>6 DEF V!vars, VfsInv
<1> QED BY <1>1, <1>2, <1>3, <1>4, <1>5, <1>6 DEF V!Next, V!Lookup, V!vars

(* A descriptor that is handed out was not in use and starts at offset 0,  *)
(* and one in use is left alone by the calls that do not name it, for any  *)
(* number of descriptors.                                                  *)
THEOREM DescriptorsStayApart ==
  V!Spec => DescriptorsApart
<1> DEFINE Apart ==
      \A fd \in V!Fd :
        /\ ~fds[fd].active /\ fds'[fd].active => fds'[fd].position = 0
        /\ fds[fd].active /\ fds'[fd] # fds[fd] =>
             /\ \A e \in V!Fd \ {fd} : fds'[e] = fds[e]
             /\ \/ V!vfs_close(fd)
                \/ \E offset \in Offsets : V!vfs_seek(fd, offset)
<1>1. VfsInv /\ [V!Next]_(V!vars) => [Apart]_(V!vars)
  <2> SUFFICES ASSUME VfsInv, [V!Next]_(V!vars) PROVE [Apart]_(V!vars)
    OBVIOUS
  <2>1. CASE fds' = fds
    BY <2>1
  <2>2. ASSUME NEW path \in Paths, V!vfs_open(path)
        PROVE  Apart
    <3>1. PICK d \in V!Fd : /\ ~fds[d].active
                            /\ \/ fds' = V!Opened(d)
                               \/ fds' = [V!Opened(d) EXCEPT ![d].active = FALSE]
      BY <2>2 DEF V!vfs_open, V!vfs_alloc_fd
    <3>2. /\ \A e \in V!Fd \ {d} : fds'[e] = fds[e]
          /\ fds'[d].position = 0
      BY <3>1 DEF VfsInv, V!Opened
    <3> QED BY <3>1, <3>2
  <2>3. ASSUME NEW d \in V!Fd, V!vfs_close(d)
        PROVE  Apart
    <3>1. /\ \A e \in V!Fd \ {d} : fds'[e] = fds[e]
          /\ ~fds'[d].active
      BY <2>3 DEF VfsInv, V!vfs_close
    <3> QED BY <2>3, <3>1
  <2>4. ASSUME NEW d \in V!Fd, NEW offset \in Offsets, V!vfs_seek(d, offset)
        PROVE  Apart
    <3>1. /\ \A e \in V!Fd \ {d} : fds'[e] = fds[e]
          /\ fds'[d].active = fds[d].active
      BY <2>4 DEF VfsInv, V!vfs_seek
    <3> QED BY <2>4, <3>1
  <2> QED BY <2>1, <2>2, <2>3, <2>4
          DEF V!Next, V!Lookup, V!vars, V!vfs_mount, V!vfs_umount
<1>2. DescriptorsApart <=> [][Apart]_(V!vars)
  BY DEF DescriptorsApart, V!DescriptorsApart
<1> HIDE DEF Apart
<1> QED BY <1>1, <1>2, VfsInit, VfsNext, PTL DEF V!Spec

(* The search of vfs_find_mount in a table m.                              *)
Cover(m, path) == {i \in V!Slot : m[i].active /\ V!IsPrefix(m[i].path, path)}
Precedes(m, i, j) == \/ Len(m[i].path) > Len(m[j].path)
                     \/ Len(m[i].path) = Len(m[j].path) /\ i <= j
Found(m, path) == {i \in Cover(m, path) : \A j \in Cover(m, path) : Precedes(m, i, j)}

Tables == [V!Slot -> Slots]

(* It is the one the code does.                                            *)
LEMMA FoundIsSearched ==
  ASSUME NEW path
  PROVE  /\ V!vfs_find_mount(path) = Found(mounts, path)
         /\ V!Answers(path) = {mounts[i] : i \in Found(mounts, path)}
         /\ V!Answers(path)' = {mounts'[i] : i \in Found(mounts', path)}
BY DEF V!vfs_find_mount, V!Answers, V!Covering, V!Covers, V!Before, Found, Cover, Precedes

(* What a table holds.                                                     *)
LEMMA TableValues ==
  ASSUME NEW m \in Tables, NEW i \in V!Slot
  PROVE  /\ i \in Nat /\ m[i] \in Slots /\ m[i].path \in Seq(Chars)
         /\ Len(m[i].path) \in Nat /\ m[i].active \in BOOLEAN
<1>1. m[i] \in Slots /\ i \in Nat
  BY VfsAssumed DEF Tables, V!Slot
<1>2. m[i].path \in Seq(Chars) /\ m[i].active \in BOOLEAN
  BY <1>1 DEF Slots
<1> QED BY <1>1, <1>2, LenProperties

(* It finds one slot at most.                                              *)
LEMMA FoundUnique ==
  ASSUME NEW m \in Tables, NEW path, NEW i \in Found(m, path), NEW j \in Found(m, path)
  PROVE  i = j
<1>1. Precedes(m, i, j) /\ Precedes(m, j, i) /\ i \in V!Slot /\ j \in V!Slot
  BY DEF Found, Cover
<1>2. Len(m[i].path) \in Nat /\ Len(m[j].path) \in Nat /\ i \in Nat /\ j \in Nat
  BY <1>1, TableValues
<1> QED BY <1>1, <1>2 DEF Precedes

(* It finds one when there is a mount that covers the path.                *)
LEMMA FoundExists ==
  ASSUME NEW m \in Tables, NEW path, Len(path) \in Nat, Cover(m, path) # {}
  PROVE  \E i \in Cover(m, path) : i \in Found(m, path)
<1> DEFINE C == Cover(m, path)
           L == {Len(m[i].path) : i \in C}
<1>1. ASSUME NEW i \in C
      PROVE  i \in V!Slot /\ i \in Nat /\ Len(m[i].path) \in Nat /\ Len(m[i].path) <= Len(path)
  <2>1. i \in V!Slot /\ V!IsPrefix(m[i].path, path)
    BY DEF Cover
  <2> QED BY <2>1, TableValues DEF V!IsPrefix
<1> HIDE DEF C
<1>2. L \in SUBSET Nat /\ L # {} /\ \A l \in L : l <= Len(path)
  BY <1>1 DEF C
<1> HIDE DEF L
<1>3. PICK l \in L : \A k \in L : l >= k
  BY <1>2, GreatestExists
<1> DEFINE B == {i \in C : Len(m[i].path) = l}
<1>4. B \in SUBSET Nat /\ B # {}
  BY <1>1, <1>3 DEF L
<1>5. PICK b \in B : \A k \in B : b <= k
  BY <1>4, LeastExists
<1>6. b \in C /\ Len(m[b].path) = l
  BY <1>5
<1>7. ASSUME NEW j \in C PROVE Precedes(m, b, j)
  <2>1. Len(m[j].path) \in L
    BY DEF L
  <2>2. l >= Len(m[j].path)
    BY <1>3, <2>1
  <2>3. Len(m[j].path) = l => b <= j
    BY <1>5
  <2>4. Len(m[j].path) \in Nat /\ l \in Nat
    BY <1>1, <1>6
  <2> QED BY <1>6, <2>2, <2>3, <2>4 DEF Precedes
<1> QED BY <1>6, <1>7 DEF C, Found

(* A mount in a free slot changes the answer only if it is below the one   *)
(* that answered so far, or at the same path.                              *)
LEMMA MountResolves ==
  ASSUME NEW m \in Tables, NEW m2 \in Tables, NEW path, NEW i \in V!Slot,
         ~m[i].active, m2[i].active, \A x \in V!Slot \ {i} : m2[x] = m[x],
         {m2[x] : x \in Found(m2, path)} # {m[x] : x \in Found(m, path)}
  PROVE  /\ m2[i] # m[i]
         /\ V!IsPrefix(m2[i].path, path)
         /\ \A x \in Found(m, path) : Len(m2[i].path) >= Len(m[x].path)
<1>1. i \notin Cover(m, path) /\ Cover(m, path) \subseteq V!Slot
  BY DEF Cover
<1>2. \A x \in Cover(m, path) : m2[x] = m[x] /\ x \in Cover(m2, path)
  BY <1>1 DEF Cover
<1>3. \A x \in Cover(m2, path) : x # i => x \in Cover(m, path)
  BY DEF Cover
<1>4. \A x, y \in Cover(m, path) : Precedes(m2, x, y) <=> Precedes(m, x, y)
  BY <1>2 DEF Precedes
<1>5. ASSUME Found(m2, path) = Found(m, path) PROVE FALSE
  <2>1. \A x \in Found(m, path) : m2[x] = m[x]
    BY <1>2 DEF Found
  <2> QED BY <1>5, <2>1
<1>6. V!IsPrefix(m2[i].path, path)
  <2> SUFFICES ASSUME ~V!IsPrefix(m2[i].path, path) PROVE FALSE
    OBVIOUS
  <2>1. Cover(m2, path) = Cover(m, path)
    <3>1. i \notin Cover(m2, path)
      BY DEF Cover
    <3> QED BY <1>2, <1>3, <3>1
  <2>2. Found(m2, path) = Found(m, path)
    BY <1>4, <2>1 DEF Found
  <2> QED BY <1>5, <2>2
<1>7. ASSUME NEW f \in Found(m, path), ~(Len(m2[i].path) >= Len(m[f].path))
      PROVE  FALSE
  <2>1. f \in Cover(m, path) /\ f \in V!Slot /\ f # i /\ m2[f] = m[f]
    BY <1>1, <1>2 DEF Found
  <2>2. Len(m2[i].path) \in Nat /\ Len(m[f].path) \in Nat
    BY <2>1, TableValues
  <2>3. i \notin Found(m2, path)
    <3>1. ~Precedes(m2, i, f)
      BY <1>7, <2>1, <2>2 DEF Precedes
    <3> QED BY <1>2, <2>1, <3>1 DEF Found
  <2>4. ASSUME NEW x \in Found(m2, path) PROVE x \in Found(m, path)
    <3>1. x \in Cover(m, path) /\ \A y \in Cover(m, path) : Precedes(m2, x, y)
      BY <1>2, <1>3, <2>3 DEF Found
    <3> QED BY <1>4, <3>1 DEF Found
  <2>5. ASSUME NEW x \in Found(m, path) PROVE x \in Found(m2, path)
    <3>1. x \in Cover(m, path) /\ x \in Cover(m2, path) /\ Precedes(m, x, f) /\ x \in V!Slot
      BY <1>1, <1>2, <2>1 DEF Found
    <3>2. Precedes(m2, x, i)
      <4>1. Len(m[x].path) \in Nat /\ m2[x] = m[x]
        BY <1>2, <3>1, TableValues
      <4>2. Len(m[x].path) >= Len(m[f].path)
        BY <2>2, <3>1, <4>1 DEF Precedes
      <4> QED BY <1>7, <2>2, <4>1, <4>2 DEF Precedes
    <3>3. \A y \in Cover(m2, path) : Precedes(m2, x, y)
      <4>1. \A y \in Cover(m, path) : Precedes(m, x, y)
        BY DEF Found
      <4> QED BY <1>3, <1>4, <3>1, <3>2, <4>1
    <3> QED BY <3>1, <3>3 DEF Found
  <2>6. Found(m2, path) = Found(m, path)
    BY <2>4, <2>5
  <2> QED BY <1>5, <2>6
<1>8. m2[i] # m[i]
  OBVIOUS
<1> QED BY <1>6, <1>7, <1>8

(* The end of a mount that did not answer changes nothing.                 *)
LEMMA UmountResolves ==
  ASSUME NEW m \in Tables, NEW m2 \in Tables, NEW path, Len(path) \in Nat, NEW i \in V!Slot,
         ~m2[i].active, m2[i].path = m[i].path, \A x \in V!Slot \ {i} : m2[x] = m[x],
         i \notin Found(m, path)
  PROVE  {m2[x] : x \in Found(m2, path)} = {m[x] : x \in Found(m, path)}
<1>1. i \notin Cover(m2, path) /\ Cover(m, path) \subseteq V!Slot
  BY DEF Cover
<1>2. \A x \in Cover(m, path) : x # i => m2[x] = m[x] /\ x \in Cover(m2, path)
  BY <1>1 DEF Cover
<1>3. \A x \in Cover(m2, path) : x \in Cover(m, path) /\ x # i
  BY <1>1 DEF Cover
<1>4. \A x, y \in V!Slot : Precedes(m2, x, y) <=> Precedes(m, x, y)
  BY DEF Precedes
<1>5. Found(m, path) \subseteq Found(m2, path)
  BY <1>1, <1>2, <1>3, <1>4 DEF Found
<1>6. Found(m2, path) \subseteq Found(m, path)
  <2> SUFFICES ASSUME NEW x \in Found(m2, path) PROVE x \in Found(m, path)
    OBVIOUS
  <2>1. x \in Cover(m, path)
    BY <1>3 DEF Found
  <2>2. PICK f \in Found(m, path) : TRUE
    BY <2>1, FoundExists
  <2>3. f \in Found(m2, path)
    BY <1>5
  <2>4. x = f
    BY <2>3, FoundUnique
  <2> QED BY <2>4
<1>7. \A x \in Found(m, path) : m2[x] = m[x]
  BY <1>2 DEF Found
<1> QED BY <1>5, <1>6, <1>7

(* A prefix of the same length is the whole.                               *)
LEMMA PrefixWhole ==
  ASSUME NEW s \in Seq(Chars), NEW t \in Seq(Chars), Len(s) = Len(t)
  PROVE  V!IsPrefix(s, t) <=> s = t
<1>1. ASSUME NEW u \in Seq(Chars) PROVE SubSeq(u, 1, Len(u)) = u
  <2> DEFINE n == Len(u)
             w == SubSeq(u, 1, n)
  <2>1. n \in Nat /\ DOMAIN u = 1 .. n /\ \A i \in 1 .. n : u[i] \in Chars
    BY LenProperties, ElementOfSeq
  <2>2. 1 \in Int /\ n \in Int /\ n - 1 + 1 = n
    BY <2>1
  <2> HIDE DEF n
  <2>3. /\ w \in Seq(Chars) /\ Len(w) = IF 1 <= n THEN n - 1 + 1 ELSE 0
        /\ \A i \in 1 .. n - 1 + 1 : w[i] = u[1 + i - 1]
    BY <2>1, <2>2, SubSeqProperties
  <2> HIDE DEF w
  <2>4. Len(w) = n /\ \A i \in 1 .. n : w[i] = u[i]
    BY <2>1, <2>3
  <2>5. Len(u) = n
    BY DEF n
  <2>6. w = u
    BY <2>3, <2>4, <2>5, SeqEqual
  <2> QED BY <2>6 DEF w, n
<1>2. Len(s) \in Nat /\ Len(t) \in Nat
  BY LenProperties
<1>3. SubSeq(s, 1, Len(s)) = s /\ SubSeq(t, 1, Len(t)) = t
  BY <1>1
<1> QED BY <1>2, <1>3 DEF V!IsPrefix

(* vfs_umount ends the mount that answers for the path.                    *)
LEMMA UmountEndsFound ==
  ASSUME VfsInv, NEW path \in Paths, NEW i \in V!FirstOf(V!MountedAt(path))
  PROVE  Found(mounts, path) = {i}
<1>1. mounts \in Tables /\ path \in Seq(Chars) /\ Len(path) \in Nat
  BY VfsAssumed, LenProperties DEF VfsInv, Tables
<1>2. i \in V!Slot /\ mounts[i].active /\ mounts[i].path = path
  BY DEF V!FirstOf, V!MountedAt
<1>3. \A j \in V!Slot : mounts[j].active /\ mounts[j].path = path => i <= j
  BY DEF V!FirstOf, V!MountedAt
<1>4. i \in Cover(mounts, path)
  BY <1>1, <1>2, PrefixWhole DEF Cover
<1>5. ASSUME NEW j \in Cover(mounts, path) PROVE Precedes(mounts, i, j)
  <2>1. j \in V!Slot /\ mounts[j].active /\ V!IsPrefix(mounts[j].path, path)
    BY DEF Cover
  <2>2. mounts[j].path \in Seq(Chars) /\ Len(mounts[j].path) \in Nat /\ Len(mounts[j].path) <= Len(path)
    BY <1>1, <2>1, TableValues DEF V!IsPrefix
  <2>3. CASE Len(mounts[j].path) = Len(path)
    <3>1. mounts[j].path = path
      BY <1>1, <2>1, <2>2, <2>3, PrefixWhole
    <3>2. i <= j
      BY <1>3, <2>1, <3>1
    <3> QED BY <1>2, <3>1, <3>2 DEF Precedes
  <2>4. CASE Len(mounts[j].path) # Len(path)
    BY <1>1, <1>2, <2>2, <2>4 DEF Precedes
  <2> QED BY <2>3, <2>4
<1>6. i \in Found(mounts, path)
  BY <1>4, <1>5 DEF Found
<1> QED BY <1>1, <1>6, FoundUnique

(* What a call may do to the answer for a path.                            *)
ResolutionFollows(path) ==
  V!Answers(path)' # V!Answers(path) =>
    \/ \E i \in V!Slot : /\ mounts'[i] # mounts[i] /\ mounts'[i].active
                         /\ V!IsPrefix(mounts'[i].path, path)
                         /\ \A m \in V!Answers(path) : Len(mounts'[i].path) >= Len(m.path)
    \/ \E i \in V!vfs_find_mount(path) : ~mounts'[i].active

(* A mount changes an answer only from below the one that answered.        *)
LEMMA MountFollows ==
  ASSUME VfsInv, VfsInv', NEW path \in Paths, NEW p, NEW fs, V!vfs_mount(p, fs)
  PROVE  ResolutionFollows(path)
<1>1. PICK i \in V!Slot : /\ ~mounts[i].active
                          /\ mounts' = [mounts EXCEPT ![i] = [path |-> p, fs |-> fs, active |-> TRUE]]
  BY DEF V!vfs_mount, V!FirstFree
<1>2. PICK m : m = mounts
  OBVIOUS
<1>3. PICK m2 : m2 = mounts'
  OBVIOUS
<1>4. m \in Tables /\ m2 \in Tables
  BY <1>2, <1>3 DEF VfsInv, Tables
<1>5. ~m[i].active /\ m2[i].active /\ \A x \in V!Slot \ {i} : m2[x] = m[x]
  BY <1>1, <1>2, <1>3, <1>4 DEF Tables
<1>6. V!Answers(path) = {m[x] : x \in Found(m, path)} /\ V!Answers(path)' = {m2[x] : x \in Found(m2, path)}
  BY <1>2, <1>3, FoundIsSearched
<1>7. ASSUME V!Answers(path)' # V!Answers(path)
      PROVE  /\ m2[i] # m[i]
             /\ V!IsPrefix(m2[i].path, path)
             /\ \A x \in Found(m, path) : Len(m2[i].path) >= Len(m[x].path)
  <2>1. {m2[x] : x \in Found(m2, path)} # {m[x] : x \in Found(m, path)}
    BY <1>6, <1>7
  <2> QED BY <1>4, <1>5, <2>1, MountResolves
<1>8. ASSUME V!Answers(path)' # V!Answers(path)
      PROVE  \A v \in V!Answers(path) : Len(m2[i].path) >= Len(v.path)
  BY <1>6, <1>7, <1>8
<1> QED BY <1>2, <1>3, <1>5, <1>7, <1>8 DEF ResolutionFollows

(* The end of a mount changes an answer only if it was the one.            *)
LEMMA UmountFollows ==
  ASSUME VfsInv, VfsInv', NEW path \in Paths, NEW p \in Paths, V!vfs_umount(p)
  PROVE  /\ ResolutionFollows(path)
         /\ \A i \in V!Slot : mounts[i].active /\ ~mounts'[i].active <=> i \in V!vfs_find_mount(p)
<1>1. PICK i \in V!FirstOf(V!MountedAt(p)) : mounts' = [mounts EXCEPT ![i].active = FALSE]
  BY DEF V!vfs_umount
<1>2. i \in V!Slot /\ mounts[i].active
  BY DEF V!FirstOf, V!MountedAt
<1>3. PICK m : m = mounts
  OBVIOUS
<1>4. PICK m2 : m2 = mounts'
  OBVIOUS
<1>5. m \in Tables /\ m2 \in Tables
  BY <1>3, <1>4 DEF VfsInv, Tables
<1>6. ~m2[i].active /\ m2[i].path = m[i].path /\ \A x \in V!Slot \ {i} : m2[x] = m[x]
  <2>1. m[i] \in Slots
    BY <1>2, <1>5 DEF Tables
  <2> QED BY <1>1, <1>2, <1>3, <1>4, <1>5, <2>1 DEF Tables, Slots
<1>7. V!Answers(path) = {m[x] : x \in Found(m, path)} /\ V!Answers(path)' = {m2[x] : x \in Found(m2, path)}
      /\ V!vfs_find_mount(path) = Found(m, path) /\ V!vfs_find_mount(p) = Found(m, p)
  BY <1>3, <1>4, FoundIsSearched
<1>8. ResolutionFollows(path)
  <2>1. CASE i \in Found(m, path)
    BY <1>4, <1>6, <1>7, <2>1 DEF ResolutionFollows
  <2>2. CASE i \notin Found(m, path)
    <3>1. Len(path) \in Nat
      BY VfsAssumed, LenProperties
    <3>2. {m2[x] : x \in Found(m2, path)} = {m[x] : x \in Found(m, path)}
      BY <1>2, <1>5, <1>6, <2>2, <3>1, UmountResolves
    <3> QED BY <1>7, <3>2 DEF ResolutionFollows
  <2> QED BY <2>1, <2>2
<1>9. Found(m, p) = {i}
  BY <1>3, UmountEndsFound
<1>10. \A x \in V!Slot : m[x].active /\ ~m2[x].active <=> x = i
  BY <1>2, <1>3, <1>6
<1> QED BY <1>3, <1>4, <1>7, <1>8, <1>9, <1>10

(* What a path resolves to changes only with a mount below the one that    *)
(* answered, or with the end of that one, which is the one vfs_umount ends *)
(* at the path; for any mounts at any paths, the code's prefixes of        *)
(* characters included.                                                    *)
THEOREM ResolutionRight ==
  V!Spec => ResolutionFollowsMounts
<1> DEFINE Follows ==
      \A path \in Paths :
        /\ V!Answers(path)' # V!Answers(path) =>
             \/ \E i \in V!Slot : /\ mounts'[i] # mounts[i] /\ mounts'[i].active
                                  /\ V!IsPrefix(mounts'[i].path, path)
                                  /\ \A m \in V!Answers(path) : Len(mounts'[i].path) >= Len(m.path)
             \/ \E i \in V!vfs_find_mount(path) : ~mounts'[i].active
        /\ V!vfs_umount(path) =>
             \A i \in V!Slot : mounts[i].active /\ ~mounts'[i].active <=> i \in V!vfs_find_mount(path)
<1>1. VfsInv /\ VfsInv' /\ [V!Next]_(V!vars) => [Follows]_(V!vars)
  <2> SUFFICES ASSUME VfsInv, VfsInv', V!Next, NEW path \in Paths
               PROVE  /\ ResolutionFollows(path)
                      /\ V!vfs_umount(path) =>
                           \A i \in V!Slot :
                             mounts[i].active /\ ~mounts'[i].active <=> i \in V!vfs_find_mount(path)
    BY DEF ResolutionFollows
  <2>1. V!vfs_umount(path) =>
          \A i \in V!Slot :
            mounts[i].active /\ ~mounts'[i].active <=> i \in V!vfs_find_mount(path)
    BY UmountFollows
  <2>2. CASE mounts' = mounts
    <3>1. V!Answers(path)' = V!Answers(path)
      BY <2>2, FoundIsSearched
    <3> QED BY <2>1, <3>1 DEF ResolutionFollows
  <2>3. ASSUME NEW p \in Paths, NEW fs \in Fs, V!vfs_mount(p, fs)
        PROVE  ResolutionFollows(path)
    BY <2>3, MountFollows
  <2>4. ASSUME NEW p \in Paths, V!vfs_umount(p)
        PROVE  ResolutionFollows(path)
    BY <2>4, UmountFollows
  <2> QED BY <2>1, <2>2, <2>3, <2>4
          DEF V!Next, V!Lookup, V!vfs_open, V!vfs_close, V!vfs_seek
<1>2. ResolutionFollowsMounts <=> [][Follows]_(V!vars)
  BY DEF ResolutionFollowsMounts, V!ResolutionFollowsMounts
<1> HIDE DEF Follows
<1> QED BY <1>1, <1>2, VfsInit, VfsNext, PTL DEF V!Spec

-----------------------------------------------------------------------------
(* The sockets.                                                            *)

SocketInv ==
  /\ sActive \in [N!Sock -> BOOLEAN]
  /\ bound \in [N!Sock -> BOOLEAN]
  /\ connected \in [N!Sock -> BOOLEAN]
  /\ \A s \in N!Sock : ~sActive[s] => /\ bound[s] <=> <<s, "bound">> \in stale
                                      /\ connected[s] <=> <<s, "connected">> \in stale

(* A call that sets or clears a field of one slot keeps the invariant.     *)
LEMMA SocketStep ==
  ASSUME SocketInv, NEW s \in N!Sock,
         N!socket_bind(s) \/ N!socket_connect(s) \/ N!socket_close(s)
  PROVE  SocketInv' /\ \A r \in N!Sock : ~(~sActive[r] /\ sActive'[r])
<1>1. CASE N!socket_bind(s)
  <2>1. /\ sActive' = sActive /\ connected' = connected
        /\ bound' = [bound EXCEPT ![s] = TRUE]
        /\ stale' = IF sActive[s] THEN stale ELSE stale \cup {<<s, "bound">>}
    BY <1>1 DEF N!socket_bind, N!Set, N!Touched
  <2>2. \A r \in N!Sock : /\ <<r, "connected">> \in stale' <=> <<r, "connected">> \in stale
                          /\ r # s => (<<r, "bound">> \in stale' <=> <<r, "bound">> \in stale)
    BY <2>1
  <2>3. ~sActive[s] => <<s, "bound">> \in stale'
    BY <2>1
  <2> QED BY <2>1, <2>2, <2>3 DEF SocketInv
<1>2. CASE N!socket_connect(s)
  <2>1. /\ sActive' = sActive /\ bound' = bound
        /\ connected' = [connected EXCEPT ![s] = TRUE]
        /\ stale' = IF sActive[s] THEN stale ELSE stale \cup {<<s, "connected">>}
    BY <1>2 DEF N!socket_connect, N!Set, N!Touched
  <2>2. \A r \in N!Sock : /\ <<r, "bound">> \in stale' <=> <<r, "bound">> \in stale
                          /\ r # s => (<<r, "connected">> \in stale' <=> <<r, "connected">> \in stale)
    BY <2>1
  <2>3. ~sActive[s] => <<s, "connected">> \in stale'
    BY <2>1
  <2> QED BY <2>1, <2>2, <2>3 DEF SocketInv
<1>3. CASE N!socket_close(s)
  <2>1. /\ sActive' = [sActive EXCEPT ![s] = FALSE]
        /\ bound' = [bound EXCEPT ![s] = FALSE]
        /\ connected' = [connected EXCEPT ![s] = FALSE]
        /\ stale' = stale \ ({s} \X {"bound", "connected"})
    BY <1>3 DEF N!socket_close, N!Zeroed, N!Field
  <2>2. ASSUME NEW r \in N!Sock, NEW field \in {"bound", "connected"}
        PROVE  <<r, field>> \in stale' <=> (r # s /\ <<r, field>> \in stale)
    BY <2>1
  <2>3. \A r \in N!Sock :
          /\ <<r, "bound">> \in stale' <=> (r # s /\ <<r, "bound">> \in stale)
          /\ <<r, "connected">> \in stale' <=> (r # s /\ <<r, "connected">> \in stale)
    BY <2>2
  <2> QED BY <2>1, <2>3 DEF SocketInv
<1> QED BY <1>1, <1>2, <1>3

(* A new socket is bound or connected exactly if a call set that of its    *)
(* slot since the slot was last closed, while no socket was in it; for any *)
(* number of sockets.                                                      *)
THEOREM SocketsInheritNothing ==
  N!Spec => NothingInherited
<1> DEFINE Fresh == \A s \in N!Sock : ~sActive[s] /\ sActive'[s] =>
                      /\ bound'[s] <=> <<s, "bound">> \in stale
                      /\ connected'[s] <=> <<s, "connected">> \in stale
<1>1. N!Init => SocketInv
  BY DEF N!Init, SocketInv
<1>2. SocketInv /\ [N!Next]_(N!vars) => SocketInv' /\ [Fresh]_(N!vars)
  <2> SUFFICES ASSUME SocketInv, [N!Next]_(N!vars) PROVE SocketInv' /\ [Fresh]_(N!vars)
    OBVIOUS
  <2>1. CASE N!socket_create
    BY <2>1 DEF N!socket_create, SocketInv
  <2>2. ASSUME NEW s \in N!Sock, N!socket_bind(s) \/ N!socket_connect(s) \/ N!socket_close(s)
        PROVE  SocketInv' /\ Fresh
    BY <2>2, SocketStep
  <2>3. CASE UNCHANGED N!vars
    BY <2>3 DEF N!vars, SocketInv
  <2> QED BY <2>1, <2>2, <2>3 DEF N!Next, N!Lookup
<1>3. NothingInherited <=> [][Fresh]_(N!vars)
  BY DEF NothingInherited, N!NothingInherited
<1> HIDE DEF Fresh
<1> QED BY <1>1, <1>2, <1>3, PTL DEF N!Spec

-----------------------------------------------------------------------------
(* The files of ext4.                                                      *)

Extent == [block : Nat, len : Nat, start : Nat]

(* The distance from a byte's place in the file to its place on the disk   *)
(* is the same for every extent of a file in one run.                      *)
Shift(e) == e.start - e.block

FollowsOn(s, i, j) == /\ Shift(s[j]) = Shift(s[i])
                      /\ s[i].block + s[i].len <= s[j].block

(* In a file in one run every extent lies behind those before it, and as   *)
(* far on the disk as in the file.                                         *)
LEMMA InOneRun ==
  ASSUME file.extents \in Seq(Extent), X!Contiguous
  PROVE  \A i, j \in 1 .. Len(file.extents) : i < j => FollowsOn(file.extents, i, j)
<1> DEFINE s == file.extents
           n == Len(s)
<1>1. n \in Nat /\ \A k \in 1 .. n : s[k] \in Extent
  BY ElementOfSeq, LenProperties
<1>2. \A k \in 1 .. n - 1 : /\ s[k + 1].block = s[k].block + s[k].len
                            /\ s[k + 1].start = s[k].start + s[k].len
  BY DEF X!Contiguous
<1> HIDE DEF s, n
<1>3. ASSUME NEW k \in 1 .. n
      PROVE  s[k].block \in Nat /\ s[k].len \in Nat /\ s[k].start \in Nat
  BY <1>1 DEF Extent
<1>4. SUFFICES ASSUME NEW i \in 1 .. n
               PROVE  \A j \in 1 .. n : i < j => FollowsOn(s, i, j)
  BY DEF s, n
<1> DEFINE Bad == {j \in 1 .. n : i < j /\ ~FollowsOn(s, i, j)}
<1>5. SUFFICES ASSUME Bad # {} PROVE FALSE
  OBVIOUS
<1>6. Bad \in SUBSET Nat
  OBVIOUS
<1>7. PICK j \in Bad : \A k \in Bad : j <= k
  BY <1>5, <1>6, LeastExists
<1>8. j \in 1 .. n /\ i < j /\ ~FollowsOn(s, i, j)
  BY <1>7
<1> DEFINE k == j - 1
<1>9. k \in 1 .. n - 1 /\ k \in 1 .. n /\ k + 1 = j /\ (i = k \/ i < k)
  BY <1>1, <1>8
<1> HIDE DEF k
<1>10. s[j].block = s[k].block + s[k].len /\ s[j].start = s[k].start + s[k].len
  BY <1>2, <1>9
<1>11. CASE i = k
  BY <1>3, <1>8, <1>9, <1>10, <1>11 DEF FollowsOn, Shift
<1>12. CASE i < k
  <2>1. FollowsOn(s, i, k)
    <3>1. k \notin Bad
      BY <1>1, <1>7, <1>8, <1>9
    <3> QED BY <1>9, <1>12, <3>1
  <2>2. /\ s[i].block \in Nat /\ s[i].len \in Nat /\ s[i].start \in Nat
        /\ s[k].block \in Nat /\ s[k].len \in Nat /\ s[k].start \in Nat
        /\ s[j].block \in Nat /\ s[j].start \in Nat
    BY <1>3, <1>8, <1>9
  <2>3. Shift(s[k]) = Shift(s[i]) /\ s[i].block + s[i].len <= s[k].block
    BY <2>1 DEF FollowsOn
  <2>4. Shift(s[j]) = Shift(s[i]) /\ s[i].block + s[i].len <= s[j].block
    <3>1. Shift(s[j]) = (s[k].start + s[k].len) - (s[k].block + s[k].len)
      BY <1>10 DEF Shift
    <3>2. Shift(s[k]) = s[k].start - s[k].block
      BY DEF Shift
    <3>3. Shift(s[j]) = Shift(s[k])
      BY <2>2, <3>1, <3>2
    <3>4. s[i].block + s[i].len <= s[j].block
      <4>1. PICK a \in Nat, b \in Nat, d \in Nat, l \in Nat :
              a = s[i].block /\ b = s[i].len /\ d = s[k].block /\ l = s[k].len
        BY <2>2, Zenon
      <4>2. a + b <= d /\ s[j].block = d + l
        BY <1>10, <2>3, <4>1
      <4>3. a + b <= d + l
        BY <4>2
      <4> QED BY <4>1, <4>2, <4>3
    <3> QED BY <2>3, <3>3, <3>4
  <2> QED BY <1>8, <2>4 DEF FollowsOn
<1> QED BY <1>9, <1>11, <1>12

(* The byte of the disk for a byte of the file, counted from a block.      *)
LEMMA DiskByteShifts ==
  ASSUME BLOCK \in Nat \ {0}, NEW e \in Extent, NEW p \in Nat
  PROVE  X!DiskByte(e.start, p - e.block * BLOCK)
           = <<Shift(e) + p \div BLOCK, p % BLOCK>>
<1> DEFINE q == p - e.block * BLOCK
           b == e.block
           d == p \div BLOCK
           r == p % BLOCK
<1>1. b \in Nat /\ e.start \in Nat
  BY DEF Extent
<1>2. d \in Nat /\ r \in 0 .. BLOCK - 1 /\ p = BLOCK * d + r
  BY <1>1
<1> HIDE DEF d, r
<1>3. q = BLOCK * (d - b) + r
  BY <1>1, <1>2
<1> HIDE DEF q
<1>4. q \div BLOCK = d - b /\ q % BLOCK = r
  <2>1. d - b \in Int
    BY <1>1, <1>2
  <2> QED BY <1>2, <1>3, <2>1, DivUnique, ModUnique
<1>5. X!DiskByte(e.start, q) = <<e.start + (d - b), r>>
  BY <1>4 DEF X!DiskByte
<1>6. e.start + (d - b) = Shift(e) + d
  BY <1>1, <1>2 DEF Shift
<1> QED BY <1>5, <1>6 DEF q, d, r

(* What one extent of a file in one run says of a byte, all say.           *)
LEMMA FileByteIs ==
  ASSUME X!Ext4Assumption, file \in Layouts, X!Contiguous,
         NEW j \in DOMAIN file.extents, NEW p \in 0 .. file.size - 1
  PROVE  X!FileByte(p) = <<Shift(file.extents[j]) + p \div BLOCK, p % BLOCK>>
<1> DEFINE s == file.extents
           Has(e) == e.block * BLOCK <= p /\ p < X!Ends(e)
<1>1. /\ BLOCK \in Nat \ {0} /\ file.size \in Nat /\ s \in Seq(Extent)
      /\ \E i \in DOMAIN s : Has(s[i])
  BY DEF X!Ext4Assumption, Extent, X!Ends
<1>2. X!ToSet(s) = {s[i] : i \in DOMAIN s}
  BY DEF X!ToSet
<1>3. PICK e \in X!ToSet(s) : /\ Has(e)
                              /\ X!FileByte(p) = X!DiskByte(e.start, p - e.block * BLOCK)
  BY <1>1, <1>2 DEF X!FileByte
<1>4. PICK i \in DOMAIN s : e = s[i]
  BY <1>2, <1>3
<1>5. DOMAIN s = 1 .. Len(s) /\ \A k \in DOMAIN s : s[k] \in Extent
  BY <1>1, ElementOfSeq, LenProperties
<1>6. Shift(s[i]) = Shift(s[j])
  <2>1. \A k, l \in 1 .. Len(s) : k < l => FollowsOn(s, k, l)
    BY <1>1, InOneRun
  <2>2. i \in 1 .. Len(s) /\ j \in 1 .. Len(s) /\ (i = j \/ i < j \/ j < i)
    BY <1>4, <1>5
  <2> QED BY <2>1, <2>2 DEF FollowsOn
<1>7. p \in Nat
  BY <1>1
<1> HIDE DEF Has
<1>8. X!FileByte(p) = <<Shift(e) + p \div BLOCK, p % BLOCK>>
  BY <1>1, <1>3, <1>4, <1>5, <1>7, DiskByteShifts
<1> QED BY <1>4, <1>6, <1>8

(* The extent that is read from holds the position.                        *)
LEMMA ReadFromHolds ==
  ASSUME X!Ext4Assumption, file \in Layouts, X!Contiguous,
         position \in 0 .. file.size - 1, NEW e \in X!ReadFrom
  PROVE  \E i \in DOMAIN file.extents :
           e = file.extents[i] /\ e.block * BLOCK <= position
<1> DEFINE s == file.extents
           hits == {i \in DOMAIN s : X!NotPassed(s[i])}
<1>1. /\ BLOCK \in Nat \ {0} /\ file.size \in Nat /\ s \in Seq(Extent)
      /\ \E i \in DOMAIN s : s[i].block * BLOCK <= position /\ position < X!Ends(s[i])
  BY DEF X!Ext4Assumption, Extent, X!Ends
<1>2. PICK i \in hits : e = s[i] /\ \A k \in hits : i <= k
  BY DEF X!ReadFrom
<1>3. PICK j \in DOMAIN s : s[j].block * BLOCK <= position /\ position < X!Ends(s[j])
  BY <1>1
<1>4. j \in hits /\ i <= j
  BY <1>2, <1>3 DEF X!NotPassed
<1>5. /\ DOMAIN s = 1 .. Len(s) /\ Len(s) \in Nat
      /\ s[i].block \in Nat /\ s[i].len \in Nat /\ s[j].block \in Nat
  <2>1. DOMAIN s = 1 .. Len(s) /\ Len(s) \in Nat
    BY <1>1, LenProperties
  <2>2. i \in DOMAIN s /\ j \in DOMAIN s
    BY <1>2, <1>3
  <2>3. s[i] \in Extent /\ s[j] \in Extent
    BY <1>1, <2>1, <2>2, ElementOfSeq
  <2> QED BY <2>1, <2>3 DEF Extent
<1>6. i = j
  <2> SUFFICES ASSUME i < j PROVE FALSE
    BY <1>2, <1>3, <1>4, <1>5
  <2>1. FollowsOn(s, i, j)
    BY <1>1, <1>2, <1>3, <1>5, InOneRun
  <2>2. s[i].block + s[i].len <= s[j].block
    BY <2>1 DEF FollowsOn
  <2>3. (s[i].block + s[i].len) * BLOCK <= s[j].block * BLOCK
    <3>1. PICK a \in Nat, b \in Nat : a = s[i].block + s[i].len /\ b = s[j].block /\ a <= b
      BY <1>5, <2>2
    <3>2. PICK d \in Nat : b = a + d
      <4>1. b - a \in Nat /\ b = a + (b - a)
        BY <3>1
      <4> QED BY <4>1
    <3>3. b * BLOCK = a * BLOCK + d * BLOCK /\ d * BLOCK \in Nat /\ a * BLOCK \in Nat
      BY <1>1, <3>2
    <3> QED BY <3>1, <3>3
  <2>4. position < (s[i].block + s[i].len) * BLOCK
    BY <1>2 DEF X!NotPassed, X!Ends
  <2>5. (s[i].block + s[i].len) * BLOCK \in Nat /\ s[j].block * BLOCK \in Nat /\ position \in Nat
    <3>0. BLOCK \in Nat
      BY <1>1
    <3>1. s[i].block + s[i].len \in Nat /\ s[j].block \in Nat /\ BLOCK \in Nat
      BY <1>5, <3>0
    <3>2. position \in Nat
      BY <1>1
    <3> QED BY <3>1, <3>2
  <2> QED BY <1>3, <2>3, <2>4, <2>5
<1> QED BY <1>2, <1>3, <1>6

(* The larger of a number and zero, the smaller of two numbers.            *)
LEMMA MaxWithZero ==
  ASSUME NEW a \in Int
  PROVE  /\ X!Max({0, a}) \in Nat
         /\ a >= 0 => X!Max({0, a}) = a
<1>1. X!Max({0, a}) \in {0, a} /\ \A y \in {0, a} : X!Max({0, a}) >= y
  <2>1. \E x \in {0, a} : \A y \in {0, a} : x >= y
    OBVIOUS
  <2> QED BY <2>1 DEF X!Max
<1> QED BY <1>1

LEMMA MinOfTwo ==
  ASSUME NEW a \in Nat, NEW b \in Nat
  PROVE  X!Min({a, b}) \in Nat /\ X!Min({a, b}) <= b
<1>1. X!Min({a, b}) \in {a, b} /\ \A y \in {a, b} : X!Min({a, b}) <= y
  <2>1. \E x \in {a, b} : \A y \in {a, b} : x <= y
    OBVIOUS
  <2> QED BY <2>1 DEF X!Min
<1> QED BY <1>1

(* What has been read since the position was set ends at the position.     *)
Ext4Inv == /\ file \in Layouts
           /\ position \in Nat /\ from \in Nat
           /\ got \in Seq(Int \X Int)
           /\ position = from + Len(got)
           /\ X!OneRunIsReadRight

(* A read appends the bytes of the file behind those it has read.          *)
LEMMA ReadKeeps ==
  ASSUME X!Ext4Assumption, Ext4Inv, NEW size \in Sizes, X!ext4_read(size)
  PROVE  Ext4Inv'
<1>1. /\ BLOCK \in Nat \ {0} /\ size \in Nat /\ file.size \in Nat
      /\ SIZE_WIDTH \in Nat \ {0}
      /\ file.extents \in Seq(Extent)
  BY DEF X!Ext4Assumption, Ext4Inv, Extent
<1>2. /\ file \in Layouts /\ position \in Nat /\ from \in Nat /\ got \in Seq(Int \X Int)
      /\ position = from + Len(got) /\ X!OneRunIsReadRight
  BY DEF Ext4Inv
<1>3. position < file.size /\ file' = file /\ from' = from
  BY DEF X!ext4_read
<1>0. PICK e \in X!ReadFrom : \E n \in X!Stops(X!OffsetIn(e), X!Available(size)) :
        /\ got' = got \o [k \in 1 .. n |-> X!DiskByte(e.start, X!OffsetIn(e) + k - 1)]
        /\ position' = position + n
  BY DEF X!ext4_read
<1>4. PICK n \in X!Stops(X!OffsetIn(e), X!Available(size)) :
        /\ got' = got \o [k \in 1 .. n |-> X!DiskByte(e.start, X!OffsetIn(e) + k - 1)]
        /\ position' = position + n
  BY <1>0
<1>5. n \in Nat /\ position + n <= file.size
  <2>1. file.size - position \in Nat
    BY <1>1, <1>2, <1>3
  <2>2. X!Available(size) \in Nat /\ X!Available(size) <= file.size - position
    <3>1. PICK d \in Nat : d = file.size - position
      BY <2>1
    <3>2. d % SIZE_WIDTH \in Nat /\ d % SIZE_WIDTH <= d
      BY <1>1, <3>1, ModIsLess
    <3>3. PICK m \in Nat : m = d % SIZE_WIDTH
      BY <3>2
    <3>4. X!Min({size, m}) \in Nat /\ X!Min({size, m}) <= m
      BY <1>1, <3>3, MinOfTwo
    <3>5. X!Available(size) = X!Min({size, m})
      BY <3>1, <3>3 DEF X!Available
    <3> QED BY <3>1, <3>2, <3>3, <3>4, <3>5
  <2>3. n \in 0 .. X!Available(size)
    BY <1>4, <2>2 DEF X!Stops
  <2> QED BY <1>1, <1>2, <2>1, <2>2, <2>3
<1>6. e \in Extent
  <2>1. PICK i \in DOMAIN file.extents : e = file.extents[i]
    BY <1>4 DEF X!ReadFrom
  <2> QED BY <1>1, <2>1, ElementOfSeq, LenProperties
<1> DEFINE off == X!OffsetIn(e)
           new == [k \in 1 .. n |-> X!DiskByte(e.start, off + k - 1)]
           at0 == e.block * BLOCK
<1>7. e.block \in Nat /\ e.start \in Nat /\ at0 \in Nat
  BY <1>1, <1>6 DEF Extent
<1>8. off \in Nat /\ (position >= at0 => off = position - at0)
  <2>1. position - at0 \in Int
    BY <1>2, <1>7
  <2> QED BY <1>2, <1>7, <2>1, MaxWithZero DEF X!OffsetIn
<1> HIDE DEF off, at0
<1>9. new \in Seq(Int \X Int) /\ Len(new) = n
  <2>1. ASSUME NEW k \in 1 .. n
        PROVE  X!DiskByte(e.start, off + k - 1) \in Int \X Int
    <3>1. PICK o \in Nat : o = off + k - 1
      BY <1>5, <1>8
    <3>2. o \div BLOCK \in Int /\ o % BLOCK \in Int
      BY <1>1, <3>1
    <3> QED BY <1>7, <3>1, <3>2 DEF X!DiskByte
  <2> QED BY <1>5, <2>1
<1>10. got' = got \o new
  BY <1>4 DEF off
<1> HIDE DEF new
<1>11. /\ got' \in Seq(Int \X Int) /\ Len(got') = Len(got) + n
       /\ \A k \in 1 .. Len(got) : got'[k] = got[k]
       /\ \A k \in Len(got) + 1 .. Len(got) + n : got'[k] = new[k - Len(got)]
  <2> DEFINE B == Int \X Int
  <2>1. got \in Seq(B) /\ new \in Seq(B)
    BY <1>2, <1>9
  <2>2. Len(got) \in Nat
    BY <1>2, LenProperties
  <2> HIDE DEF B
  <2>3. /\ got \o new \in Seq(B) /\ Len(got \o new) = Len(got) + Len(new)
        /\ \A k \in 1 .. Len(got) + Len(new) :
             (got \o new)[k] = IF k <= Len(got) THEN got[k] ELSE new[k - Len(got)]
    BY <2>1, ConcatProperties
  <2>4. got' \in Seq(B) /\ Len(got') = Len(got) + n
    BY <1>9, <1>10, <2>3
  <2>5. ASSUME NEW k \in 1 .. Len(got)
        PROVE  got'[k] = got[k]
    <3>1. k \in 1 .. Len(got) + Len(new) /\ k <= Len(got)
      BY <1>5, <1>9, <2>2
    <3> QED BY <1>10, <2>3, <3>1
  <2>6. ASSUME NEW k \in Len(got) + 1 .. Len(got) + n
        PROVE  got'[k] = new[k - Len(got)]
    <3>1. k \in 1 .. Len(got) + Len(new) /\ ~(k <= Len(got))
      BY <1>5, <1>9, <2>2
    <3> QED BY <1>10, <2>3, <3>1
  <2> QED BY <2>4, <2>5, <2>6 DEF B
<1>12. ASSUME X!Contiguous
       PROVE  X!ReadsTheBytes'
  <2>1. X!ReadsTheBytes
    BY <1>2, <1>12 DEF X!OneRunIsReadRight
  <2>2. DOMAIN got = 1 .. Len(got) /\ DOMAIN got' = 1 .. Len(got') /\ Len(got) \in Nat
    BY <1>2, <1>11, LenProperties
  <2>3. \A p : X!FileByte(p)' = X!FileByte(p)
    BY <1>3 DEF X!FileByte, X!Ends, X!DiskByte, X!ToSet
  <2>4. PICK i \in DOMAIN file.extents : e = file.extents[i] /\ at0 <= position
    <3>1. position \in 0 .. file.size - 1
      BY <1>1, <1>2, <1>3
    <3> QED BY <1>2, <1>4, <1>12, <3>1, ReadFromHolds DEF at0
  <2>5. ASSUME NEW k \in 1 .. Len(got) + n
        PROVE  got'[k] = X!FileByte(from + k - 1)
    <3>1. CASE k \in 1 .. Len(got)
      BY <1>11, <2>1, <2>2, <3>1 DEF X!ReadsTheBytes
    <3>2. CASE k \in Len(got) + 1 .. Len(got) + n
      <4>1. PICK m \in 1 .. n : m = k - Len(got)
        BY <1>5, <2>2, <3>2
      <4>2. PICK p \in 0 .. file.size - 1 : p = position + m - 1
        <5>1. position \in Nat /\ file.size \in Nat /\ n \in Nat /\ position + n <= file.size
          BY <1>1, <1>2, <1>5
        <5>2. position + m - 1 \in 0 .. file.size - 1
          BY <4>1, <5>1
        <5> QED BY <5>2, Zenon
      <4>3. from + k - 1 = p
        BY <1>2, <2>2, <4>1, <4>2
      <4>4. off + m - 1 = p - at0
        <5>1. off = position - at0 /\ position \in Nat /\ at0 \in Nat
          BY <1>2, <1>7, <1>8, <2>4
        <5> QED BY <4>1, <4>2, <5>1
      <4>5. got'[k] = X!DiskByte(e.start, p - at0)
        BY <1>11, <3>2, <4>1, <4>4 DEF new
      <4>6. p \in Nat
        BY <1>1, <4>2
      <4>7. X!DiskByte(e.start, p - at0) = <<Shift(e) + p \div BLOCK, p % BLOCK>>
        BY <1>1, <1>6, <4>6, DiskByteShifts DEF at0
      <4>8. X!FileByte(p) = <<Shift(e) + p \div BLOCK, p % BLOCK>>
        BY <1>2, <1>12, <2>4, <4>2, FileByteIs
      <4> QED BY <4>3, <4>5, <4>7, <4>8
    <3>3. k \in 1 .. Len(got) \/ k \in Len(got) + 1 .. Len(got) + n
      BY <1>5, <2>2
    <3> QED BY <3>1, <3>2, <3>3
  <2> QED BY <1>3, <1>11, <2>2, <2>3, <2>5 DEF X!ReadsTheBytes
<1>13. X!Contiguous' <=> X!Contiguous
  BY <1>3 DEF X!Contiguous
<1>14. X!OneRunIsReadRight'
  BY <1>12, <1>13 DEF X!OneRunIsReadRight
<1>15. position' \in Nat /\ position' = from' + Len(got')
  <2>1. Len(got) \in Nat
    BY <1>2, LenProperties
  <2> QED BY <1>2, <1>3, <1>4, <1>5, <1>11, <2>1
<1> QED BY <1>2, <1>3, <1>11, <1>14, <1>15 DEF Ext4Inv

(* Every step of the file keeps it.                                        *)
LEMMA Ext4Step ==
  ASSUME X!Ext4Assumption, Ext4Inv, X!Next \/ UNCHANGED ext4Vars
  PROVE  Ext4Inv'
<1>1. ASSUME NEW p \in Nat, X!Placed(p) PROVE Ext4Inv'
  <2>1. position' = p /\ from' = p /\ got' = << >> /\ file' = file
    BY <1>1 DEF X!Placed
  <2>2. got' \in Seq(Int \X Int) /\ Len(got') = 0 /\ DOMAIN got' = {}
    BY <2>1
  <2>3. X!OneRunIsReadRight'
    BY <2>2 DEF X!OneRunIsReadRight, X!ReadsTheBytes
  <2> QED BY <2>1, <2>2, <2>3 DEF Ext4Inv
<1>2. ASSUME NEW n \in Sizes, X!ext4_read(n) PROVE Ext4Inv'
  BY <1>2, ReadKeeps
<1>3. ASSUME NEW n \in Sizes, X!ext4_write(n) \/ X!ext4_seek(n) PROVE Ext4Inv'
  <2>1. n \in Nat /\ position \in Nat
    BY DEF X!Ext4Assumption, Ext4Inv
  <2>2. n \in Nat /\ position + n \in Nat
    BY <2>1
  <2> QED BY <1>1, <1>3, <2>2 DEF X!ext4_write, X!ext4_seek
<1>4. CASE UNCHANGED ext4Vars
  BY <1>4 DEF ext4Vars, Ext4Inv, X!OneRunIsReadRight, X!Contiguous, X!ReadsTheBytes, X!FileByte,
              X!Ends, X!DiskByte, X!ToSet
<1> QED BY <1>2, <1>3, <1>4 DEF X!Next, X!Lookup, X!vars, ext4Vars

(* A file whose blocks lie in one run is read byte for byte, for every     *)
(* size of the blocks, the extents and the reads, through reads that start *)
(* and end inside blocks, cross extents, or stop where one fails.          *)
THEOREM RunsAreReadRight ==
  ServicesSpec => []OneRunIsReadRight
<1> DEFINE Inv4 == part = "ext4" => Ext4Inv
<1>0. X!Ext4Assumption
  BY ServicesAssumption
<1>1. ServicesInit => Inv4
  <2> SUFFICES ASSUME ServicesInit, part = "ext4" PROVE Ext4Inv
    OBVIOUS
  <2>1. file \in Layouts /\ position = 0 /\ got = << >> /\ from = 0
    BY DEF ServicesInit, X!Init, X!ext4_open
  <2>2. got \in Seq(Int \X Int) /\ Len(got) = 0 /\ DOMAIN got = {}
    BY <2>1
  <2> QED BY <2>1, <2>2 DEF Ext4Inv, X!OneRunIsReadRight, X!ReadsTheBytes
<1>2. Inv4 /\ [ServicesNext]_servicesVars => Inv4'
  <2> SUFFICES ASSUME Inv4, [ServicesNext]_servicesVars, part' = "ext4" PROVE Ext4Inv'
    OBVIOUS
  <2>1. part = "ext4" /\ (X!Next \/ UNCHANGED ext4Vars)
    BY DEF ServicesNext, Only, servicesVars
  <2> QED BY <1>0, <2>1, Ext4Step
<1>3. Inv4 => OneRunIsReadRight
  BY DEF Ext4Inv, OneRunIsReadRight
<1> HIDE DEF Inv4
<1> QED BY <1>1, <1>2, <1>3, PTL DEF ServicesSpec

-----------------------------------------------------------------------------
(* All of them.                                                            *)

(* A step of the composition is one of each part, or rests.                *)
LEMMA PartsRun ==
  ServicesSpec => Spec /\ V!Spec /\ D!Spec /\ M!Spec /\ N!Spec
<1>1. ServicesInit => Init /\ V!Init /\ D!Init /\ M!Init /\ N!Init
  BY DEF ServicesInit
<1>2. [ServicesNext]_servicesVars => [Next]_vars
  <2>1. ChangePolicy \/ Label \/ Lookup \/ Audit => Next
    BY DEF Next, ChangePolicy, Audit, Label
  <2> QED BY <2>1 DEF ServicesNext, Only, servicesVars
<1>3. [ServicesNext]_servicesVars => [V!Next]_(V!vars)
  BY DEF ServicesNext, Only, servicesVars, vfsVars, V!vars
<1>4. [ServicesNext]_servicesVars => [D!Next]_(D!vars)
  BY DEF ServicesNext, Only, servicesVars, debuggerVars, D!vars, D!bpVars, D!logVars
<1>5. [ServicesNext]_servicesVars => [M!Next]_(M!vars)
  BY DEF ServicesNext, Only, servicesVars, monitorVars, M!vars
<1>6. [ServicesNext]_servicesVars => [N!Next]_(N!vars)
  BY DEF ServicesNext, Only, servicesVars, socketVars, N!vars
<1> QED BY <1>1, <1>2, <1>3, <1>4, <1>5, <1>6, PTL
        DEF ServicesSpec, Spec, V!Spec, D!Spec, M!Spec, N!Spec

(* Whatever part a behaviour is about, readers of each log get the newest  *)
(* entries, through every wrap of its counter, and the graphs of the       *)
(* monitor end with the samples taken since their index last was zero.     *)
THEOREM RingsAreRecent ==
  ServicesSpec => []LogsAreRecent
BY PartsRun, AuditIsRecent, LogReadsRecent, GraphsAreRecent, PTL DEF LogsAreRecent
=============================================================================
