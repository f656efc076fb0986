------------------------------ MODULE RingFacts ------------------------------
(***************************************************************************)
(* Facts about integers that the other proofs rest on: the remainder as a  *)
(* wrap around, the least and the greatest element of a set of naturals,   *)
(* and loops.                                                              *)
(***************************************************************************)
EXTENDS Integers, WellFoundedInduction, TLAPS

(* A remainder is an index of the ring.                                    *)
LEMMA ModRange ==
  ASSUME NEW Q \in Nat \ {0}, NEW a \in Int
  PROVE  a % Q \in 0 .. Q - 1
OBVIOUS

(* An index less than two turns round wraps at most once.                  *)
LEMMA ModWrap ==
  ASSUME NEW Q \in Nat \ {0}, NEW a \in 0 .. 2 * Q - 1
  PROVE  a % Q = IF a < Q THEN a ELSE a - Q
<1>1. CASE a < Q BY <1>1
<1>2. CASE a >= Q BY <1>2
<1> QED BY <1>1, <1>2

(* Division with remainder.                                                *)
LEMMA DivMod ==
  ASSUME NEW Q \in Nat \ {0}, NEW x \in Int
  PROVE  \E d \in Int : x = Q * d + (x % Q)
<1>1. x = Q * (x \div Q) + (x % Q)
  OBVIOUS
<1>2. x \div Q \in Int
  OBVIOUS
<1> QED BY <1>1, <1>2

(* The remainder of a sum of turns and an index is the index.              *)
LEMMA ModUnique ==
  ASSUME NEW Q \in Nat \ {0}, NEW d \in Int, NEW r \in 0 .. Q - 1
  PROVE  (Q * d + r) % Q = r
OBVIOUS

(* And its quotient is the number of turns.                                *)
LEMMA DivUnique ==
  ASSUME NEW Q \in Nat \ {0}, NEW d \in Int, NEW r \in 0 .. Q - 1
  PROVE  (Q * d + r) \div Q = d
OBVIOUS

(* Whole turns of the ring do not matter.                                  *)
LEMMA ModAddMul ==
  ASSUME NEW Q \in Nat \ {0}, NEW d \in Int, NEW y \in Int
  PROVE  (Q * d + y) % Q = y % Q
<1> DEFINE r == y % Q
<1>1. PICK e \in Int : y = Q * e + r
  BY DivMod
<1>2. r \in 0 .. Q - 1 /\ d + e \in Int
  OBVIOUS
<1> HIDE DEF r
<1>3. Q * d + y = Q * (d + e) + r
  BY <1>1, <1>2
<1>4. (Q * (d + e) + r) % Q = r
  BY <1>2, ModUnique
<1> QED BY <1>3, <1>4 DEF r

(* A counter that wraps at a multiple of the ring size still denotes the   *)
(* same cell.                                                              *)
LEMMA ModOfMod ==
  ASSUME NEW Q \in Nat \ {0}, NEW W \in Nat \ {0}, W % Q = 0, NEW x \in Int
  PROVE  (x % W) % Q = x % Q
<1> DEFINE r == x % W
<1>1. PICK m \in Int : W = Q * m
  <2>1. W \in Int
    OBVIOUS
  <2>2. PICK m \in Int : W = Q * m + (W % Q)
    BY <2>1, DivMod
  <2>3. W = Q * m
    BY <2>2
  <2> QED BY <2>3
<1>2. PICK e \in Int : x = W * e + r
  BY DivMod
<1>3. r \in Int
  OBVIOUS
<1> HIDE DEF r
<1>4. x = Q * (m * e) + r
  BY <1>1, <1>2, <1>3
<1> DEFINE d == m * e
<1>5. d \in Int
  OBVIOUS
<1> HIDE DEF d
<1>6. (Q * d + r) % Q = r % Q
  BY <1>3, <1>5, ModAddMul
<1> QED BY <1>4, <1>6 DEF r, d

(* Reducing a summand first changes nothing.                               *)
LEMMA ModPlus ==
  ASSUME NEW Q \in Nat \ {0}, NEW x \in Int, NEW y \in Int
  PROVE  ((x % Q) + y) % Q = (x + y) % Q
<1> DEFINE r == x % Q
<1>1. PICK e \in Int : x = Q * e + r
  BY DivMod
<1>2. r \in Int /\ r + y \in Int
  OBVIOUS
<1> HIDE DEF r
<1>3. x + y = Q * e + (r + y)
  BY <1>1, <1>2
<1>4. (Q * e + (r + y)) % Q = (r + y) % Q
  BY <1>2, ModAddMul
<1> QED BY <1>3, <1>4 DEF r

(* Less than a turn apart, two counters denote different cells.            *)
LEMMA ModInjective ==
  ASSUME NEW Q \in Nat \ {0}, NEW x \in Int, NEW y \in Int,
         x % Q = y % Q, x <= y, y < x + Q
  PROVE  x = y
<1> DEFINE r == x % Q
<1>1. PICK d \in Int : x = Q * d + r
  BY DivMod
<1>2. PICK e \in Int : y = Q * e + r
  BY DivMod
<1>3. r \in Int
  OBVIOUS
<1> HIDE DEF r
<1>4. Q * d <= Q * e /\ Q * e < Q * d + Q
  BY <1>1, <1>2, <1>3
<1>5. Q * e < Q * (d + 1)
  BY <1>4
<1>6. d <= e /\ e < d + 1
  BY <1>4, <1>5
<1> QED BY <1>1, <1>2, <1>6

(* A nonempty set of naturals has a least element.                         *)
LEMMA LeastExists ==
  ASSUME NEW S \in SUBSET Nat, S # {}
  PROVE  \E x \in S : \A y \in S : x <= y
<1> DEFINE R == {ss \in Nat \X Nat : ss[1] < ss[2]}
<1>0. IsWellFoundedOn(R, Nat)
  BY NatLessThanWellFounded DEF OpToRel
<1> HIDE DEF R
<1>1. PICK x \in S : \A y \in S : ~(<<y, x>> \in R)
  BY <1>0, WFMin
<1>2. \A y \in S : ~(y < x)
  BY <1>1 DEF R
<1> QED BY <1>2

(* The greatest element of a nonempty set of naturals with an upper bound. *)
LEMMA GreatestExists ==
  ASSUME NEW S \in SUBSET Nat, S # {}, NEW b \in Nat, \A y \in S : y <= b
  PROVE  \E x \in S : \A y \in S : x >= y
<1> DEFINE T == {b - y : y \in S}
<1>0. \A y \in S : b - y \in Nat
  OBVIOUS
<1>1. T \in SUBSET Nat /\ T # {}
  BY <1>0
<1> HIDE DEF T
<1>2. PICK t \in T : \A u \in T : t <= u
  BY <1>1, LeastExists
<1>3. PICK x \in S : t = b - x
  BY <1>2 DEF T
<1>4. \A y \in S : b - y \in T
  BY DEF T
<1>5. \A y \in S : x >= y
  BY <1>2, <1>3, <1>4
<1> QED BY <1>5

-----------------------------------------------------------------------------
(* Loops, as functions of the number of turns.  The operator that is       *)
(* iterated is given as the function F, of the state and the turn.         *)

(* g records the states of N turns of F from s0 on.                        *)
IsLoop(g, N, S, s0, F) == /\ g \in [0 .. N -> S]
                          /\ g[0] = s0
                          /\ \A d \in 1 .. N : g[d] = F[<<g[d - 1], d>>]

(* A loop that keeps to S can be run to its end.                           *)
LEMMA LoopExists ==
  ASSUME NEW N \in Nat, NEW S, NEW s0 \in S, NEW F \in [S \X (1 .. N) -> S]
  PROVE  \E g : IsLoop(g, N, S, s0, F)
<1> DEFINE Runs(k) == \E g \in [0 .. k -> S] : /\ g[0] = s0
                                               /\ \A d \in 1 .. k : g[d] = F[<<g[d - 1], d>>]
           Bad == {k \in 0 .. N : ~Runs(k)}
<1>1. Runs(0)
  <2> DEFINE g == [j \in 0 .. 0 |-> s0]
  <2>1. g \in [0 .. 0 -> S] /\ g[0] = s0 /\ 1 .. 0 = {}
    OBVIOUS
  <2> QED BY <2>1
<1>2. ASSUME NEW k \in 0 .. N - 1, Runs(k)
      PROVE  Runs(k + 1)
  <2>1. PICK g \in [0 .. k -> S] : /\ g[0] = s0
                                   /\ \A d \in 1 .. k : g[d] = F[<<g[d - 1], d>>]
    BY <1>2
  <2> DEFINE e == F[<<g[k], k + 1>>]
             h == [j \in 0 .. k + 1 |-> IF j = k + 1 THEN e ELSE g[j]]
  <2>2. e \in S
    <3>1. <<g[k], k + 1>> \in S \X (1 .. N)
      BY <2>1
    <3> QED BY <3>1
  <2>3. h[0] = s0
    BY <2>1
  <2>4. h \in [0 .. k + 1 -> S]
    BY <2>1, <2>2
  <2>5. ASSUME NEW d \in 1 .. k + 1
        PROVE  h[d] = F[<<h[d - 1], d>>]
    <3>1. d - 1 \in 0 .. k /\ h[d - 1] = g[d - 1]
      OBVIOUS
    <3>2. CASE d = k + 1
      <4>1. h[d] = e /\ d - 1 = k
        BY <3>2
      <4> QED BY <3>1, <3>2, <4>1
    <3>3. CASE d \in 1 .. k
      <4>1. h[d] = g[d]
        BY <3>3
      <4> QED BY <2>1, <3>1, <3>3, <4>1
    <3> QED BY <3>2, <3>3
  <2> HIDE DEF h
  <2> QED BY <2>3, <2>4, <2>5
<1> HIDE DEF Runs
<1>3. Bad = {}
  <2> SUFFICES ASSUME Bad # {} PROVE FALSE
    OBVIOUS
  <2>1. Bad \in SUBSET Nat
    OBVIOUS
  <2>2. PICK k \in Bad : \A j \in Bad : k <= j
    BY <2>1, LeastExists
  <2>3. k # 0 /\ k \in 1 .. N /\ ~Runs(k)
    BY <1>1, <2>2
  <2>4. k - 1 \in 0 .. N - 1 /\ k - 1 \notin Bad
    BY <2>2, <2>3
  <2>5. Runs((k - 1) + 1)
    BY <1>2, <2>4
  <2> QED BY <2>3, <2>5
<1>4. Runs(N)
  BY <1>3
<1> QED BY <1>4 DEF Runs, IsLoop

(* What holds before the loop and is kept by a turn holds after each turn. *)
LEMMA LoopInvariant ==
  ASSUME NEW N \in Nat, NEW S, NEW h, h[0] \in S,
         \A d \in 1 .. N : h[d - 1] \in S => h[d] \in S
  PROVE  \A d \in 0 .. N : h[d] \in S
<1> DEFINE Bad == {d \in 0 .. N : h[d] \notin S}
<1> SUFFICES ASSUME Bad # {} PROVE FALSE
  OBVIOUS
<1>1. Bad \in SUBSET Nat
  OBVIOUS
<1>2. PICK d \in Bad : \A j \in Bad : d <= j
  BY <1>1, LeastExists
<1>3. d \in 1 .. N /\ d - 1 \in 0 .. N /\ d - 1 \notin Bad
  BY <1>2
<1>4. h[d - 1] \in S
  BY <1>3
<1> QED BY <1>2, <1>3, <1>4
=============================================================================
