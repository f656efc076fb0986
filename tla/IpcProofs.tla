----------------------------- MODULE IpcProofs ------------------------------
(***************************************************************************)
(* What is proved of the pipes and the message queues, for every table     *)
(* size, ring size and counter width (the ring sizes dividing the width),  *)
(* every alphabet and every set of messages: the counters agree, and each  *)
(* is a bounded FIFO.  The module sees both tables as MCIpc puts them side *)
(* by side, the constants left open; what is said of Q is said of the      *)
(* message queues, and its lemmas start with Queue.                        *)
(***************************************************************************)
EXTENDS MCIpc, RingFacts, SequenceTheorems, TLAPS

USE PipesAssumption, RingAssumption, ByteAssumption

(* A counter reduced modulo the size is a cell of the ring.                *)
LEMMA IndexInRing ==
  ASSUME NEW x \in Int, NEW i \in Int
  PROVE  Index(x, i) \in Cell
<1> DEFINE y == (x + i) % WIDTH
<1>1. y \in Int
  <2>1. x + i \in Int
    OBVIOUS
  <2> QED BY <2>1, ModRange
<1> HIDE DEF y
<1>2. y % PIPE_SIZE \in 0 .. PIPE_SIZE - 1
  BY <1>1, ModRange
<1> QED BY <1>2 DEF Index, Cell, y

(* The wrap of the 32-bit counter is invisible in the ring.                *)
LEMMA IndexIsMod ==
  ASSUME NEW x \in Int, NEW i \in Int
  PROVE  Index(x, i) = (x + i) % PIPE_SIZE
<1> DEFINE y == x + i
<1>1. y \in Int
  OBVIOUS
<1> HIDE DEF y
<1>2. (y % WIDTH) % PIPE_SIZE = y % PIPE_SIZE
  BY <1>1, ModOfMod
<1> QED BY <1>2 DEF Index, y

(* Starting from a counter that was advanced by k is skipping k cells.     *)
LEMMA IndexShift ==
  ASSUME NEW x \in Int, NEW k \in Int, NEW i \in Int
  PROVE  Index((x + k) % WIDTH, i) = Index(x, k + i)
<1> DEFINE y == x + k
<1>1. y \in Int
  OBVIOUS
<1> HIDE DEF y
<1>2. ((y % WIDTH) + i) % WIDTH = (y + i) % WIDTH
  BY <1>1, ModPlus
<1>3. y + i = x + (k + i)
  BY DEF y
<1> QED BY <1>2, <1>3 DEF Index, y

(* Less than a turn apart, two cells are different.                        *)
LEMMA IndexInjective ==
  ASSUME NEW x \in Int, NEW i \in Int, NEW j \in Int,
         i <= j, j < i + PIPE_SIZE, Index(x, i) = Index(x, j)
  PROVE  i = j
<1> DEFINE y == x + i
           z == x + j
<1>1. y \in Int /\ z \in Int /\ y <= z /\ z < y + PIPE_SIZE
  OBVIOUS
<1>2. y % PIPE_SIZE = z % PIPE_SIZE
  BY IndexIsMod
<1> HIDE DEF y, z
<1>3. y = z
  BY <1>1, <1>2, ModInjective
<1> QED BY <1>3 DEF y, z

-----------------------------------------------------------------------------
(* How much a write stores and a read fetches.                             *)
LEMMA StoredBounds ==
  ASSUME TypeOK, NEW f \in Fd, NEW s \in Seq(Byte)
  PROVE  /\ Stored(f, s) \in 0 .. Len(s)
         /\ count[f] + Stored(f, s) \in 0 .. PIPE_SIZE
BY DEF Stored, Lesser, TypeOK

(* A read fetches no more than there is.                                   *)
LEMMA FetchedBounds ==
  ASSUME TypeOK, NEW f \in Fd, NEW n \in Nat
  PROVE  Fetched(f, n) \in 0 .. count[f] /\ Fetched(f, n) <= n
BY DEF Fetched, Lesser, TypeOK

(* The table starts with the right types.                                  *)
LEMMA TypeInit == Init => TypeOK
BY DEF Init, TypeOK

(* Every call keeps the types.                                             *)
LEMMA TypeStep ==
  ASSUME TypeOK, [Next]_vars
  PROVE  TypeOK'
<1>1. CASE ipc_pipe_create
  <2>1. 0 \in 0 .. WIDTH - 1 /\ 0 \in 0 .. PIPE_SIZE
    OBVIOUS
  <2>2. CASE UNCHANGED <<active, data, head, tail, count>>
    BY <2>2 DEF TypeOK
  <2>3. ASSUME NEW f \in Fd,
               /\ active' = [active EXCEPT ![f] = TRUE]
               /\ head' = [head EXCEPT ![f] = 0]
               /\ tail' = [tail EXCEPT ![f] = 0]
               /\ count' = [count EXCEPT ![f] = 0]
               /\ UNCHANGED data
        PROVE  TypeOK'
    <3>1. active' \in [Fd -> BOOLEAN]
      BY <2>3 DEF TypeOK
    <3>2. head' \in [Fd -> 0 .. WIDTH - 1] /\ tail' \in [Fd -> 0 .. WIDTH - 1]
      BY <2>1, <2>3 DEF TypeOK
    <3>3. count' \in [Fd -> 0 .. PIPE_SIZE]
      BY <2>1, <2>3 DEF TypeOK
    <3> QED BY <2>3, <3>1, <3>2, <3>3 DEF TypeOK
  <2> QED BY <1>1, <2>2, <2>3 DEF ipc_pipe_create, Cleared
<1>2. ASSUME NEW f \in AnyFd, NEW s \in Bursts, ipc_pipe_write(f, s)
      PROVE  TypeOK'
  <2> DEFINE n == Stored(f, s)
             row == [j \in Cell |->
                       IF \E i \in 1 .. n : Index(tail[f], i - 1) = j
                         THEN s[CHOOSE i \in 1 .. n : Index(tail[f], i - 1) = j]
                         ELSE data[f][j]]
  <2>1. f \in Fd /\ s \in Seq(Byte)
    BY <1>2, CallsAssumption DEF ipc_pipe_write, Open
  <2>2. n \in 0 .. Len(s) /\ count[f] + n \in 0 .. PIPE_SIZE
    BY <2>1, StoredBounds
  <2>3. /\ data' = [data EXCEPT ![f] = row]
        /\ tail' = [tail EXCEPT ![f] = (@ + n) % WIDTH]
        /\ count' = [count EXCEPT ![f] = @ + n]
        /\ UNCHANGED <<active, head>>
    BY <1>2 DEF ipc_pipe_write
  <2> HIDE DEF n
  <2>4. row \in [Cell -> Byte]
    <3> SUFFICES ASSUME NEW j \in Cell PROVE row[j] \in Byte
      OBVIOUS
    <3>1. CASE \E i \in 1 .. n : Index(tail[f], i - 1) = j
      <4> DEFINE i == CHOOSE i \in 1 .. n : Index(tail[f], i - 1) = j
      <4>1. i \in 1 .. n
        BY <3>1
      <4>2. row[j] = s[i]
        BY <3>1
      <4> HIDE DEF i
      <4>3. s[i] \in Byte
        BY <2>1, <2>2, <4>1
      <4> QED BY <4>2, <4>3
    <3>2. CASE ~ \E i \in 1 .. n : Index(tail[f], i - 1) = j
      BY <2>1, <3>2 DEF TypeOK
    <3> QED BY <3>1, <3>2
  <2>5. (tail[f] + n) % WIDTH \in 0 .. WIDTH - 1
    <3>1. tail[f] + n \in Int
      BY <2>1, <2>2 DEF TypeOK
    <3> QED BY <3>1, ModRange
  <2> HIDE DEF row
  <2> QED BY <2>1, <2>2, <2>3, <2>4, <2>5 DEF TypeOK
<1>3. ASSUME NEW f \in AnyFd, NEW m \in Sizes, ipc_pipe_read(f, m)
      PROVE  TypeOK'
  <2> DEFINE n == Fetched(f, m)
  <2>1. f \in Fd /\ m \in Nat
    BY <1>3, CallsAssumption DEF ipc_pipe_read, Open
  <2>2. n \in 0 .. count[f]
    BY <2>1, FetchedBounds
  <2>3. /\ head' = [head EXCEPT ![f] = (@ + n) % WIDTH]
        /\ count' = [count EXCEPT ![f] = @ - n]
        /\ UNCHANGED <<active, data, tail>>
    BY <1>3 DEF ipc_pipe_read
  <2> HIDE DEF n
  <2>4. (head[f] + n) % WIDTH \in 0 .. WIDTH - 1
    <3>1. head[f] + n \in Int
      BY <2>1, <2>2 DEF TypeOK
    <3> QED BY <3>1, ModRange
  <2> QED BY <2>1, <2>2, <2>3, <2>4 DEF TypeOK
<1>4. ASSUME NEW f \in AnyFd, ipc_pipe_close(f) PROVE TypeOK'
  BY <1>4 DEF ipc_pipe_close, TypeOK
<1>5. ASSUME NEW f \in AnyFd, PipeRefuses(f) PROVE TypeOK'
  BY <1>5 DEF PipeRefuses, TypeOK
<1>6. CASE UNCHANGED vars
  BY <1>6 DEF vars, TypeOK
<1> QED BY <1>1, <1>2, <1>3, <1>4, <1>5, <1>6 DEF Next

(* Type correctness of the table of pipes.                                 *)
THEOREM PipeTypeCorrect == Spec => []TypeOK
<1>1. TypeOK /\ [Next]_vars => TypeOK'
  BY TypeStep
<1> QED BY <1>1, TypeInit, PTL DEF Spec

-----------------------------------------------------------------------------
(* Every call keeps the counters in agreement.                             *)
LEMMA ConsistentStep ==
  ASSUME TypeOK, RingConsistent, [Next]_vars
  PROVE  RingConsistent'
<1>0. TypeOK'
  BY TypeStep
<1> SUFFICES ASSUME NEW g \in Fd
             PROVE  /\ count'[g] <= PIPE_SIZE
                    /\ tail'[g] = (head'[g] + count'[g]) % WIDTH
  BY DEF RingConsistent
<1>a. /\ head[g] \in Int /\ tail[g] \in Int /\ count[g] \in 0 .. PIPE_SIZE
      /\ tail[g] = (head[g] + count[g]) % WIDTH
  BY DEF TypeOK, RingConsistent
<1>1. CASE UNCHANGED <<head, tail, count>>
  BY <1>1, <1>a
<1>2. CASE ipc_pipe_create
  <2>1. CASE UNCHANGED <<head, tail, count>>
    BY <2>1, <1>a
  <2>2. ASSUME NEW f \in Fd,
               head' = [head EXCEPT ![f] = 0],
               tail' = [tail EXCEPT ![f] = 0],
               count' = [count EXCEPT ![f] = 0]
        PROVE  /\ count'[g] <= PIPE_SIZE
               /\ tail'[g] = (head'[g] + count'[g]) % WIDTH
    <3>1. CASE f = g
      <4>1. head'[g] = 0 /\ tail'[g] = 0 /\ count'[g] = 0
        BY <2>2, <3>1 DEF TypeOK
      <4>2. 0 % WIDTH = 0
        OBVIOUS
      <4> QED BY <4>1, <4>2
    <3>2. CASE f # g
      BY <2>2, <3>2, <1>a DEF TypeOK
    <3> QED BY <3>1, <3>2
  <2> QED BY <1>2, <2>1, <2>2 DEF ipc_pipe_create, Cleared
<1>3. ASSUME NEW f \in AnyFd, NEW s \in Bursts, ipc_pipe_write(f, s)
      PROVE  /\ count'[g] <= PIPE_SIZE
             /\ tail'[g] = (head'[g] + count'[g]) % WIDTH
  <2> DEFINE n == Stored(f, s)
  <2>1. f \in Fd /\ s \in Seq(Byte)
    BY <1>3, CallsAssumption DEF ipc_pipe_write, Open
  <2>2. n \in Nat /\ count[f] + n <= PIPE_SIZE
    BY <2>1, StoredBounds DEF TypeOK
  <2>3. /\ tail' = [tail EXCEPT ![f] = (@ + n) % WIDTH]
        /\ count' = [count EXCEPT ![f] = @ + n]
        /\ head' = head
    BY <1>3 DEF ipc_pipe_write
  <2> HIDE DEF n
  <2>4. CASE f = g
    <3> DEFINE x == head[g] + count[g]
    <3>1. tail'[g] = (tail[g] + n) % WIDTH /\ count'[g] = count[g] + n
      BY <2>3, <2>4 DEF TypeOK
    <3>2. x \in Int /\ tail[g] = x % WIDTH /\ x + n = head'[g] + count'[g]
      <4>1. head[g] \in Int /\ count[g] \in Int /\ tail[g] = x % WIDTH
        BY <1>a
      <4>2. head'[g] = head[g] /\ count'[g] = count[g] + n
        BY <2>3, <3>1
      <4> QED BY <2>2, <4>1, <4>2
    <3>n. n \in Int
      BY <2>2
    <3> HIDE DEF x
    <3>3. ((x % WIDTH) + n) % WIDTH = (x + n) % WIDTH
      BY <3>2, <3>n, ModPlus
    <3> QED BY <2>2, <2>4, <3>1, <3>2, <3>3
  <2>5. CASE f # g
    BY <1>a, <2>3, <2>5 DEF TypeOK
  <2> QED BY <2>4, <2>5
<1>4. ASSUME NEW f \in AnyFd, NEW m \in Sizes, ipc_pipe_read(f, m)
      PROVE  /\ count'[g] <= PIPE_SIZE
             /\ tail'[g] = (head'[g] + count'[g]) % WIDTH
  <2> DEFINE n == Fetched(f, m)
  <2>1. f \in Fd /\ m \in Nat
    BY <1>4, CallsAssumption DEF ipc_pipe_read, Open
  <2>2. n \in 0 .. count[f]
    BY <2>1, FetchedBounds
  <2>3. /\ head' = [head EXCEPT ![f] = (@ + n) % WIDTH]
        /\ count' = [count EXCEPT ![f] = @ - n]
        /\ tail' = tail
    BY <1>4 DEF ipc_pipe_read
  <2> HIDE DEF n
  <2>4. CASE f = g
    <3> DEFINE x == head[g] + n
               y == count[g] - n
    <3>1. head'[g] = x % WIDTH /\ count'[g] = y
      BY <2>3, <2>4 DEF TypeOK
    <3>2. x \in Int /\ y \in Int /\ x + y = head[g] + count[g] /\ y <= PIPE_SIZE
      BY <1>a, <2>2, <2>4
    <3> HIDE DEF x, y
    <3>3. ((x % WIDTH) + y) % WIDTH = (x + y) % WIDTH
      BY <3>2, ModPlus
    <3> QED BY <1>a, <2>3, <3>1, <3>2, <3>3
  <2>5. CASE f # g
    BY <1>a, <2>3, <2>5 DEF TypeOK
  <2> QED BY <2>4, <2>5
<1>5. ASSUME \/ UNCHANGED vars
             \/ \E f \in AnyFd : ipc_pipe_close(f) \/ PipeRefuses(f)
      PROVE  UNCHANGED <<head, tail, count>>
  BY <1>5 DEF vars, ipc_pipe_close, PipeRefuses
<1> QED BY <1>1, <1>2, <1>3, <1>4, <1>5 DEF Next

(* head, tail and count agree for ever, for every counter width.           *)
THEOREM PipeCountersAgree == Spec => []RingConsistent
<1>1. Init => RingConsistent
  BY DEF Init, RingConsistent
<1>2. TypeOK /\ RingConsistent /\ [Next]_vars => RingConsistent'
  BY ConsistentStep
<1> QED BY <1>1, <1>2, PipeTypeCorrect, PTL DEF Spec

-----------------------------------------------------------------------------
(* The refinement: the abstract queue of a pipe is its Contents.           *)
Live == {f \in Fd : active[f]}

Queue == [f \in Fd |-> IF active[f] THEN Contents(f) ELSE << >>]

(* What a pipe stands for is a sequence of bytes.                          *)
LEMMA ContentsSeq ==
  ASSUME TypeOK, NEW f \in Fd
  PROVE  /\ Contents(f) \in Seq(Byte)
         /\ Len(Contents(f)) = count[f]
         /\ \A i \in 1 .. count[f] : Contents(f)[i] = data[f][Index(head[f], i - 1)]
<1>1. count[f] \in Nat /\ head[f] \in Int
  BY DEF TypeOK
<1>2. \A i \in 1 .. count[f] : data[f][Index(head[f], i - 1)] \in Byte
  <2> TAKE i \in 1 .. count[f]
  <2>1. Index(head[f], i - 1) \in Cell
    BY <1>1, IndexInRing
  <2> QED BY <2>1 DEF TypeOK
<1> QED BY <1>1, <1>2 DEF Contents

(* A write appends the stored prefix to the contents.                      *)
LEMMA WriteAppends ==
  ASSUME TypeOK, RingConsistent, NEW f \in Fd, NEW s \in Seq(Byte),
         ipc_pipe_write(f, s)
  PROVE  Contents(f)' = Contents(f) \o SubSeq(s, 1, Stored(f, s))
<1> DEFINE n == Stored(f, s)
           c == count[f]
           row == [j \in Cell |->
                     IF \E i \in 1 .. n : Index(tail[f], i - 1) = j
                       THEN s[CHOOSE i \in 1 .. n : Index(tail[f], i - 1) = j]
                       ELSE data[f][j]]
<1>1. /\ n \in 0 .. Len(s) /\ n \in Nat /\ c \in Nat /\ c \in Int
      /\ c + n <= PIPE_SIZE /\ head[f] \in Int /\ tail[f] \in Int
  BY StoredBounds DEF TypeOK
<1>2. data'[f] = row /\ count'[f] = c + n /\ head'[f] = head[f]
  BY DEF ipc_pipe_write, TypeOK
<1>3. tail[f] = (head[f] + c) % WIDTH
  BY DEF RingConsistent
<1> HIDE DEF n
<1>4. \A m \in 1 .. n : Index(tail[f], m - 1) = Index(head[f], c + m - 1)
  <2> TAKE m \in 1 .. n
  <2> DEFINE k == m - 1
  <2>1. k \in Int /\ c + k = c + m - 1
    BY <1>1
  <2> HIDE DEF k, c
  <2>2. Index((head[f] + c) % WIDTH, k) = Index(head[f], c + k)
    BY <1>1, <2>1, IndexShift
  <2> QED BY <1>3, <2>1, <2>2 DEF k
<1>5. ASSUME NEW i \in 1 .. c
      PROVE  row[Index(head[f], i - 1)] = data[f][Index(head[f], i - 1)]
  <2>1. Index(head[f], i - 1) \in Cell
    BY <1>1, IndexInRing
  <2>2. ASSUME NEW m \in 1 .. n, Index(tail[f], m - 1) = Index(head[f], i - 1)
        PROVE  FALSE
    <3> DEFINE k == c + m - 1
               h == i - 1
    <3>1. k \in Int /\ h \in Int /\ h < k /\ k < h + PIPE_SIZE
      BY <1>1
    <3>2. Index(head[f], h) = Index(head[f], k)
      BY <1>4, <2>2
    <3> HIDE DEF k, h
    <3>3. h = k
      BY <1>1, <3>1, <3>2, IndexInjective
    <3> QED BY <3>1, <3>3
  <2> QED BY <2>1, <2>2
<1>6. ASSUME NEW m \in 1 .. n
      PROVE  row[Index(head[f], c + m - 1)] = s[m]
  <2> DEFINE j == Index(tail[f], m - 1)
             o == CHOOSE i \in 1 .. n : Index(tail[f], i - 1) = j
  <2>1. j \in Cell /\ j = Index(head[f], c + m - 1)
    BY <1>1, <1>4, IndexInRing
  <2>2. o \in 1 .. n /\ Index(tail[f], o - 1) = j
    OBVIOUS
  <2>3. row[j] = s[o]
    BY <2>1, <2>2
  <2> HIDE DEF o
  <2>4. o = m
    <3>1. CASE o <= m
      <4> DEFINE x == o - 1
                 y == m - 1
      <4>1. x \in Int /\ y \in Int /\ x <= y /\ y < x + PIPE_SIZE
        BY <1>1, <2>2, <3>1
      <4>2. Index(tail[f], x) = Index(tail[f], y)
        BY <2>2
      <4> HIDE DEF x, y
      <4>3. x = y
        BY <1>1, <4>1, <4>2, IndexInjective
      <4> QED BY <2>2, <4>3 DEF x, y
    <3>2. CASE m <= o
      <4> DEFINE x == m - 1
                 y == o - 1
      <4>1. x \in Int /\ y \in Int /\ x <= y /\ y < x + PIPE_SIZE
        BY <1>1, <2>2, <3>2
      <4>2. Index(tail[f], x) = Index(tail[f], y)
        BY <2>2
      <4> HIDE DEF x, y
      <4>3. x = y
        BY <1>1, <4>1, <4>2, IndexInjective
      <4> QED BY <2>2, <4>3 DEF x, y
    <3> QED BY <2>2, <3>1, <3>2
  <2> QED BY <2>1, <2>3, <2>4
<1> HIDE DEF row
<1> DEFINE L == Contents(f)'
           u == Contents(f)
           v == SubSeq(s, 1, n)
           R == u \o v
<1>7. L = [i \in 1 .. (c + n) |-> row[Index(head[f], i - 1)]]
  BY <1>2 DEF Contents
<1>8. /\ u \in Seq(Byte) /\ Len(u) = c
      /\ \A i \in 1 .. c : u[i] = data[f][Index(head[f], i - 1)]
  BY ContentsSeq
<1>9. /\ v \in Seq(Byte) /\ Len(v) = n
      /\ \A i \in 1 .. n : v[i] = s[i]
  BY <1>1
<1> HIDE DEF c, u, v, L
<1>10. /\ R \in Seq(Byte) /\ Len(R) = c + n
       /\ \A i \in 1 .. (c + n) : R[i] = IF i <= c THEN u[i] ELSE v[i - c]
  <2>1. /\ R \in Seq(Byte) /\ Len(R) = Len(u) + Len(v)
        /\ \A i \in 1 .. Len(u) + Len(v) :
             R[i] = IF i <= Len(u) THEN u[i] ELSE v[i - Len(u)]
    <3>1. u \in Seq(Byte) /\ v \in Seq(Byte)
      BY <1>8, <1>9
    <3> QED BY <3>1, ConcatProperties, Zenon
  <2>2. Len(u) = c /\ Len(v) = n
    BY <1>8, <1>9
  <2> HIDE DEF R, n
  <2> QED BY <2>1, <2>2, Zenon
<1> HIDE DEF R
<1>11. ASSUME NEW i \in 1 .. (c + n)
       PROVE  R[i] = row[Index(head[f], i - 1)]
  <2>1. CASE i <= c
    <3>1. i \in 1 .. c
      BY <1>1, <2>1
    <3>2. R[i] = u[i]
      BY <1>10, <2>1
    <3> QED BY <1>5, <1>8, <3>1, <3>2
  <2>2. CASE i > c
    <3> DEFINE m == i - c
    <3>1. m \in 1 .. n /\ c + m - 1 = i - 1
      BY <1>1, <2>2
    <3>2. R[i] = v[m]
      BY <1>1, <1>10, <2>2
    <3> HIDE DEF m
    <3> QED BY <1>6, <1>9, <3>1, <3>2
  <2> QED BY <1>1, <2>1, <2>2
<1>12. R = [i \in 1 .. (c + n) |-> R[i]]
  BY <1>1, <1>10
<1>13. L = R
  BY <1>7, <1>11, <1>12
<1> QED BY <1>13 DEF L, R, u, v, n

(* A read returns a prefix of the contents and leaves the rest.            *)
LEMMA ReadTakes ==
  ASSUME TypeOK, NEW f \in Fd, NEW m \in Nat, ipc_pipe_read(f, m)
  PROVE  /\ reply' = <<"read", SubSeq(Contents(f), 1, Fetched(f, m))>>
         /\ Contents(f)' = SubSeq(Contents(f), Fetched(f, m) + 1, Len(Contents(f)))
<1> DEFINE n == Fetched(f, m)
           c == count[f]
           h == head[f]
           u == Contents(f)
           out == [i \in 1 .. n |-> data[f][Index(h, i - 1)]]
           L == Contents(f)'
<1>1. n \in 0 .. c /\ n \in Int /\ c \in Nat /\ h \in Int
  BY FetchedBounds DEF TypeOK
<1>2. /\ reply' = <<"read", out>>
      /\ head'[f] = (h + n) % WIDTH /\ count'[f] = c - n /\ data'[f] = data[f]
  BY DEF ipc_pipe_read, TypeOK
<1>3. /\ u \in Seq(Byte) /\ Len(u) = c
      /\ \A i \in 1 .. c : u[i] = data[f][Index(h, i - 1)]
  BY ContentsSeq
<1>4. L = [i \in 1 .. (c - n) |-> data[f][Index((h + n) % WIDTH, i - 1)]]
  BY <1>2 DEF Contents
<1> HIDE DEF n, c, h, u, L
<1>5. ASSUME NEW i \in 1 .. (c - n)
      PROVE  Index((h + n) % WIDTH, i - 1) = Index(h, n + i - 1)
  <2> DEFINE k == i - 1
  <2>1. k \in Int /\ n + k = n + i - 1
    BY <1>1
  <2> HIDE DEF k
  <2>2. Index((h + n) % WIDTH, k) = Index(h, n + k)
    BY <1>1, <2>1, IndexShift
  <2> QED BY <2>1, <2>2 DEF k
<1>6. L = [i \in 1 .. (c - n) |-> u[n + i]]
  <2>1. ASSUME NEW i \in 1 .. (c - n)
        PROVE  data[f][Index((h + n) % WIDTH, i - 1)] = u[n + i]
    <3> DEFINE k == n + i
    <3>1. k \in 1 .. c /\ k - 1 = n + i - 1
      BY <1>1
    <3> HIDE DEF k
    <3>2. u[k] = data[f][Index(h, k - 1)]
      BY <1>3, <3>1
    <3> QED BY <1>5, <3>1, <3>2 DEF k
  <2> QED BY <1>4, <2>1
<1>7. SubSeq(u, n + 1, Len(u)) = [i \in 1 .. (c - n) |-> u[n + i]]
  BY <1>1, <1>3
<1>8. out = SubSeq(u, 1, n)
  BY <1>1, <1>3
<1> QED BY <1>2, <1>6, <1>7, <1>8 DEF n, u, L

-----------------------------------------------------------------------------
(* The shorter of two lengths is the smaller.                              *)
LEMMA FifoShorter ==
  ASSUME NEW x, NEW y
  PROVE  Fifo!Shorter(x, y) = Lesser(x, y)
BY DEF Fifo!Shorter, Lesser

(* The table starts as the abstract channels do.                           *)
LEMMA RefineInit == Init => Fifo!Init
<1> SUFFICES ASSUME Init PROVE Fifo!Init
  OBVIOUS
<1>1. Live = {} /\ Queue = [f \in Fd |-> << >>]
  BY DEF Init, Live, Queue
<1> QED BY <1>1 DEF Init, Fifo!Init, Live, Queue

(* What an operation on the pipe f does to the abstract queues.            *)
LEMMA PipeOneChanges ==
  ASSUME TypeOK, NEW f \in Fd, active'[f], active' = active,
         \A g \in Fd \ {f} : Contents(g)' = Contents(g)
  PROVE  Queue' = [Queue EXCEPT ![f] = Contents(f)']
BY DEF Queue, TypeOK

(* A pipe's contents depend on its own fields only.                        *)
LEMMA ContentsLocal ==
  ASSUME TypeOK, NEW g \in Fd, data'[g] = data[g], head'[g] = head[g],
         count'[g] = count[g]
  PROVE  Contents(g)' = Contents(g)
BY DEF Contents

(* A write of the ring is a write of the channel.                          *)
LEMMA RefineWrite ==
  ASSUME TypeOK, RingConsistent, NEW f \in AnyFd, NEW s \in Bursts,
         ipc_pipe_write(f, s)
  PROVE  Fifo!Write(f, s)
<1>1. f \in Fd /\ active[f] /\ s \in Seq(Byte) /\ active' = active
  BY CallsAssumption DEF ipc_pipe_write, Open
<1>2. Contents(f)' = Contents(f) \o SubSeq(s, 1, Stored(f, s))
  BY <1>1, WriteAppends
<1>3. ASSUME NEW g \in Fd \ {f} PROVE Contents(g)' = Contents(g)
  <2>1. data'[g] = data[g] /\ head'[g] = head[g] /\ count'[g] = count[g]
    BY <1>1 DEF ipc_pipe_write, TypeOK
  <2> QED BY <2>1, ContentsLocal
<1>4. Queue' = [Queue EXCEPT ![f] = Contents(f)']
  BY <1>1, <1>3, PipeOneChanges
<1>5. Queue[f] = Contents(f) /\ Len(Queue[f]) = count[f]
  BY <1>1, ContentsSeq DEF Queue
<1>6. Stored(f, s) = Fifo!Shorter(Len(s), PIPE_SIZE - Len(Queue[f]))
  BY <1>5, FifoShorter DEF Stored
<1>7. reply' = <<"write", Len(s) <= PIPE_SIZE - Len(Queue[f])>>
  <2>1. (Stored(f, s) = Len(s)) <=> (Len(s) <= PIPE_SIZE - count[f])
    BY <1>1, LenProperties DEF Stored, Lesser, TypeOK
  <2>2. reply' = <<"write", Stored(f, s) = Len(s)>>
    BY DEF ipc_pipe_write
  <2>3. (Stored(f, s) = Len(s)) = (Len(s) <= PIPE_SIZE - count[f])
    BY <2>1
  <2> QED BY <1>5, <2>2, <2>3
<1>8. f \in Live /\ Live' = Live
  BY <1>1 DEF Live
<1>9. Queue' = [Queue EXCEPT ![f] =
                  @ \o SubSeq(s, 1, Fifo!Shorter(Len(s), PIPE_SIZE - Len(Queue[f])))]
  BY <1>2, <1>4, <1>5, <1>6
<1> QED BY <1>7, <1>8, <1>9 DEF Fifo!Write, Live, Queue

(* A read of the ring is a read of the channel.                            *)
LEMMA RefineRead ==
  ASSUME TypeOK, NEW f \in AnyFd, NEW m \in Sizes, ipc_pipe_read(f, m)
  PROVE  Fifo!Read(f, m)
<1>1. f \in Fd /\ active[f] /\ m \in Nat /\ active' = active
  BY CallsAssumption DEF ipc_pipe_read, Open
<1>2. /\ reply' = <<"read", SubSeq(Contents(f), 1, Fetched(f, m))>>
      /\ Contents(f)' = SubSeq(Contents(f), Fetched(f, m) + 1, Len(Contents(f)))
  BY <1>1, ReadTakes
<1>3. ASSUME NEW g \in Fd \ {f} PROVE Contents(g)' = Contents(g)
  <2>1. data'[g] = data[g] /\ head'[g] = head[g] /\ count'[g] = count[g]
    BY <1>1 DEF ipc_pipe_read, TypeOK
  <2> QED BY <2>1, ContentsLocal
<1>4. Queue' = [Queue EXCEPT ![f] = Contents(f)']
  BY <1>1, <1>3, PipeOneChanges
<1>5. Queue[f] = Contents(f) /\ Len(Queue[f]) = count[f]
  BY <1>1, ContentsSeq DEF Queue
<1>6. Fetched(f, m) = Fifo!Shorter(m, Len(Queue[f]))
  BY <1>5, FifoShorter DEF Fetched
<1>8. f \in Live /\ Live' = Live
  BY <1>1 DEF Live
<1>9. Queue' = [Queue EXCEPT ![f] =
                  SubSeq(@, Fifo!Shorter(m, Len(Queue[f])) + 1, Len(@))]
  BY <1>2, <1>4, <1>5, <1>6
<1>10. reply' = <<"read", SubSeq(Queue[f], 1, Fifo!Shorter(m, Len(Queue[f])))>>
  BY <1>2, <1>5, <1>6
<1> QED BY <1>8, <1>9, <1>10 DEF Fifo!Read, Live, Queue

(* Creating a pipe opens a channel, or fails with all open.                *)
LEMMA RefineCreate ==
  ASSUME TypeOK, ipc_pipe_create
  PROVE  Fifo!CreateFails \/ \E c \in Fd : Fifo!Create(c)
<1>1. CASE /\ \A f \in Fd : active[f]
           /\ reply' = <<"create", -1>>
           /\ UNCHANGED <<active, data, head, tail, count>>
  <2>1. Live = Fd /\ Live' = Live
    BY <1>1 DEF Live
  <2>2. Queue' = Queue
    BY <1>1 DEF Queue, Contents
  <2> QED BY <1>1, <2>1, <2>2 DEF Fifo!CreateFails, Live, Queue
<1>2. ASSUME NEW f \in Fd,
             /\ FirstFree(f)
             /\ active' = [active EXCEPT ![f] = TRUE]
             /\ head' = [head EXCEPT ![f] = 0]
             /\ tail' = [tail EXCEPT ![f] = 0]
             /\ count' = [count EXCEPT ![f] = 0]
             /\ reply' = <<"create", f>>
             /\ UNCHANGED data
      PROVE  Fifo!Create(f)
  <2>1. f \notin Live /\ Live' = Live \cup {f}
    BY <1>2 DEF Live, FirstFree, TypeOK
  <2>2. count'[f] = 0 /\ active'[f]
    BY <1>2 DEF TypeOK
  <2>3. Contents(f)' = << >>
    BY <2>2 DEF Contents
  <2>4. ASSUME NEW g \in Fd \ {f}
        PROVE  Contents(g)' = Contents(g) /\ active'[g] = active[g]
    <3>1. data'[g] = data[g] /\ head'[g] = head[g] /\ count'[g] = count[g]
      BY <1>2 DEF TypeOK
    <3> QED BY <1>2, <3>1, ContentsLocal DEF TypeOK
  <2>5. Queue' = [Queue EXCEPT ![f] = << >>]
    BY <2>2, <2>3, <2>4 DEF Queue
  <2> QED BY <1>2, <2>1, <2>5 DEF Fifo!Create, Live, Queue
<1> QED BY <1>1, <1>2 DEF ipc_pipe_create, Cleared

(* Closing a pipe closes its channel.                                      *)
LEMMA RefineClose ==
  ASSUME TypeOK, NEW f \in AnyFd, ipc_pipe_close(f)
  PROVE  f \in Fd /\ Fifo!Close(f)
<1>1. /\ f \in Fd /\ active' = [active EXCEPT ![f] = FALSE]
      /\ reply' = <<"close", TRUE>> /\ UNCHANGED <<data, head, tail, count>>
  BY DEF ipc_pipe_close
<1>2. Live' = Live \ {f}
  BY <1>1 DEF Live, TypeOK
<1>3. \A g \in Fd : Contents(g)' = Contents(g)
  BY <1>1, ContentsLocal
<1>4. Queue' = [Queue EXCEPT ![f] = << >>]
  BY <1>1, <1>3 DEF Queue, TypeOK
<1> QED BY <1>1, <1>2, <1>4 DEF Fifo!Close, Live, Queue

(* A refused call is refused there too.                                    *)
LEMMA RefineRefuses ==
  ASSUME TypeOK, NEW f \in AnyFd, PipeRefuses(f)
  PROVE  Fifo!Refused(f)
<1>1. Live' = Live /\ Queue' = Queue
  BY DEF PipeRefuses, Live, Queue, Contents
<1>2. Open(f) <=> f \in Live
  BY DEF Open, Live
<1> QED BY <1>1, <1>2 DEF PipeRefuses, Fifo!Refused, Live, Queue

(* Every step is one of the abstract channels, or changes nothing of them. *)
LEMMA RefineStep ==
  ASSUME TypeOK, RingConsistent, [Next]_vars
  PROVE  [Fifo!Next]_(Fifo!vars)
<1>1. CASE ipc_pipe_create
  BY <1>1, RefineCreate DEF Fifo!Next
<1>2. ASSUME NEW f \in AnyFd, NEW s \in Bursts, ipc_pipe_write(f, s)
      PROVE  Fifo!Next
  BY <1>2, RefineWrite DEF Fifo!Next, ipc_pipe_write, Open
<1>3. ASSUME NEW f \in AnyFd, NEW m \in Sizes, ipc_pipe_read(f, m)
      PROVE  Fifo!Next
  BY <1>3, RefineRead DEF Fifo!Next, ipc_pipe_read, Open
<1>4. ASSUME NEW f \in AnyFd, ipc_pipe_close(f)
      PROVE  Fifo!Next
  BY <1>4, RefineClose DEF Fifo!Next
<1>5. ASSUME NEW f \in AnyFd, PipeRefuses(f)
      PROVE  Fifo!Next
  BY <1>5, RefineRefuses DEF Fifo!Next
<1>6. CASE UNCHANGED vars
  BY <1>6 DEF vars, Fifo!vars, Contents
<1> QED BY <1>1, <1>2, <1>3, <1>4, <1>5, <1>6 DEF Next

(* A pipe implements the bounded FIFO, for every table size, ring size,    *)
(* counter width and alphabet.                                             *)
THEOREM PipeRefinesFifo == Spec => PipeIsFifo
<1>1. TypeOK /\ RingConsistent /\ [Next]_vars => [Fifo!Next]_(Fifo!vars)
  BY RefineStep
<1> QED
  BY <1>1, RefineInit, PipeTypeCorrect, PipeCountersAgree, PTL
     DEF Spec, Fifo!Spec, PipeIsFifo

-----------------------------------------------------------------------------
(* The message queues.                                                     *)

(* What a cell may hold.                                                   *)
QueueStored == Q!Sent \cup {Q!NoMessage}

QueueTyped == /\ qActive \in [Q!Qid -> BOOLEAN]
              /\ messages \in [Q!Qid -> [Q!Cell -> QueueStored]]
              /\ qHead \in [Q!Qid -> 0 .. WIDTH - 1]
              /\ qTail \in [Q!Qid -> 0 .. WIDTH - 1]
              /\ qCount \in [Q!Qid -> 0 .. MSG_MAX]

(* The tail is count cells after the head, through every wrap.             *)
QueueInv == QueueTyped /\ \A k \in Q!Qid : qTail[k] = (qHead[k] + qCount[k]) % WIDTH

-----------------------------------------------------------------------------
(* A counter reduced modulo the size is a cell of the ring.                *)
LEMMA QueueIndexInRing ==
  ASSUME Q!QueueAssumption, NEW x \in Int
  PROVE  Q!Index(x) \in Q!Cell
BY ModRange DEF Q!QueueAssumption, Q!Index, Q!Cell

(* The wrap of the 32-bit counter is invisible in the ring.                *)
LEMMA QueueIndexOfWrapped ==
  ASSUME Q!QueueAssumption, NEW x \in Int, NEW y \in Int
  PROVE  Q!Index((x % WIDTH) + y) = Q!Index(x + y)
<1>1. /\ WIDTH \in Nat \ {0} /\ MSG_MAX \in Nat \ {0} /\ WIDTH % MSG_MAX = 0
  BY DEF Q!QueueAssumption
<1> DEFINE w == x % WIDTH
<1>2. w \in Int /\ x + y \in Int
  <2>1. w \in 0 .. WIDTH - 1
    BY <1>1, ModRange
  <2> QED BY <2>1
<1>3. w % MSG_MAX = x % MSG_MAX
  BY <1>1, ModOfMod
<1> HIDE DEF w
<1>4. ((w % MSG_MAX) + y) % MSG_MAX = (w + y) % MSG_MAX
  BY <1>1, <1>2, ModPlus
<1>5. ((x % MSG_MAX) + y) % MSG_MAX = (x + y) % MSG_MAX
  BY <1>1, ModPlus
<1> QED BY <1>3, <1>4, <1>5 DEF Q!Index, w

(* Less than a turn apart, two cells are different.                        *)
LEMMA QueueIndexInjective ==
  ASSUME Q!QueueAssumption, NEW x \in Int, NEW y \in Int,
         x < y, y < x + MSG_MAX
  PROVE  Q!Index(x) # Q!Index(y)
<1>1. MSG_MAX \in Nat \ {0} /\ x <= y
  BY DEF Q!QueueAssumption
<1>2. ASSUME x % MSG_MAX = y % MSG_MAX PROVE FALSE
  <2>1. x = y
    BY <1>1, <1>2, ModInjective
  <2> QED BY <2>1
<1> QED BY <1>2 DEF Q!Index

(* Append as a function on the places.                                     *)
LEMMA QueueAppendIs ==
  ASSUME NEW S, NEW s \in Seq(S), NEW x
  PROVE  Append(s, x) = [i \in 1 .. Len(s) + 1 |-> IF i <= Len(s) THEN s[i] ELSE x]
<1> DEFINE n == Len(s)
           a == Append(s, x)
<1>1. s \in Seq(S \cup {x}) /\ x \in S \cup {x} /\ n \in Nat
  OBVIOUS
<1>2. /\ a \in Seq(S \cup {x}) /\ Len(a) = n + 1
      /\ \A i \in 1 .. n : a[i] = s[i]
      /\ a[n + 1] = x
  BY <1>1, AppendProperties
<1> HIDE DEF a, n
<1>3. a = [i \in 1 .. n + 1 |-> a[i]]
  BY <1>2
<1>4. ASSUME NEW i \in 1 .. n + 1 PROVE a[i] = IF i <= n THEN s[i] ELSE x
  BY <1>1, <1>2
<1>5. a = [i \in 1 .. n + 1 |-> IF i <= n THEN s[i] ELSE x]
  BY <1>3, <1>4, Zenon
<1> QED BY <1>5 DEF a, n

(* What a queue stands for is a sequence of messages.                      *)
LEMMA QueueContentsSeq ==
  ASSUME Q!QueueAssumption, QueueTyped, NEW k \in Q!Qid
  PROVE  /\ Q!Contents(k) \in Seq(QueueStored)
         /\ Len(Q!Contents(k)) = qCount[k]
         /\ \A i \in 1 .. qCount[k] :
              Q!Contents(k)[i] = messages[k][Q!Index(qHead[k] + i - 1)]
<1>1. qCount[k] \in Nat /\ qHead[k] \in Int
  BY DEF Q!QueueAssumption, QueueTyped
<1>2. ASSUME NEW i \in 1 .. qCount[k]
      PROVE  messages[k][Q!Index(qHead[k] + i - 1)] \in QueueStored
  <2> DEFINE x == qHead[k] + i - 1
  <2>1. x \in Int
    BY <1>1
  <2> HIDE DEF x
  <2>2. Q!Index(x) \in Q!Cell
    BY <2>1, QueueIndexInRing
  <2>3. messages[k][Q!Index(x)] \in QueueStored
    BY <2>2 DEF QueueTyped
  <2> QED BY <2>3 DEF x
<1> DEFINE item(i) == messages[k][Q!Index(qHead[k] + i - 1)]
           u == [i \in 1 .. qCount[k] |-> item(i)]
<1>3. \A i \in 1 .. qCount[k] : item(i) \in QueueStored
  BY <1>2
<1> HIDE DEF item
<1>4. u \in Seq(QueueStored) /\ Len(u) = qCount[k] /\ \A i \in 1 .. qCount[k] : u[i] = item(i)
  BY <1>1, <1>3
<1> QED BY <1>4 DEF Q!Contents, item

-----------------------------------------------------------------------------
(* A send fills the cell at the tail.                                      *)
LEMMA QueueSendStores ==
  ASSUME Q!QueueAssumption, QueueInv, NEW k \in Q!Qid, NEW t \in Type, NEW body \in Payloads,
         Q!ipc_queue_send(k, t, body), ~Q!Full(k)
  PROVE  /\ qCount[k] \in 0 .. MSG_MAX - 1
         /\ messages' = [messages EXCEPT ![k][Q!Index(qTail[k])] = Q!Message(t, body)]
         /\ qTail' = [qTail EXCEPT ![k] = (@ + 1) % WIDTH]
         /\ qCount' = [qCount EXCEPT ![k] = @ + 1]
         /\ qReply' = <<"write", TRUE>>
         /\ UNCHANGED <<qActive, qHead>>
<1>1. qCount[k] \in 0 .. MSG_MAX - 1
  BY DEF Q!Full, QueueInv, QueueTyped, Q!QueueAssumption
<1> QED BY <1>1 DEF Q!ipc_queue_send

(* A send keeps the invariant.                                             *)
LEMMA QueueSendKeepsInv ==
  ASSUME Q!QueueAssumption, QueueInv, NEW k \in Q!Qid, NEW t \in Type, NEW body \in Payloads,
         Q!ipc_queue_send(k, t, body), ~Q!Full(k)
  PROVE  QueueInv'
<1>0. /\ WIDTH \in Nat \ {0} /\ MSG_MAX \in Nat \ {0}
      /\ qTail[k] \in 0 .. WIDTH - 1 /\ qHead[k] \in 0 .. WIDTH - 1
      /\ qTail[k] = (qHead[k] + qCount[k]) % WIDTH
  BY DEF Q!QueueAssumption, QueueInv, QueueTyped
<1>1. /\ qCount[k] \in 0 .. MSG_MAX - 1
      /\ messages' = [messages EXCEPT ![k][Q!Index(qTail[k])] = Q!Message(t, body)]
      /\ qTail' = [qTail EXCEPT ![k] = (@ + 1) % WIDTH]
      /\ qCount' = [qCount EXCEPT ![k] = @ + 1]
      /\ UNCHANGED <<qActive, qHead>>
  <2> HIDE DEF Q!Message, Q!Index
  <2>1. messages' = [messages EXCEPT ![k][Q!Index(qTail[k])] = Q!Message(t, body)]
    BY QueueSendStores
  <2>2. /\ qCount[k] \in 0 .. MSG_MAX - 1
        /\ qTail' = [qTail EXCEPT ![k] = (@ + 1) % WIDTH]
        /\ qCount' = [qCount EXCEPT ![k] = @ + 1]
        /\ UNCHANGED <<qActive, qHead>>
    BY QueueSendStores
  <2> QED BY <2>1, <2>2, Zenon
<1>2. Q!Message(t, body) \in QueueStored
  BY DEF QueueStored, Q!Sent
<1>3. Q!Index(qTail[k]) \in Q!Cell
  BY <1>0, QueueIndexInRing
<1>4. messages' \in [Q!Qid -> [Q!Cell -> QueueStored]]
  BY <1>1, <1>2, <1>3 DEF QueueInv, QueueTyped
<1>5. (qTail[k] + 1) % WIDTH \in 0 .. WIDTH - 1
  <2>1. qTail[k] + 1 \in Int
    BY <1>0
  <2> QED BY <1>0, <2>1, ModRange
<1>6. qTail' \in [Q!Qid -> 0 .. WIDTH - 1]
  BY <1>1, <1>5 DEF QueueInv, QueueTyped
<1>7. qCount' \in [Q!Qid -> 0 .. MSG_MAX]
  BY <1>0, <1>1 DEF QueueInv, QueueTyped
<1>8. (qTail[k] + 1) % WIDTH = (qHead[k] + (qCount[k] + 1)) % WIDTH
  <2> DEFINE x == qHead[k] + qCount[k]
             y == 1
  <2>1. x \in Int /\ y \in Int /\ x + y = qHead[k] + (qCount[k] + 1)
    BY <1>0, <1>1
  <2>2. qTail[k] = x % WIDTH /\ qTail[k] + y = qTail[k] + 1
    BY <1>0
  <2> HIDE DEF x, y
  <2>3. ((x % WIDTH) + y) % WIDTH = (x + y) % WIDTH
    BY <1>0, <2>1, ModPlus
  <2> QED BY <2>1, <2>2, <2>3, Zenon
<1>9. ASSUME NEW g \in Q!Qid PROVE qTail'[g] = (qHead'[g] + qCount'[g]) % WIDTH
  <2>1. CASE g = k
    BY <1>1, <1>8, <2>1 DEF QueueInv, QueueTyped
  <2>2. CASE g # k
    BY <1>1, <2>2 DEF QueueInv, QueueTyped
  <2> QED BY <2>1, <2>2
<1> QED BY <1>1, <1>4, <1>6, <1>7, <1>9 DEF QueueInv, QueueTyped

(* A receive keeps the invariant.                                          *)
LEMMA QueueRecvKeepsInv ==
  ASSUME Q!QueueAssumption, QueueInv, NEW k \in Q!Qid, Q!ipc_queue_recv(k), qCount[k] # 0
  PROVE  QueueInv'
<1>0. /\ WIDTH \in Nat \ {0} /\ MSG_MAX \in Nat \ {0}
      /\ qHead[k] \in 0 .. WIDTH - 1 /\ qCount[k] \in 1 .. MSG_MAX
      /\ qTail[k] = (qHead[k] + qCount[k]) % WIDTH
  BY DEF Q!QueueAssumption, QueueInv, QueueTyped
<1>1. /\ qHead' = [qHead EXCEPT ![k] = (@ + 1) % WIDTH]
      /\ qCount' = [qCount EXCEPT ![k] = @ - 1]
      /\ UNCHANGED <<qActive, messages, qTail>>
  BY DEF Q!ipc_queue_recv
<1>2. (qHead[k] + 1) % WIDTH \in 0 .. WIDTH - 1
  <2>1. qHead[k] + 1 \in Int
    BY <1>0
  <2> QED BY <1>0, <2>1, ModRange
<1>3. qHead' \in [Q!Qid -> 0 .. WIDTH - 1]
  BY <1>1, <1>2 DEF QueueInv, QueueTyped
<1>4. qCount' \in [Q!Qid -> 0 .. MSG_MAX]
  BY <1>0, <1>1 DEF QueueInv, QueueTyped
<1>5. (((qHead[k] + 1) % WIDTH) + (qCount[k] - 1)) % WIDTH = qTail[k]
  <2> DEFINE x == qHead[k] + 1
             y == qCount[k] - 1
  <2>1. x \in Int /\ y \in Int /\ x + y = qHead[k] + qCount[k]
    BY <1>0
  <2> HIDE DEF x, y
  <2>2. ((x % WIDTH) + y) % WIDTH = (x + y) % WIDTH
    BY <1>0, <2>1, ModPlus
  <2> QED BY <1>0, <2>1, <2>2 DEF x, y
<1>6. ASSUME NEW g \in Q!Qid PROVE qTail'[g] = (qHead'[g] + qCount'[g]) % WIDTH
  <2>1. CASE g = k
    BY <1>1, <1>5, <2>1 DEF QueueInv, QueueTyped
  <2>2. CASE g # k
    BY <1>1, <2>2 DEF QueueInv, QueueTyped
  <2> QED BY <2>1, <2>2
<1> QED BY <1>1, <1>3, <1>4, <1>6 DEF QueueInv, QueueTyped

(* Creating a queue keeps the invariant.                                   *)
LEMMA QueueCreateKeepsInv ==
  ASSUME Q!QueueAssumption, QueueInv, NEW k \in Q!Qid,
         qActive' = [qActive EXCEPT ![k] = TRUE],
         qHead' = [qHead EXCEPT ![k] = 0],
         qTail' = [qTail EXCEPT ![k] = 0],
         qCount' = [qCount EXCEPT ![k] = 0],
         UNCHANGED messages
  PROVE  QueueInv'
<1>1. /\ WIDTH \in Nat \ {0} /\ MSG_MAX \in Nat \ {0}
      /\ 0 \in 0 .. WIDTH - 1 /\ 0 \in 0 .. MSG_MAX /\ (0 + 0) % WIDTH = 0
  BY DEF Q!QueueAssumption
<1>2. QueueTyped'
  BY <1>1 DEF QueueInv, QueueTyped
<1>3. ASSUME NEW g \in Q!Qid PROVE qTail'[g] = (qHead'[g] + qCount'[g]) % WIDTH
  <2>1. CASE g = k
    <3>1. qTail'[g] = 0 /\ qHead'[g] = 0 /\ qCount'[g] = 0
      BY <2>1 DEF QueueInv, QueueTyped
    <3> QED BY <1>1, <3>1
  <2>2. CASE g # k
    BY <2>2 DEF QueueInv, QueueTyped
  <2> QED BY <2>1, <2>2
<1> QED BY <1>2, <1>3 DEF QueueInv

(* The table starts in the invariant.                                      *)
LEMMA QueueInvInit ==
  ASSUME Q!QueueAssumption, Q!Init
  PROVE  QueueInv
<1>1. /\ WIDTH \in Nat \ {0} /\ MSG_MAX \in Nat \ {0}
      /\ 0 \in 0 .. WIDTH - 1 /\ 0 \in 0 .. MSG_MAX /\ (0 + 0) % WIDTH = 0
  BY DEF Q!QueueAssumption
<1>2. Q!NoMessage \in QueueStored
  BY DEF QueueStored
<1>3. QueueTyped
  BY <1>1, <1>2 DEF Q!Init, QueueTyped
<1> QED BY <1>1, <1>3 DEF Q!Init, QueueInv

(* Every call keeps the invariant.                                         *)
LEMMA QueueInvStep ==
  ASSUME Q!QueueAssumption, QueueInv, [Q!Next]_(Q!vars)
  PROVE  QueueInv'
<1>1. CASE UNCHANGED <<qActive, messages, qHead, qTail, qCount>>
  BY <1>1 DEF QueueInv, QueueTyped
<1>2. CASE Q!ipc_queue_create
  <2>1. PICK k \in Q!Qid : \/ /\ qActive' = [qActive EXCEPT ![k] = TRUE]
                              /\ qHead' = [qHead EXCEPT ![k] = 0]
                              /\ qTail' = [qTail EXCEPT ![k] = 0]
                              /\ qCount' = [qCount EXCEPT ![k] = 0]
                              /\ UNCHANGED messages
                           \/ UNCHANGED <<qActive, messages, qHead, qTail, qCount>>
    <3>1. 0 \in Q!Qid
      BY DEF Q!Qid, Q!QueueAssumption
    <3> QED BY <1>2, <3>1 DEF Q!ipc_queue_create
  <2> QED BY <1>1, <2>1, QueueCreateKeepsInv
<1>3. ASSUME NEW k \in Q!AnyQid, NEW t \in Type, NEW body \in Payloads,
             Q!ipc_queue_send(k, t, body)
      PROVE  QueueInv'
  <2>1. k \in Q!Qid
    BY <1>3 DEF Q!ipc_queue_send, Q!Open
  <2>2. CASE Q!Full(k)
    BY <1>1, <1>3, <2>2 DEF Q!ipc_queue_send
  <2>3. CASE ~Q!Full(k)
    BY <1>3, <2>1, <2>3, QueueSendKeepsInv
  <2> QED BY <2>2, <2>3
<1>4. ASSUME NEW k \in Q!AnyQid, Q!ipc_queue_recv(k) PROVE QueueInv'
  <2>1. k \in Q!Qid
    BY <1>4 DEF Q!ipc_queue_recv, Q!Open
  <2>2. CASE qCount[k] = 0
    BY <1>1, <1>4, <2>2 DEF Q!ipc_queue_recv
  <2>3. CASE qCount[k] # 0
    BY <1>4, <2>1, <2>3, QueueRecvKeepsInv
  <2> QED BY <2>2, <2>3
<1>5. ASSUME NEW k \in Q!AnyQid, Q!ipc_queue_destroy(k) PROVE QueueInv'
  BY <1>5 DEF Q!ipc_queue_destroy, QueueInv, QueueTyped
<1>6. ASSUME NEW k \in Q!AnyQid, Q!QueueRefuses(k) PROVE QueueInv'
  BY <1>1, <1>6 DEF Q!QueueRefuses
<1>7. CASE UNCHANGED Q!vars
  BY <1>1, <1>7 DEF Q!vars
<1> QED BY <1>2, <1>3, <1>4, <1>5, <1>6, <1>7 DEF Q!Next

-----------------------------------------------------------------------------
(* A send that finds room appends its message to the contents.             *)
LEMMA QueueSendAppends ==
  ASSUME Q!QueueAssumption, QueueInv, NEW k \in Q!Qid, NEW t \in Type, NEW body \in Payloads,
         Q!ipc_queue_send(k, t, body), ~Q!Full(k)
  PROVE  Q!Contents(k)' = Append(Q!Contents(k), Q!Message(t, body))
<1> DEFINE c == qCount[k]
           h == qHead[k]
           m == Q!Message(t, body)
           u == Q!Contents(k)
           at(i) == Q!Index(h + i - 1)
           row == messages[k]
           new == [row EXCEPT ![at(c + 1)] = m]
<1>1. /\ WIDTH \in Nat \ {0} /\ MSG_MAX \in Nat \ {0}
      /\ h \in Int /\ c \in 0 .. MSG_MAX - 1
      /\ qTail[k] = (h + c) % WIDTH
      /\ row \in [Q!Cell -> QueueStored]
  <2>1. c \in 0 .. MSG_MAX - 1
    BY QueueSendStores
  <2> QED BY <2>1 DEF Q!QueueAssumption, QueueInv, QueueTyped
<1>2. Q!Index(qTail[k]) = at(c + 1)
  <2> DEFINE x == h + c
             y == 0
  <2>1. x \in Int /\ y \in Int /\ x + y = h + (c + 1) - 1
    BY <1>1
  <2>2. qTail[k] = x % WIDTH /\ qTail[k] + y = qTail[k]
    <3>1. qTail[k] \in Int
      BY DEF QueueInv, QueueTyped
    <3> QED BY <1>1, <3>1
  <2> HIDE DEF x, y
  <2>3. Q!Index((x % WIDTH) + y) = Q!Index(x + y)
    BY <2>1, QueueIndexOfWrapped
  <2> QED BY <2>1, <2>2, <2>3, Zenon
<1>3. ASSUME NEW i \in 1 .. c + 1 PROVE at(i) \in Q!Cell
  <2> DEFINE x == h + i - 1
  <2>1. x \in Int
    BY <1>1
  <2> HIDE DEF x
  <2>2. Q!Index(x) \in Q!Cell
    BY <2>1, QueueIndexInRing
  <2> QED BY <2>2 DEF x
<1>4. ASSUME NEW i \in 1 .. c PROVE at(i) # at(c + 1)
  <2> DEFINE x == h + i - 1
             y == h + (c + 1) - 1
  <2>1. x \in Int /\ y \in Int /\ x < y /\ y < x + MSG_MAX
    BY <1>1
  <2> HIDE DEF x, y
  <2>2. Q!Index(x) # Q!Index(y)
    BY <2>1, QueueIndexInjective
  <2> QED BY <2>2 DEF x, y
<1>5. messages'[k] = new /\ qHead'[k] = h /\ qCount'[k] = c + 1
  <2>1. /\ messages' = [messages EXCEPT ![k][Q!Index(qTail[k])] = Q!Message(t, body)]
        /\ qCount' = [qCount EXCEPT ![k] = @ + 1]
        /\ UNCHANGED <<qActive, qHead>>
    BY DEF Q!ipc_queue_send
  <2>2. messages'[k] = [row EXCEPT ![Q!Index(qTail[k])] = m]
    <3> HIDE DEF m
    <3>1. messages' = [messages EXCEPT ![k][Q!Index(qTail[k])] = m]
      BY <2>1 DEF m
    <3>2. messages \in [Q!Qid -> [Q!Cell -> QueueStored]]
      BY DEF QueueInv, QueueTyped
    <3> QED BY <3>1, <3>2
  <2> QED BY <1>2, <2>1, <2>2 DEF QueueInv, QueueTyped
<1>6. /\ u \in Seq(QueueStored) /\ Len(u) = c
      /\ \A i \in 1 .. c : u[i] = row[at(i)]
      /\ u = [i \in 1 .. c |-> row[at(i)]]
  BY QueueContentsSeq DEF QueueInv, Q!Contents
<1>7. Q!Contents(k)' = [i \in 1 .. c + 1 |-> new[at(i)]]
  BY <1>5 DEF Q!Contents
<1>8. ASSUME NEW i \in 1 .. c + 1
      PROVE  new[at(i)] = IF i <= c THEN u[i] ELSE m
  <2> HIDE DEF at, u, m
  <2>1. CASE i \in 1 .. c
    <3>1. new[at(i)] = row[at(i)]
      BY <1>1, <1>3, <1>4, <2>1
    <3> QED BY <1>1, <1>6, <2>1, <3>1
  <2>2. CASE i = c + 1
    <3>1. new[at(i)] = m
      BY <1>1, <1>3, <2>2
    <3> QED BY <1>1, <2>2, <3>1
  <2> QED BY <1>1, <2>1, <2>2
<1> HIDE DEF c, h, m, u, at, row, new
<1>9. Append(u, m) = [i \in 1 .. c + 1 |-> IF i <= c THEN u[i] ELSE m]
  <2>1. Append(u, m) = [i \in 1 .. Len(u) + 1 |-> IF i <= Len(u) THEN u[i] ELSE m]
    BY <1>6, QueueAppendIs
  <2> QED BY <1>6, <2>1, Zenon
<1>10. Q!Contents(k)' = Append(u, m)
  BY <1>7, <1>8, <1>9
<1> QED BY <1>10 DEF u, m

(* A receive takes the oldest message.                                     *)
LEMMA QueueRecvTakes ==
  ASSUME Q!QueueAssumption, QueueInv, NEW k \in Q!Qid, Q!ipc_queue_recv(k), qCount[k] # 0
  PROVE  /\ Len(Q!Contents(k)) >= 1
         /\ qReply' = <<"read", <<Q!Contents(k)[1]>> >>
         /\ Q!Contents(k)' = SubSeq(Q!Contents(k), 2, Len(Q!Contents(k)))
<1> DEFINE c == qCount[k]
           h == qHead[k]
           u == Q!Contents(k)
           at(i) == Q!Index(h + i - 1)
           row == messages[k]
<1>1. /\ WIDTH \in Nat \ {0} /\ MSG_MAX \in Nat \ {0}
      /\ h \in Int /\ c \in 1 .. MSG_MAX
  BY DEF Q!QueueAssumption, QueueInv, QueueTyped
<1>2. /\ qReply' = <<"read", <<row[Q!Index(h)]>> >>
      /\ qHead'[k] = (h + 1) % WIDTH /\ qCount'[k] = c - 1 /\ messages'[k] = row
  BY DEF Q!ipc_queue_recv, QueueInv, QueueTyped
<1>3. /\ u \in Seq(QueueStored) /\ Len(u) = c
      /\ \A i \in 1 .. c : u[i] = row[at(i)]
  BY QueueContentsSeq DEF QueueInv
<1>4. ASSUME NEW i \in 1 .. c - 1
      PROVE  Q!Index(((h + 1) % WIDTH) + i - 1) = at(i + 1)
  <2> DEFINE x == h + 1
             y == i - 1
             w == x % WIDTH
  <2>1. x \in Int /\ y \in Int /\ x + y = h + (i + 1) - 1
    BY <1>1
  <2>2. w \in 0 .. WIDTH - 1
    <3> HIDE DEF x
    <3> QED BY <1>1, <2>1, ModRange
  <2>3. w + y = w + i - 1
    BY <2>2
  <2> HIDE DEF x, y
  <2>4. Q!Index((x % WIDTH) + y) = Q!Index(x + y)
    BY <2>1, QueueIndexOfWrapped
  <2>5. Q!Index(w + i - 1) = Q!Index(h + (i + 1) - 1)
    BY <2>1, <2>3, <2>4, Zenon
  <2> QED BY <2>5 DEF x
<1>5. Q!Contents(k)' = [i \in 1 .. c - 1 |-> row[Q!Index(((h + 1) % WIDTH) + i - 1)]]
  BY <1>2 DEF Q!Contents
<1>6. at(1) = Q!Index(h)
  <2>1. h + 1 - 1 = h
    BY <1>1
  <2> QED BY <2>1
<1> HIDE DEF c, h, u, at, row
<1>7. Q!Contents(k)' = [i \in 1 .. c - 1 |-> u[i + 1]]
  <2>1. ASSUME NEW i \in 1 .. c - 1
        PROVE  row[Q!Index(((h + 1) % WIDTH) + i - 1)] = u[i + 1]
    <3>1. i + 1 \in 1 .. c
      BY <1>1
    <3>2. u[i + 1] = row[at(i + 1)]
      BY <1>3, <3>1
    <3> QED BY <1>4, <3>2
  <2> QED BY <1>5, <2>1
<1>8. SubSeq(u, 2, Len(u)) = [i \in 1 .. c - 1 |-> u[i + 1]]
  BY <1>1, <1>3
<1>9. u[1] = row[Q!Index(h)]
  BY <1>1, <1>3, <1>6
<1> QED BY <1>1, <1>2, <1>3, <1>7, <1>8, <1>9 DEF u

-----------------------------------------------------------------------------
(* What the queues in use and their contents are to the abstract FIFO.     *)
QueueLive == {k \in Q!Qid : qActive[k]}

QueueOf == [k \in Q!Qid |-> IF qActive[k] THEN Q!Contents(k) ELSE << >>]

(* A queue's contents depend on its own fields only.                       *)
LEMMA QueueContentsLocal ==
  ASSUME NEW g \in Q!Qid, messages'[g] = messages[g], qHead'[g] = qHead[g],
         qCount'[g] = qCount[g]
  PROVE  Q!Contents(g)' = Q!Contents(g)
BY DEF Q!Contents

(* An operation on the queue k changes what k stands for and no other.     *)
LEMMA QueueOneChanges ==
  ASSUME NEW k \in Q!Qid, qActive[k], qActive' = qActive,
         \A g \in Q!Qid \ {k} : Q!Contents(g)' = Q!Contents(g)
  PROVE  /\ QueueOf' = [QueueOf EXCEPT ![k] = Q!Contents(k)']
         /\ QueueLive' = QueueLive /\ k \in QueueLive
         /\ QueueOf[k] = Q!Contents(k)
BY DEF QueueOf, QueueLive

(* The table starts as the abstract channels do.                           *)
LEMMA QueueRefineInit ==
  ASSUME Q!Init
  PROVE  Q!Fifo!Init
<1>1. QueueLive = {} /\ QueueOf = [k \in Q!Qid |-> << >>]
  BY DEF Q!Init, QueueLive, QueueOf
<1> QED BY <1>1 DEF Q!Init, Q!Fifo!Init, QueueLive, QueueOf

(* The first of a sequence, as a sequence.                                 *)
LEMMA QueueFirstOnly ==
  ASSUME NEW S, NEW s \in Seq(S), Len(s) >= 1
  PROVE  SubSeq(s, 1, 1) = <<s[1]>>
<1> DEFINE t == SubSeq(s, 1, 1)
<1>1. Len(t) = 1 /\ t[1] = s[1] /\ t \in Seq(S)
  OBVIOUS
<1>2. s[1] \in S /\ <<s[1]>> \in Seq(S) /\ Len(<<s[1]>>) = 1
  OBVIOUS
<1>3. \A i \in 1 .. Len(t) : t[i] = <<s[1]>>[i]
  BY <1>1
<1> HIDE DEF t
<1>4. t = <<s[1]>>
  BY <1>1, <1>2, <1>3, SeqEqual
<1> QED BY <1>4 DEF t


(* A send is a write of one item.                                          *)
LEMMA QueueRefineSend ==
  ASSUME Q!QueueAssumption, QueueInv, NEW k \in Q!Qid, NEW t \in Type, NEW body \in Payloads,
         Q!ipc_queue_send(k, t, body)
  PROVE  Q!Fifo!Write(k, <<Q!Message(t, body)>>)
<1> DEFINE m == Q!Message(t, body)
           room == MSG_MAX - Len(QueueOf[k])
           kept == SubSeq(<<m>>, 1, Q!Fifo!Shorter(Len(<<m>>), room))
<1>1. qActive[k] /\ qActive' = qActive
  BY DEF Q!ipc_queue_send, Q!Open
<1>2. ASSUME NEW g \in Q!Qid \ {k} PROVE Q!Contents(g)' = Q!Contents(g)
  <2>1. messages'[g] = messages[g] /\ qHead'[g] = qHead[g] /\ qCount'[g] = qCount[g]
    BY DEF Q!ipc_queue_send, QueueInv, QueueTyped
  <2> QED BY <2>1, QueueContentsLocal
<1>3. /\ QueueOf' = [QueueOf EXCEPT ![k] = Q!Contents(k)']
      /\ QueueLive' = QueueLive /\ k \in QueueLive
      /\ QueueOf[k] = Q!Contents(k)
  BY <1>1, <1>2, QueueOneChanges
<1>4. /\ Q!Contents(k) \in Seq(QueueStored) /\ Len(Q!Contents(k)) = qCount[k]
      /\ qCount[k] \in 0 .. MSG_MAX /\ MSG_MAX \in Nat \ {0}
  BY QueueContentsSeq DEF QueueInv, QueueTyped, Q!QueueAssumption
<1>5. /\ Q!Contents(k)' = Q!Contents(k) \o kept
      /\ qReply' = <<"write", Len(<<m>>) <= room>>
  <2>1. CASE Q!Full(k)
    <3>1. qCount[k] = MSG_MAX /\ room = 0
      BY <1>3, <1>4, <2>1 DEF Q!Full
    <3>2. kept = << >> /\ (Len(<<m>>) <= room) = FALSE
      BY <3>1 DEF Q!Fifo!Shorter
    <3>3. qReply' = <<"write", FALSE>> /\ UNCHANGED <<messages, qHead, qCount>>
      BY <2>1 DEF Q!ipc_queue_send
    <3>4. Q!Contents(k)' = Q!Contents(k)
      BY <3>3 DEF Q!Contents
    <3>5. Q!Contents(k) \o << >> = Q!Contents(k)
      BY <1>4, ConcatEmptySeq
    <3> HIDE DEF kept, room, m
    <3> QED BY <3>2, <3>3, <3>4, <3>5
  <2>2. CASE ~Q!Full(k)
    <3>1. room >= 1 /\ room \in Nat
      BY <1>3, <1>4, <2>2 DEF Q!Full
    <3> HIDE DEF m, room
    <3>2. Len(<<m>>) = 1 /\ (Len(<<m>>) <= room) = TRUE
      BY <3>1
    <3>3. Q!Fifo!Shorter(Len(<<m>>), room) = 1
      BY <3>1, <3>2 DEF Q!Fifo!Shorter
    <3>4. kept = <<m>>
      <4>1. SubSeq(<<m>>, 1, 1) = << <<m>>[1] >>
        <5>1. <<m>> \in Seq({m})
          OBVIOUS
        <5>2. Len(<<m>>) >= 1
          OBVIOUS
        <5> QED BY <5>1, <5>2, QueueFirstOnly
      <4>2. SubSeq(<<m>>, 1, 1) = <<m>>
        BY <4>1
      <4> QED BY <3>3, <4>2, Zenon
    <3>5. qReply' = <<"write", TRUE>>
      BY <2>2 DEF Q!ipc_queue_send
    <3>6. Q!Contents(k)' = Append(Q!Contents(k), m)
      BY <2>2, QueueSendAppends DEF m
    <3>7. m \in QueueStored
      BY DEF m, QueueStored, Q!Sent
    <3>8. Append(Q!Contents(k), m) = Q!Contents(k) \o <<m>>
      BY <1>4, <3>7, AppendIsConcat
    <3> HIDE DEF kept
    <3> QED BY <3>2, <3>4, <3>5, <3>6, <3>8
  <2> QED BY <2>1, <2>2
<1>6. QueueOf' = [QueueOf EXCEPT ![k] = @ \o kept]
  BY <1>3, <1>5
<1> QED BY <1>3, <1>5, <1>6 DEF Q!Fifo!Write, QueueLive, QueueOf

(* A receive is a read of one item.                                        *)
LEMMA QueueRefineRecv ==
  ASSUME Q!QueueAssumption, QueueInv, NEW k \in Q!Qid, Q!ipc_queue_recv(k)
  PROVE  Q!Fifo!Read(k, 1)
<1> DEFINE n == Q!Fifo!Shorter(1, Len(QueueOf[k]))
<1>1. qActive[k] /\ qActive' = qActive
  BY DEF Q!ipc_queue_recv, Q!Open
<1>2. ASSUME NEW g \in Q!Qid \ {k} PROVE Q!Contents(g)' = Q!Contents(g)
  <2>1. messages'[g] = messages[g] /\ qHead'[g] = qHead[g] /\ qCount'[g] = qCount[g]
    BY DEF Q!ipc_queue_recv, QueueInv, QueueTyped
  <2> QED BY <2>1, QueueContentsLocal
<1>3. /\ QueueOf' = [QueueOf EXCEPT ![k] = Q!Contents(k)']
      /\ QueueLive' = QueueLive /\ k \in QueueLive
      /\ QueueOf[k] = Q!Contents(k)
  BY <1>1, <1>2, QueueOneChanges
<1>4. /\ Q!Contents(k) \in Seq(QueueStored) /\ Len(Q!Contents(k)) = qCount[k]
      /\ qCount[k] \in Nat
  BY QueueContentsSeq DEF QueueInv, QueueTyped, Q!QueueAssumption
<1>5. /\ Q!Contents(k)' = SubSeq(Q!Contents(k), n + 1, Len(Q!Contents(k)))
      /\ qReply' = <<"read", SubSeq(Q!Contents(k), 1, n)>>
  <2>1. CASE qCount[k] = 0
    <3>1. n = 0 /\ Q!Contents(k) = << >>
      BY <1>3, <1>4, <2>1 DEF Q!Fifo!Shorter
    <3>2. qReply' = <<"read", << >> >> /\ UNCHANGED <<messages, qHead, qCount>>
      BY <2>1 DEF Q!ipc_queue_recv
    <3>3. Q!Contents(k)' = Q!Contents(k)
      BY <3>2 DEF Q!Contents
    <3> QED BY <3>1, <3>2, <3>3
  <2>2. CASE qCount[k] # 0
    <3>1. n = 1
      BY <1>3, <1>4, <2>2 DEF Q!Fifo!Shorter
    <3>2. /\ Len(Q!Contents(k)) >= 1
          /\ qReply' = <<"read", <<Q!Contents(k)[1]>> >>
          /\ Q!Contents(k)' = SubSeq(Q!Contents(k), 2, Len(Q!Contents(k)))
      BY <2>2, QueueRecvTakes
    <3>3. SubSeq(Q!Contents(k), 1, 1) = <<Q!Contents(k)[1]>>
      BY <1>4, <3>2, QueueFirstOnly
    <3>4. n + 1 = 2
      BY <3>1
    <3> HIDE DEF n
    <3> QED BY <3>1, <3>2, <3>3, <3>4
  <2> QED BY <2>1, <2>2
<1>6. QueueOf' = [QueueOf EXCEPT ![k] = SubSeq(@, n + 1, Len(@))]
  BY <1>3, <1>5
<1>7. qReply' = <<"read", SubSeq(QueueOf[k], 1, n)>>
  BY <1>3, <1>5
<1> QED BY <1>3, <1>6, <1>7 DEF Q!Fifo!Read, QueueLive, QueueOf

(* Creating a queue opens a channel, or fails with all open.               *)
LEMMA QueueRefineCreate ==
  ASSUME QueueInv, Q!ipc_queue_create
  PROVE  Q!Fifo!CreateFails \/ \E k \in Q!Qid : Q!Fifo!Create(k)
<1>1. CASE /\ \A k \in Q!Qid : qActive[k]
           /\ qReply' = <<"create", -1>>
           /\ UNCHANGED <<qActive, messages, qHead, qTail, qCount>>
  <2>1. QueueLive = Q!Qid /\ QueueLive' = QueueLive
    BY <1>1 DEF QueueLive
  <2>2. QueueOf' = QueueOf
    BY <1>1 DEF QueueOf, Q!Contents
  <2> QED BY <1>1, <2>1, <2>2 DEF Q!Fifo!CreateFails, QueueLive, QueueOf
<1>2. ASSUME NEW k \in Q!Qid,
             /\ Q!FirstFree(k)
             /\ qActive' = [qActive EXCEPT ![k] = TRUE]
             /\ qHead' = [qHead EXCEPT ![k] = 0]
             /\ qTail' = [qTail EXCEPT ![k] = 0]
             /\ qCount' = [qCount EXCEPT ![k] = 0]
             /\ qReply' = <<"create", k>>
             /\ UNCHANGED messages
      PROVE  Q!Fifo!Create(k)
  <2>1. k \notin QueueLive /\ QueueLive' = QueueLive \cup {k}
    BY <1>2 DEF QueueLive, Q!FirstFree, QueueInv, QueueTyped
  <2>2. qCount'[k] = 0 /\ qActive'[k]
    BY <1>2 DEF QueueInv, QueueTyped
  <2>3. Q!Contents(k)' = << >>
    BY <2>2 DEF Q!Contents
  <2>4. ASSUME NEW g \in Q!Qid \ {k}
        PROVE  Q!Contents(g)' = Q!Contents(g) /\ qActive'[g] = qActive[g]
    <3>1. messages'[g] = messages[g] /\ qHead'[g] = qHead[g] /\ qCount'[g] = qCount[g]
      BY <1>2 DEF QueueInv, QueueTyped
    <3> QED BY <1>2, <3>1, QueueContentsLocal DEF QueueInv, QueueTyped
  <2>5. QueueOf' = [QueueOf EXCEPT ![k] = << >>]
    BY <2>2, <2>3, <2>4 DEF QueueOf
  <2> QED BY <1>2, <2>1, <2>5 DEF Q!Fifo!Create, QueueLive, QueueOf
<1> QED BY <1>1, <1>2 DEF Q!ipc_queue_create

(* Destroying a queue closes its channel.                                  *)
LEMMA QueueRefineDestroy ==
  ASSUME QueueInv, NEW k \in Q!AnyQid, Q!ipc_queue_destroy(k)
  PROVE  k \in Q!Qid /\ Q!Fifo!Close(k)
<1>1. /\ k \in Q!Qid /\ qActive' = [qActive EXCEPT ![k] = FALSE]
      /\ qReply' = <<"close", TRUE>> /\ UNCHANGED <<messages, qHead, qTail, qCount>>
  BY DEF Q!ipc_queue_destroy
<1>2. QueueLive' = QueueLive \ {k}
  BY <1>1 DEF QueueLive, QueueInv, QueueTyped
<1>3. \A g \in Q!Qid : Q!Contents(g)' = Q!Contents(g)
  BY <1>1, QueueContentsLocal
<1>4. QueueOf' = [QueueOf EXCEPT ![k] = << >>]
  BY <1>1, <1>3 DEF QueueOf, QueueInv, QueueTyped
<1> QED BY <1>1, <1>2, <1>4 DEF Q!Fifo!Close, QueueLive, QueueOf

(* A refused call is refused there too.                                    *)
LEMMA QueueRefineRefuses ==
  ASSUME NEW k \in Q!AnyQid, Q!QueueRefuses(k)
  PROVE  Q!Fifo!Refused(k)
<1>1. QueueLive' = QueueLive /\ QueueOf' = QueueOf
  BY DEF Q!QueueRefuses, QueueLive, QueueOf, Q!Contents
<1>2. Q!Open(k) <=> k \in QueueLive
  BY DEF Q!Open, QueueLive
<1> QED BY <1>1, <1>2 DEF Q!QueueRefuses, Q!Fifo!Refused, QueueLive, QueueOf

(* Every step is one of the abstract channels, or changes nothing of them. *)
LEMMA QueueRefineStep ==
  ASSUME Q!QueueAssumption, QueueInv, [Q!Next]_(Q!vars)
  PROVE  [Q!Fifo!Next]_(Q!Fifo!vars)
<1>1. CASE Q!ipc_queue_create
  BY <1>1, QueueRefineCreate DEF Q!Fifo!Next
<1>2. ASSUME NEW k \in Q!AnyQid, NEW t \in Type, NEW body \in Payloads,
             Q!ipc_queue_send(k, t, body)
      PROVE  Q!Fifo!Next
  <2>1. k \in Q!Qid
    BY <1>2 DEF Q!ipc_queue_send, Q!Open
  <2>2. <<Q!Message(t, body)>> \in {<<m>> : m \in Q!Sent}
    BY DEF Q!Sent
  <2> QED BY <1>2, <2>1, <2>2, QueueRefineSend DEF Q!Fifo!Next
<1>3. ASSUME NEW k \in Q!AnyQid, Q!ipc_queue_recv(k) PROVE Q!Fifo!Next
  <2>1. k \in Q!Qid
    BY <1>3 DEF Q!ipc_queue_recv, Q!Open
  <2> QED BY <1>3, <2>1, QueueRefineRecv DEF Q!Fifo!Next
<1>4. ASSUME NEW k \in Q!AnyQid, Q!ipc_queue_destroy(k) PROVE Q!Fifo!Next
  BY <1>4, QueueRefineDestroy DEF Q!Fifo!Next
<1>5. ASSUME NEW k \in Q!AnyQid, Q!QueueRefuses(k) PROVE Q!Fifo!Next
  BY <1>5, QueueRefineRefuses DEF Q!Fifo!Next
<1>6. CASE UNCHANGED Q!vars
  BY <1>6 DEF Q!vars, Q!Fifo!vars, Q!Contents
<1> QED BY <1>1, <1>2, <1>3, <1>4, <1>5, <1>6 DEF Q!Next

(* A message queue implements the bounded FIFO.                            *)
LEMMA QueueRefines == Q!QueueAssumption => (Q!Spec => Q!QueueIsFifo)
<1> SUFFICES ASSUME Q!QueueAssumption PROVE Q!Spec => Q!QueueIsFifo
  OBVIOUS
<1>1. Q!Init => QueueInv /\ Q!Fifo!Init
  BY QueueInvInit, QueueRefineInit
<1>2. QueueInv /\ [Q!Next]_(Q!vars) => QueueInv' /\ [Q!Fifo!Next]_(Q!Fifo!vars)
  BY QueueInvStep, QueueRefineStep
<1> QED BY <1>1, <1>2, PTL DEF Q!Spec, Q!Fifo!Spec, Q!QueueIsFifo

(* A call on one table is a stuttering step of the other.                  *)
LEMMA TablesApart == IpcSpec => Spec /\ Q!Spec
<1>1. [IpcNext]_ipcVars => [Next]_vars /\ [Q!Next]_(Q!vars)
  BY DEF IpcNext, ipcVars, queueVars, vars, Q!vars
<1>2. IpcInit => Init /\ Q!Init
  BY DEF IpcInit
<1> QED BY <1>1, <1>2, PTL DEF IpcSpec, Spec, Q!Spec

(* The message queues beside the pipes are bounded FIFOs: what is received *)
(* is what was sent, in order and once, for every table size, ring size,   *)
(* counter width and set of messages.                                      *)
THEOREM QueueRefinesFifo == IpcSpec => QueueIsFifo
BY IpcQueueAssumption, QueueRefines, TablesApart DEF QueueIsFifo
=============================================================================
