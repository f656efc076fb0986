----------------------------- MODULE HeapProofs -----------------------------
(***************************************************************************)
(* What is proved of the users of the kernel's heap, for every size of the *)
(* heap and of its blocks: no two owners share a byte, and a page          *)
(* translates to what it was last mapped to.                               *)
(***************************************************************************)
EXTENDS MCHeap, RingFacts, FiniteSetTheorems, SequenceTheorems, TLAPS

(* No caller asks for so much that malloc's test wraps.                    *)
NoneWraps == \A sz \in Sizes \cup OtherSizes : HEAP_SIZE + sz < WIDTH

(* Rounding up moves an offset forward, and not past a multiple of ALIGN.  *)
LEMMA RoundsUp ==
  ASSUME NEW p \in Nat, p <= HEAP_SIZE, NEW b, b = ((p + ALIGN - 1) \div ALIGN) * ALIGN
  PROVE  b \in Nat /\ p <= b /\ b <= HEAP_SIZE /\ (ALIGN % 4 = 0 => b % 4 = 0)
<1> DEFINE a == p + ALIGN - 1
           d == a \div ALIGN
           r == a % ALIGN
           e == HEAP_SIZE \div ALIGN
<1>1. ALIGN \in Nat \ {0} /\ HEAP_SIZE \in Nat /\ a \in Nat
  BY HeapAssumption
<1>2. a = ALIGN * d + r /\ r \in 0 .. ALIGN - 1 /\ d \in Nat
  BY <1>1
<1>3. HEAP_SIZE = ALIGN * e /\ e \in Nat
  <2>1. HEAP_SIZE = ALIGN * e + (HEAP_SIZE % ALIGN) /\ e \in Nat
    BY <1>1
  <2> QED BY <1>1, <2>1, HeapAssumption
<1>4. b = d * ALIGN
  OBVIOUS
<1> HIDE DEF a, d, r, e
<1>5. a = p + ALIGN - 1
  BY DEF a
<1>6. d * ALIGN = ALIGN * d /\ ALIGN * d \in Nat
  BY <1>1, <1>2
<1>7. p <= d * ALIGN
  BY <1>1, <1>2, <1>5, <1>6
<1>8. d <= e
  <2> SUFFICES ASSUME e < d PROVE FALSE
    BY <1>2, <1>3
  <2>1. e * ALIGN + ALIGN <= d * ALIGN
    BY <1>1, <1>2, <1>3
  <2>2. e * ALIGN = HEAP_SIZE
    BY <1>1, <1>3
  <2>3. HEAP_SIZE + ALIGN <= p + ALIGN - 1
    BY <1>1, <1>2, <1>5, <1>6, <2>1, <2>2
  <2> QED BY <1>1, <2>3
<1>9. d * ALIGN <= HEAP_SIZE
  <2>1. d * ALIGN <= e * ALIGN
    BY <1>1, <1>2, <1>3, <1>8
  <2> QED BY <1>1, <1>3, <2>1
<1>10. ASSUME ALIGN % 4 = 0 PROVE b % 4 = 0
  <2>1. PICK k \in Nat : ALIGN = 4 * k
    BY <1>1, <1>10
  <2>2. PICK m \in Nat : m = d * k
    BY <1>2
  <2>3. b = 4 * m
    BY <1>2, <1>4, <2>1, <2>2
  <2> QED BY <2>3
<1> QED BY <1>4, <1>6, <1>7, <1>9, <1>10

-----------------------------------------------------------------------------
(* The segments of shared memory.                                         *)

Blocks == [at : Nat, len : Nat]

SegmentsTyped == /\ heap_ptr \in Nat
         /\ active \in [S!Id -> BOOLEAN]
         /\ addr \in [S!Id -> Nat \cup {NULL}]
         /\ size \in [S!Id -> Nat]
         /\ blocks \in Seq(Blocks)

(* SegmentsAreBlocks in two parts, without the answer of attach.           *)
Owned(i) == \E k \in 1 .. Len(blocks) : blocks[k] = [at |-> addr[i], len |-> size[i]]
AllOwned == \A i \in S!Id : active[i] => Owned(i)
Distinct == \A i, j \in S!Id :
  active[i] /\ active[j] /\ i # j /\ size[i] > 0 /\ size[j] > 0 => addr[i] # addr[j]

SegmentsInv == SegmentsTyped /\ S!BlocksDisjoint /\ AllOwned /\ Distinct

(* A block that is handed out ends at or below the new offset.             *)
LEMMA AllocateBounds ==
  ASSUME S!ShmemAssumption, NoneWraps, NEW sz \in Sizes,
         heap_ptr \in Nat, heap_ptr <= HEAP_SIZE, S!Allocate(sz)
  PROVE  /\ sz \in Nat /\ heap_ptr' \in Nat
         /\ heap_ptr + sz <= heap_ptr' /\ heap_ptr' <= HEAP_SIZE
<1> DEFINE p == heap_ptr + sz
<1>1. sz \in Nat /\ HEAP_SIZE \in Nat /\ WIDTH \in Nat \ {0} /\ HEAP_SIZE + sz < WIDTH
  BY HeapAssumption DEF S!ShmemAssumption, NoneWraps
<1>2. p \in Nat /\ p < WIDTH
  BY <1>1
<1> HIDE DEF p
<1>3. p % WIDTH = p
  BY <1>1, <1>2
<1>4. p <= HEAP_SIZE /\ heap_ptr' = S!RoundUp(p)
  BY <1>3 DEF S!Allocate, S!Fits, S!Bumped, p
<1>5. S!RoundUp(p) \in Nat /\ p <= S!RoundUp(p) /\ S!RoundUp(p) <= HEAP_SIZE
  BY <1>2, <1>4, RoundsUp DEF S!RoundUp
<1> QED BY <1>1, <1>4, <1>5 DEF p

(* A new block lies behind all others.                                     *)
LEMMA GivenDisjoint ==
  ASSUME S!ShmemAssumption, NoneWraps, NEW sz \in Sizes,
         SegmentsTyped, S!BlocksDisjoint, S!Given(sz)
  PROVE  /\ heap_ptr' \in Nat /\ blocks' \in Seq(Blocks) /\ sz \in Nat
         /\ S!BlocksDisjoint'
         /\ Len(blocks') = Len(blocks) + 1
         /\ \A k \in 1 .. Len(blocks) : blocks'[k] = blocks[k]
         /\ blocks'[Len(blocks) + 1] = [at |-> heap_ptr, len |-> sz]
<1> DEFINE n == Len(blocks)
           new == [at |-> heap_ptr, len |-> sz]
<1>1. /\ sz \in Nat /\ heap_ptr \in Nat /\ heap_ptr' \in Nat
      /\ heap_ptr + sz <= heap_ptr' /\ heap_ptr' <= HEAP_SIZE
  BY AllocateBounds DEF SegmentsTyped, S!BlocksDisjoint, S!Given
<1>2. blocks \in Seq(Blocks) /\ new \in Blocks /\ n \in Nat
  BY <1>1 DEF SegmentsTyped, Blocks
<1>3. blocks' = Append(blocks, new)
  BY DEF S!Given
<1> HIDE DEF new
<1>4. /\ blocks' \in Seq(Blocks) /\ Len(blocks') = n + 1
      /\ \A k \in 1 .. n : blocks'[k] = blocks[k]
      /\ blocks'[n + 1] = new
  BY <1>2, <1>3, AppendProperties
<1>5. new.at = heap_ptr /\ new.len = sz
  BY DEF new
<1>6. \A k \in 1 .. n : /\ blocks[k].at \in Nat /\ blocks[k].len \in Nat
                        /\ blocks[k].at + blocks[k].len <= heap_ptr
  <2> TAKE k \in 1 .. n
  <2>1. blocks[k] \in Blocks
    BY <1>2, ElementOfSeq
  <2> QED BY <2>1 DEF Blocks, S!BlocksDisjoint
<1> HIDE DEF n
<1>7. S!BlocksDisjoint'
  <2>1. ASSUME NEW i \in 1 .. n + 1
        PROVE  /\ blocks'[i].at + blocks'[i].len <= heap_ptr'
               /\ \A j \in 1 .. i - 1 : blocks'[j].at + blocks'[j].len <= blocks'[i].at
    <3>1. CASE i = n + 1
      <4>1. ASSUME NEW j \in 1 .. n
            PROVE  blocks'[j].at + blocks'[j].len <= heap_ptr
        BY <1>4, <1>6
      <4> QED BY <1>1, <1>2, <1>4, <1>5, <3>1, <4>1
    <3>2. CASE i # n + 1
      <4>1. i \in 1 .. n
        BY <1>2, <3>2
      <4>2. blocks[i].at + blocks[i].len <= heap_ptr /\ blocks'[i] = blocks[i]
        BY <1>4, <1>6, <4>1
      <4>3. ASSUME NEW j \in 1 .. i - 1
            PROVE  blocks'[j].at + blocks'[j].len <= blocks'[i].at
        <5>1. j \in 1 .. n
          BY <1>2, <4>1
        <5>2. blocks[j].at + blocks[j].len <= blocks[i].at
          BY <4>1 DEF S!BlocksDisjoint, n
        <5> QED BY <1>4, <4>2, <5>1, <5>2
      <4>4. blocks'[i].at + blocks'[i].len <= heap_ptr'
        BY <1>1, <1>6, <4>1, <4>2
      <4> QED BY <4>3, <4>4
    <3> QED BY <3>1, <3>2
  <2> QED BY <1>1, <1>4, <2>1 DEF S!BlocksDisjoint
<1> QED BY <1>1, <1>4, <1>7 DEF n, new

(* What the invariant says of the segments.                                *)
LEMMA SegmentsMean ==
  AllOwned /\ Distinct => S!SegmentsAreBlocks
<1>1. ASSUME NEW i \in S!Id, active[i]
      PROVE  (\E k \in 1 .. Len(blocks) :
                /\ blocks[k] = [at |-> addr[i], len |-> size[i]]
                /\ S!ipc_shmem_attach(i) = blocks[k].at) <=> Owned(i)
  <2>1. S!ipc_shmem_attach(i) = addr[i]
    BY <1>1 DEF S!ipc_shmem_attach
  <2>2. ASSUME NEW k \in 1 .. Len(blocks), blocks[k] = [at |-> addr[i], len |-> size[i]]
        PROVE  blocks[k].at = addr[i]
    BY <2>2
  <2> QED BY <2>1, <2>2 DEF Owned
<1> QED BY <1>1, Zenon DEF S!SegmentsAreBlocks, AllOwned, Distinct

(* The block a segment is stays where it is when there are more.           *)
LEMMA OwnedKept ==
  ASSUME NEW i \in S!Id, Owned(i), Len(blocks) \in Nat,
         Len(blocks') = Len(blocks) + 1,
         \A k \in 1 .. Len(blocks) : blocks'[k] = blocks[k],
         addr'[i] = addr[i], size'[i] = size[i]
  PROVE  Owned(i)'
<1>1. PICK k \in 1 .. Len(blocks) : blocks[k] = [at |-> addr[i], len |-> size[i]]
  BY DEF Owned
<1>2. k \in 1 .. Len(blocks') /\ blocks'[k] = [at |-> addr'[i], len |-> size'[i]]
  BY <1>1
<1> QED BY <1>2 DEF Owned

(* A segment in use with bytes in it begins below the offset.              *)
LEMMA OwnedBelow ==
  ASSUME SegmentsTyped, S!BlocksDisjoint, NEW i \in S!Id, Owned(i), size[i] > 0
  PROVE  addr[i] # heap_ptr
<1>1. PICK k \in 1 .. Len(blocks) : blocks[k] = [at |-> addr[i], len |-> size[i]]
  BY DEF Owned
<1>2. blocks[k] \in Blocks
  BY ElementOfSeq DEF SegmentsTyped
<1>3. blocks[k].at = addr[i] /\ blocks[k].len = size[i]
  BY <1>1
<1>4. addr[i] \in Nat /\ size[i] \in Nat /\ heap_ptr \in Nat
  BY <1>2, <1>3 DEF Blocks, SegmentsTyped
<1>5. addr[i] + size[i] <= heap_ptr
  BY <1>1, <1>3 DEF S!BlocksDisjoint
<1> QED BY <1>4, <1>5

(* The heap and the table start in the invariant.                          *)
LEMMA SegmentsStart ==
  ASSUME S!ShmemAssumption, S!Init
  PROVE  SegmentsInv
<1>1. blocks = << >> /\ heap_ptr = 0 /\ \A i \in S!Id : ~active[i]
  BY DEF S!Init, S!ipc_init
<1>2. SegmentsTyped
  BY EmptySeq DEF S!Init, S!ipc_init, SegmentsTyped
<1>3. S!BlocksDisjoint
  BY <1>1, HeapAssumption DEF S!BlocksDisjoint
<1> QED BY <1>1, <1>2, <1>3 DEF SegmentsInv, AllOwned, Distinct

(* An allocation for somebody else keeps the invariant.                    *)
LEMMA MallocInv ==
  ASSUME S!ShmemAssumption, NoneWraps, SegmentsInv, NEW sz \in Sizes, S!Malloc(sz)
  PROVE  SegmentsInv'
<1>1. SegmentsTyped /\ S!BlocksDisjoint /\ AllOwned /\ Distinct /\ S!Given(sz)
      /\ active' = active /\ addr' = addr /\ size' = size
  BY DEF SegmentsInv, S!Malloc, S!table
<1>2. /\ SegmentsTyped' /\ S!BlocksDisjoint'
      /\ Len(blocks') = Len(blocks) + 1 /\ Len(blocks) \in Nat
      /\ \A k \in 1 .. Len(blocks) : blocks'[k] = blocks[k]
  <2>1. /\ heap_ptr' \in Nat /\ blocks' \in Seq(Blocks) /\ S!BlocksDisjoint'
        /\ Len(blocks') = Len(blocks) + 1
        /\ \A k \in 1 .. Len(blocks) : blocks'[k] = blocks[k]
    BY <1>1, GivenDisjoint
  <2>2. Len(blocks) \in Nat
    BY <1>1, LenProperties DEF SegmentsTyped
  <2> QED BY <1>1, <2>1, <2>2 DEF SegmentsTyped
<1>3. ASSUME NEW i \in S!Id, active'[i] PROVE Owned(i)'
  BY <1>1, <1>2, <1>3, OwnedKept DEF AllOwned
<1>4. Distinct'
  BY <1>1 DEF Distinct
<1> QED BY <1>2, <1>3, <1>4 DEF SegmentsInv, AllOwned

(* Creating a segment keeps it, also when malloc fails.                    *)
LEMMA SegmentCreateInv ==
  ASSUME S!ShmemAssumption, NoneWraps, SegmentsInv, NEW sz \in Sizes, S!ipc_shmem_create(sz)
  PROVE  SegmentsInv'
<1>1. SegmentsTyped /\ S!BlocksDisjoint /\ AllOwned /\ Distinct
  BY DEF SegmentsInv
<1>2. ASSUME NEW i \in S!Id, S!FirstFree(i), S!Given(sz),
             addr' = [addr EXCEPT ![i] = heap_ptr],
             size' = [size EXCEPT ![i] = sz],
             active' = [active EXCEPT ![i] = TRUE]
      PROVE  SegmentsInv'
  <2>1. /\ heap_ptr' \in Nat /\ blocks' \in Seq(Blocks) /\ sz \in Nat
        /\ S!BlocksDisjoint'
        /\ Len(blocks') = Len(blocks) + 1 /\ Len(blocks) \in Nat
        /\ \A k \in 1 .. Len(blocks) : blocks'[k] = blocks[k]
        /\ blocks'[Len(blocks) + 1] = [at |-> heap_ptr, len |-> sz]
    <3>1. Len(blocks) \in Nat
      BY <1>1, LenProperties DEF SegmentsTyped
    <3> QED BY <1>1, <1>2, <3>1, GivenDisjoint
  <2>2. SegmentsTyped'
    BY <1>1, <1>2, <2>1 DEF SegmentsTyped
  <2>3. addr'[i] = heap_ptr /\ size'[i] = sz
    BY <1>1, <1>2 DEF SegmentsTyped
  <2>4. ASSUME NEW j \in S!Id \ {i}
        PROVE  addr'[j] = addr[j] /\ size'[j] = size[j] /\ active'[j] = active[j]
    BY <1>1, <1>2 DEF SegmentsTyped
  <2>5. Owned(i)'
    <3>1. Len(blocks) + 1 \in 1 .. Len(blocks')
      BY <2>1
    <3> QED BY <2>1, <2>3, <3>1 DEF Owned
  <2>6. ASSUME NEW j \in S!Id, active'[j] PROVE Owned(j)'
    <3>1. CASE j = i BY <2>5, <3>1
    <3>2. CASE j # i
      <4>1. Owned(j)
        BY <1>1, <2>4, <2>6, <3>2 DEF AllOwned
      <4> QED BY <2>1, <2>4, <3>2, <4>1, OwnedKept
    <3> QED BY <3>1, <3>2
  <2>7. ASSUME NEW j \in S!Id \ {i}, active'[j], size'[j] > 0
        PROVE  addr'[j] # addr'[i]
    BY <1>1, <2>3, <2>4, <2>7, OwnedBelow DEF AllOwned
  <2>8. ASSUME NEW j \in S!Id, NEW k \in S!Id, active'[j], active'[k], j # k,
               size'[j] > 0, size'[k] > 0
        PROVE  addr'[j] # addr'[k]
    <3>1. CASE j = i BY <2>7, <2>8, <3>1
    <3>2. CASE k = i BY <2>7, <2>8, <3>2
    <3>3. CASE j # i /\ k # i BY <1>1, <2>4, <2>8, <3>3 DEF Distinct
    <3> QED BY <3>1, <3>2, <3>3
  <2>9. AllOwned' /\ Distinct'
    BY <2>6, <2>8 DEF AllOwned, Distinct
  <2> QED BY <2>1, <2>2, <2>9 DEF SegmentsInv
<1>3. ASSUME NEW i \in S!Id, S!FirstFree(i),
             addr' = [addr EXCEPT ![i] = NULL],
             UNCHANGED <<heap_ptr, blocks, active, size>>
      PROVE  SegmentsInv'
  <2>1. ~active[i] /\ active' = active /\ size' = size /\ blocks' = blocks
    BY <1>3 DEF S!FirstFree
  <2>2. \A j \in S!Id \ {i} : addr'[j] = addr[j]
    BY <1>1, <1>3 DEF SegmentsTyped
  <2>3. SegmentsTyped' /\ S!BlocksDisjoint'
    BY <1>1, <1>3 DEF SegmentsTyped, S!BlocksDisjoint
  <2>4. AllOwned' /\ Distinct'
    BY <1>1, <2>1, <2>2 DEF AllOwned, Owned, Distinct
  <2> QED BY <2>3, <2>4 DEF SegmentsInv
<1> QED BY <1>2, <1>3 DEF S!ipc_shmem_create

(* Destroying a segment keeps it.                                          *)
LEMMA SegmentDestroyInv ==
  ASSUME SegmentsInv, NEW i \in S!Id, S!ipc_shmem_destroy(i)
  PROVE  SegmentsInv'
<1>1. SegmentsTyped /\ S!BlocksDisjoint /\ AllOwned /\ Distinct
  BY DEF SegmentsInv
<1>2. active' = [active EXCEPT ![i] = FALSE] /\ addr' = addr /\ size' = size
      /\ blocks' = blocks /\ heap_ptr' = heap_ptr
  BY DEF S!ipc_shmem_destroy
<1>3. \A j \in S!Id : active'[j] => active[j]
  BY <1>1, <1>2 DEF SegmentsTyped
<1>4. SegmentsTyped' /\ S!BlocksDisjoint'
  BY <1>1, <1>2 DEF SegmentsTyped, S!BlocksDisjoint
<1>5. AllOwned' /\ Distinct'
  BY <1>1, <1>2, <1>3 DEF AllOwned, Owned, Distinct
<1> QED BY <1>4, <1>5 DEF SegmentsInv

(* Every call keeps the invariant.                                         *)
LEMMA SegmentsNext ==
  ASSUME S!ShmemAssumption, NoneWraps, SegmentsInv, S!Next
  PROVE  SegmentsInv'
<1>1. ASSUME NEW sz \in Sizes, S!Malloc(sz) PROVE SegmentsInv'
  BY <1>1, MallocInv
<1>2. ASSUME NEW sz \in Sizes, S!ipc_shmem_create(sz) PROVE SegmentsInv'
  BY <1>2, SegmentCreateInv
<1>3. ASSUME NEW i \in S!Id, S!ipc_shmem_destroy(i) PROVE SegmentsInv'
  BY <1>3, SegmentDestroyInv
<1>4. CASE UNCHANGED S!vars
  BY <1>4 DEF S!vars, SegmentsInv, SegmentsTyped, S!BlocksDisjoint, AllOwned, Owned, Distinct
<1> QED BY <1>1, <1>2, <1>3, <1>4 DEF S!Next, S!Lookup

-----------------------------------------------------------------------------
(* The page tables.                                                        *)

Index == 0 .. ENTRIES - 1

(* A page size that the other facts are about.                             *)
LEMMA PageSize ==
  ASSUME M!VmmAssumption
  PROVE  /\ M!PAGE \in Nat /\ M!PAGE >= 4 /\ M!PAGE % 4 = 0
         /\ \A i \in Index : i \in Nat /\ 4 * i \in Nat /\ 4 * i + 4 <= M!PAGE
<1>1. ENTRIES \in Nat /\ ENTRIES >= 1
  BY DEF M!VmmAssumption
<1> QED BY <1>1 DEF M!PAGE, Index

(* The entry and the word of a page.                                       *)
LEMMA PageIndex ==
  ASSUME M!VmmAssumption, NEW v \in M!VirtualPages
  PROVE  /\ v \div ENTRIES \in Index /\ v % ENTRIES \in Index
         /\ v = ENTRIES * (v \div ENTRIES) + (v % ENTRIES)
<1>1. ENTRIES \in Nat \ {0} /\ v \in Nat
  BY DEF M!VmmAssumption, M!VirtualPages
<1>2. /\ v % ENTRIES \in 0 .. ENTRIES - 1
      /\ v = ENTRIES * (v \div ENTRIES) + (v % ENTRIES)
      /\ v \div ENTRIES \in Nat
  BY <1>1
<1> DEFINE q == v \div ENTRIES
           r == v % ENTRIES
<1>3. q < ENTRIES
  <2>1. v <= ENTRIES * ENTRIES - 1
    BY DEF M!VirtualPages
  <2> HIDE DEF q, r
  <2>2. q \in Nat /\ r \in Nat /\ v = ENTRIES * q + r
    BY <1>2 DEF q, r
  <2> SUFFICES ASSUME ENTRIES <= q PROVE FALSE
    BY <1>1, <2>2
  <2>3. ENTRIES * ENTRIES <= ENTRIES * q
    BY <1>1, <2>2
  <2>4. ENTRIES * q \in Nat /\ ENTRIES * ENTRIES \in Nat
    BY <1>1, <2>2
  <2> QED BY <1>1, <2>1, <2>2, <2>3, <2>4
<1> QED BY <1>1, <1>2, <1>3 DEF Index

(* The first pages are the ones of the first entry.                        *)
LEMMA FirstPages ==
  ASSUME M!VmmAssumption
  PROVE  Index \subseteq M!VirtualPages
<1>1. ENTRIES \in Nat /\ ENTRIES >= 1
  BY DEF M!VmmAssumption
<1>2. ENTRIES * ENTRIES >= ENTRIES /\ ENTRIES * ENTRIES \in Nat
  BY <1>1
<1> QED BY <1>1, <1>2 DEF Index, M!VirtualPages

(* What malloc hands out for a page, when it fits.                         *)
LEMMA PageFits ==
  ASSUME M!VmmAssumption, NEW h \in Nat, h <= HEAP_SIZE, M!AtHeap(h)!Fits(M!PAGE)
  PROVE  /\ M!AtHeap(h)!Bumped(M!PAGE) \in Nat /\ h + M!PAGE <= M!AtHeap(h)!Bumped(M!PAGE)
         /\ M!AtHeap(h)!Bumped(M!PAGE) <= HEAP_SIZE /\ M!AtHeap(h)!Bumped(M!PAGE) % 4 = 0
<1>1. /\ M!PAGE \in Nat /\ HEAP_SIZE \in Nat /\ WIDTH \in Nat \ {0}
      /\ HEAP_SIZE + M!PAGE < WIDTH /\ ALIGN % 4 = 0
  BY PageSize, HeapAssumption DEF M!VmmAssumption
<1>2. PICK p \in Nat : p = h + M!PAGE
  BY <1>1
<1>3. p < WIDTH /\ p % WIDTH = p
  BY <1>1, <1>2
<1>4. p <= HEAP_SIZE
  BY <1>2, <1>3 DEF M!AtHeap!Fits
<1>5. M!AtHeap(h)!Bumped(M!PAGE) = ((p + ALIGN - 1) \div ALIGN) * ALIGN
  BY <1>2, <1>3 DEF M!AtHeap!Bumped, M!AtHeap!RoundUp
<1> QED BY <1>1, <1>2, <1>4, <1>5, RoundsUp

-----------------------------------------------------------------------------
(* A page tree, with K for the kernel's directory and D for the others.    *)

TreeTyped(t) ==
  /\ t \in [mem : [M!Words -> Nat], heap_ptr : Nat, tables : SUBSET Nat,
            mapped : [M!VirtualPages -> Nat \cup {NULL}]]
  /\ t.heap_ptr <= HEAP_SIZE /\ t.heap_ptr % 4 = 0

IsBlock(b, h) == b \in Nat /\ b % 4 = 0 /\ b + M!PAGE <= h
Apart(b, e) == b + M!PAGE <= e \/ e + M!PAGE <= b

(* The kernel's directory, the others and the tables lie apart.            *)
Places(t, K, D) ==
  /\ \A b \in {K} \cup D \cup t.tables : IsBlock(b, t.heap_ptr)
  /\ \A b, e \in {K} \cup D \cup t.tables : b # e => Apart(b, e)
  /\ K \notin D /\ K \notin t.tables /\ \A d \in D : d \notin t.tables

At(m, b, i) == m[b + 4 * i]

(* An entry of the kernel's directory is empty or names a table, no two    *)
(* the same; one of another directory is empty or the kernel's.            *)
Entries(t, K, D) ==
  \A i \in Index :
    /\ At(t.mem, K, i) = 0 \/ \E b \in t.tables : At(t.mem, K, i) = b + 3
    /\ \A d \in D : At(t.mem, d, i) = 0 \/ At(t.mem, d, i) = At(t.mem, K, i)
    /\ \A j \in Index :
         i # j /\ At(t.mem, K, i) = At(t.mem, K, j) => At(t.mem, K, i) = 0

(* What the word of a page says of the frame it is mapped to.              *)
Says(word, frame) == IF frame = NULL THEN word = 0
                     ELSE \E f \in 0 .. 3 : word = frame * M!PAGE + f

(* The word of each page says what it was last mapped to.                  *)
Recorded(t, K) ==
  \A v \in M!VirtualPages :
    LET e == At(t.mem, K, v \div ENTRIES)
    IN  IF e = 0 THEN t.mapped[v] = NULL
        ELSE Says(At(t.mem, e - 3, v % ENTRIES), t.mapped[v])

Good(t, K, D) == Places(t, K, D) /\ Entries(t, K, D) /\ Recorded(t, K)

AlignedTree(t) == \A b \in t.tables : b % M!PAGE = 0

(* The words of a block are words of the heap.                             *)
LEMMA WordIn ==
  ASSUME M!VmmAssumption, NEW h \in Nat, h <= HEAP_SIZE, NEW b, IsBlock(b, h), NEW i \in Index
  PROVE  b + 4 * i \in M!Words
<1>1. i \in Nat /\ 4 * i + 4 <= M!PAGE /\ M!PAGE \in Nat /\ b \in Nat /\ HEAP_SIZE \in Nat
  BY PageSize, HeapAssumption DEF IsBlock
<1>2. PICK k \in Nat : b = 4 * k
  BY <1>1 DEF IsBlock
<1>3. 4 * (k + i) + 4 <= HEAP_SIZE
  BY <1>1, <1>2 DEF IsBlock
<1>4. k + i \in 0 .. HEAP_SIZE \div 4 - 1
  BY <1>1, <1>2, <1>3
<1>5. b + 4 * i = 4 * (k + i)
  BY <1>1, <1>2
<1> QED BY <1>4, <1>5 DEF M!Words

(* Words of one block or of blocks that lie apart differ.                  *)
LEMMA WordsApart ==
  ASSUME M!VmmAssumption, NEW b \in Nat, NEW e \in Nat, NEW i \in Index, NEW j \in Index,
         (b = e /\ i # j) \/ Apart(b, e)
  PROVE  b + 4 * i # e + 4 * j
<1>1. /\ i \in Nat /\ 4 * i + 4 <= M!PAGE /\ j \in Nat /\ 4 * j + 4 <= M!PAGE
      /\ M!PAGE \in Nat
  BY PageSize
<1> QED BY <1>1 DEF Apart

(* The words of a block that was cleared, and of the others.               *)
LEMMA ZeroedIs ==
  ASSUME M!VmmAssumption, NEW m \in [M!Words -> Nat], NEW h \in Nat, NEW i \in Index
  PROVE  /\ M!Zeroed(m, h) \in [M!Words -> Nat]
         /\ h + 4 * i \in M!Words => At(M!Zeroed(m, h), h, i) = 0
         /\ \A b \in Nat : Apart(b, h) /\ b + 4 * i \in M!Words
                             => At(M!Zeroed(m, h), b, i) = At(m, b, i)
<1>1. i \in Nat /\ 4 * i + 4 <= M!PAGE /\ M!PAGE \in Nat
  BY PageSize
<1>2. M!Zeroed(m, h) \in [M!Words -> Nat]
  BY DEF M!Zeroed
<1>3. h + 4 * i \in h .. h + M!PAGE - 1
  BY <1>1
<1>4. ASSUME NEW b \in Nat, Apart(b, h)
      PROVE  b + 4 * i \notin h .. h + M!PAGE - 1
  BY <1>1, <1>4 DEF Apart
<1> QED BY <1>2, <1>3, <1>4 DEF M!Zeroed, At

(* A word of a table is written: the tree u that comes of the tree t.      *)
LEMMA PutKeeps ==
  ASSUME M!VmmAssumption, NEW K, NEW D, NEW t, NEW u, TreeTyped(t), Good(t, K, D),
         NEW v \in M!VirtualPages, At(t.mem, K, v \div ENTRIES) # 0,
         NEW word \in Nat, NEW frame \in Nat \cup {NULL}, Says(word, frame),
         TreeTyped(u), u.heap_ptr = t.heap_ptr, u.tables = t.tables,
         u.mem = [t.mem EXCEPT ![At(t.mem, K, v \div ENTRIES) - 3 + 4 * (v % ENTRIES)] = word],
         u.mapped = [t.mapped EXCEPT ![v] = frame]
  PROVE  Good(u, K, D)
<1> DEFINE i == v \div ENTRIES
           j == v % ENTRIES
<1>1. i \in Index /\ j \in Index /\ v = ENTRIES * i + j
  BY PageIndex
<1>2. PICK b \in t.tables : At(t.mem, K, i) = b + 3
  BY <1>1 DEF Good, Entries
<1>3. /\ t.mem \in [M!Words -> Nat] /\ t.heap_ptr \in Nat /\ t.heap_ptr <= HEAP_SIZE
      /\ t.mapped \in [M!VirtualPages -> Nat \cup {NULL}]
  BY DEF TreeTyped
<1>4. /\ \A e \in {K} \cup D \cup t.tables : IsBlock(e, t.heap_ptr) /\ e \in Nat
      /\ \A e \in {K} \cup D : Apart(e, b)
      /\ \A e \in t.tables : e # b => Apart(e, b)
  BY DEF Good, Places, IsBlock
<1> HIDE DEF i, j
<1>5. b \in Nat /\ (b + 3) - 3 + 4 * j = b + 4 * j
  BY <1>1, <1>4 DEF Index
<1>6. u.mem = [t.mem EXCEPT ![b + 4 * j] = word]
  BY <1>2, <1>5 DEF i, j
<1>7. At(u.mem, b, j) = word
  <2>1. b + 4 * j \in M!Words
    BY <1>1, <1>3, <1>4, WordIn
  <2> QED BY <1>3, <1>6, <2>1 DEF At
<1>8. ASSUME NEW e \in {K} \cup D \cup t.tables, NEW g \in Index, e # b \/ g # j
      PROVE  At(u.mem, e, g) = At(t.mem, e, g)
  <2>1. e + 4 * g # b + 4 * j
    <3>1. e \in Nat /\ ((e = b /\ g # j) \/ Apart(e, b))
      BY <1>4, <1>8
    <3> QED BY <1>1, <1>5, <3>1, WordsApart
  <2> QED BY <1>3, <1>6, <2>1 DEF At
<1>9. \A e \in {K} \cup D, g \in Index : At(u.mem, e, g) = At(t.mem, e, g)
  <2>1. b \notin {K} \cup D
    BY DEF Good, Places
  <2> QED BY <1>8, <2>1
<1>10. Places(u, K, D)
  BY DEF Good, Places
<1>11. Entries(u, K, D)
  BY <1>9 DEF Good, Entries
<1>12. ASSUME NEW w \in M!VirtualPages
       PROVE  LET e == At(u.mem, K, w \div ENTRIES)
              IN  IF e = 0 THEN u.mapped[w] = NULL
                  ELSE Says(At(u.mem, e - 3, w % ENTRIES), u.mapped[w])
  <2>1. PICK g \in Index, r \in Index : /\ g = w \div ENTRIES /\ r = w % ENTRIES
                                        /\ w = ENTRIES * g + r
    BY PageIndex
  <2>2. At(u.mem, K, g) = At(t.mem, K, g)
    BY <1>9
  <2>3. IF At(t.mem, K, g) = 0 THEN t.mapped[w] = NULL
        ELSE Says(At(t.mem, At(t.mem, K, g) - 3, r), t.mapped[w])
    BY <2>1 DEF Good, Recorded
  <2>4. CASE w = v
    <3>1. g = i /\ r = j
      BY <2>1, <2>4 DEF i, j
    <3>2. u.mapped[w] = frame /\ At(t.mem, K, g) - 3 = b /\ At(t.mem, K, g) # 0
      BY <1>2, <1>3, <1>5, <2>4, <3>1
    <3> QED BY <1>7, <2>1, <2>2, <3>1, <3>2
  <2>5. CASE w # v
    <3>1. u.mapped[w] = t.mapped[w] /\ (g # i \/ r # j)
      BY <1>1, <1>3, <2>1, <2>5
    <3>2. CASE At(t.mem, K, g) = 0
      BY <2>1, <2>2, <2>3, <3>1, <3>2
    <3>3. CASE At(t.mem, K, g) # 0
      <4>1. PICK e \in t.tables : At(t.mem, K, g) = e + 3
        BY <3>3 DEF Good, Entries
      <4>2. e \in Nat /\ At(t.mem, K, g) - 3 = e
        BY <1>4, <4>1
      <4>3. g # i => e # b
        <5>1. g # i => At(t.mem, K, g) # At(t.mem, K, i)
          BY <1>1, <3>3 DEF Good, Entries
        <5> QED BY <1>2, <4>1, <5>1
      <4>4. At(u.mem, e, r) = At(t.mem, e, r)
        BY <1>8, <3>1, <4>3
      <4> QED BY <2>1, <2>2, <2>3, <3>1, <3>3, <4>2, <4>4
    <3> QED BY <3>2, <3>3
  <2> QED BY <2>4, <2>5
<1>13. Recorded(u, K)
  BY <1>12 DEF Recorded
<1> QED BY <1>10, <1>11, <1>13 DEF Good

(* A block is handed out behind all others.                                *)
LEMMA BehindAll ==
  ASSUME NEW K, NEW D, NEW t, NEW g \in Nat, TreeTyped(t), Places(t, K, D),
         M!PAGE \in Nat \ {0}, t.heap_ptr + M!PAGE <= g
  PROVE  /\ IsBlock(t.heap_ptr, g)
         /\ \A b \in {K} \cup D \cup t.tables :
              /\ IsBlock(b, g) /\ b # t.heap_ptr
              /\ Apart(b, t.heap_ptr) /\ Apart(t.heap_ptr, b)
<1>1. t.heap_ptr \in Nat /\ t.heap_ptr % 4 = 0
  BY DEF TreeTyped
<1>2. ASSUME NEW b \in {K} \cup D \cup t.tables
      PROVE  /\ IsBlock(b, g) /\ b # t.heap_ptr
             /\ Apart(b, t.heap_ptr) /\ Apart(t.heap_ptr, b)
  <2>1. IsBlock(b, t.heap_ptr)
    BY DEF Places
  <2> QED BY <1>1, <2>1 DEF IsBlock, Apart
<1> QED BY <1>1, <1>2 DEF IsBlock

(* A new table is cleared, and the entry of the page names it.             *)
LEMMA NewTableKeeps ==
  ASSUME M!VmmAssumption, NEW K, NEW D, NEW t, TreeTyped(t), Good(t, K, D),
         NEW v \in M!VirtualPages, At(t.mem, K, v \div ENTRIES) = 0,
         M!AtHeap(t.heap_ptr)!Fits(M!PAGE)
  PROVE  /\ Good(M!NewTable(t, K, v), K, D)
         /\ At(M!NewTable(t, K, v).mem, K, v \div ENTRIES) = t.heap_ptr + 3
<1> DEFINE u == M!NewTable(t, K, v)
           h == t.heap_ptr
           i == v \div ENTRIES
           z == M!Zeroed(t.mem, h)
<1>1. /\ t.mem \in [M!Words -> Nat] /\ h \in Nat /\ h <= HEAP_SIZE /\ h % 4 = 0
      /\ t.mapped \in [M!VirtualPages -> Nat \cup {NULL}]
  BY DEF TreeTyped
<1>2. i \in Index /\ M!PAGE \in Nat \ {0} /\ M!PAGE >= 4
  BY PageIndex, PageSize
<1>3. /\ u.heap_ptr \in Nat /\ h + M!PAGE <= u.heap_ptr /\ u.heap_ptr <= HEAP_SIZE
      /\ u.tables = t.tables \cup {h} /\ u.mapped = t.mapped
      /\ u.mem = [z EXCEPT ![K + 4 * i] = h + 3]
  <2>1. u.heap_ptr = M!AtHeap(h)!Bumped(M!PAGE)
    BY DEF TreeTyped, M!NewTable
  <2>2. u.tables = t.tables \cup {h} /\ u.mapped = t.mapped
    BY DEF TreeTyped, M!NewTable
  <2>3. h + M!PRESENT + M!WRITABLE = h + 3
    BY <1>1 DEF M!PRESENT, M!WRITABLE
  <2>4. u.mem = [z EXCEPT ![K + 4 * i] = h + 3]
    BY <2>3 DEF TreeTyped, M!NewTable, M!EntryOf
  <2> QED BY <1>1, <2>1, <2>2, <2>4, PageFits
<1> HIDE DEF u, i
<1>4. /\ IsBlock(h, u.heap_ptr)
      /\ \A b \in {K} \cup D \cup t.tables :
           /\ IsBlock(b, u.heap_ptr) /\ b # h /\ b \in Nat
           /\ Apart(b, h) /\ Apart(h, b)
  <2>1. \A b \in {K} \cup D \cup t.tables : b \in Nat
    BY DEF Good, Places, IsBlock
  <2>2. Places(t, K, D) /\ M!PAGE \in Nat \ {0}
    BY <1>2 DEF Good
  <2>3. u.heap_ptr \in Nat /\ t.heap_ptr + M!PAGE <= u.heap_ptr
    BY <1>3
  <2>4. /\ IsBlock(t.heap_ptr, u.heap_ptr)
        /\ \A b \in {K} \cup D \cup t.tables :
             /\ IsBlock(b, u.heap_ptr) /\ b # t.heap_ptr
             /\ Apart(b, t.heap_ptr) /\ Apart(t.heap_ptr, b)
    BY <2>2, <2>3, BehindAll
  <2> QED BY <2>1, <2>4
<1>5. \A b \in {K} \cup D \cup t.tables \cup {h}, g \in Index : b + 4 * g \in M!Words
  BY <1>3, <1>4, WordIn
<1>6. At(u.mem, K, i) = h + 3
  <2>1. z \in [M!Words -> Nat]
    BY <1>1, <1>2, ZeroedIs
  <2> HIDE DEF z
  <2> QED BY <1>2, <1>3, <1>5, <2>1 DEF At
<1>7. ASSUME NEW b \in {K} \cup D \cup t.tables \cup {h}, NEW g \in Index, b # K \/ g # i
      PROVE  At(u.mem, b, g) = IF b = h THEN 0 ELSE At(t.mem, b, g)
  <2>1. b + 4 * g # K + 4 * i
    <3>1. b \in Nat /\ K \in Nat /\ ((b = K /\ g # i) \/ Apart(b, K))
      BY <1>1, <1>4, <1>7 DEF Good, Places
    <3> QED BY <1>2, <3>1, WordsApart
  <2>2. z \in [M!Words -> Nat]
    BY <1>1, <1>2, ZeroedIs
  <2>3. At(u.mem, b, g) = At(z, b, g)
    <3> HIDE DEF z
    <3> QED BY <1>3, <2>1, <2>2 DEF At
  <2>4. b + 4 * g \in M!Words
    BY <1>5
  <2>5. CASE b = h
    BY <1>1, <2>3, <2>4, <2>5, ZeroedIs
  <2>6. CASE b # h
    <3>1. b \in Nat /\ Apart(b, h)
      BY <1>4, <2>6
    <3> QED BY <1>1, <2>3, <2>4, <2>6, <3>1, ZeroedIs
  <2> QED BY <2>5, <2>6
<1>8. K # h /\ h \notin D /\ h \notin t.tables /\ K \notin D /\ K \notin t.tables
  BY <1>4 DEF Good, Places
<1>9. Places(u, K, D)
  BY <1>3, <1>4, <1>8 DEF Good, Places
<1>10. \A g \in Index : g # i => At(u.mem, K, g) = At(t.mem, K, g)
  BY <1>7, <1>8
<1>11. \A d \in D, g \in Index : At(u.mem, d, g) = At(t.mem, d, g)
  BY <1>7, <1>8
<1>12. At(t.mem, K, i) = 0
  BY DEF i
<1>13. ASSUME NEW g \in Index
       PROVE  /\ At(u.mem, K, g) = 0 \/ \E b \in u.tables : At(u.mem, K, g) = b + 3
              /\ \A d \in D : At(u.mem, d, g) = 0 \/ At(u.mem, d, g) = At(u.mem, K, g)
              /\ \A j \in Index :
                   g # j /\ At(u.mem, K, g) = At(u.mem, K, j) => At(u.mem, K, g) = 0
  <2>1. /\ At(t.mem, K, g) = 0 \/ \E b \in t.tables : At(t.mem, K, g) = b + 3
        /\ \A d \in D : At(t.mem, d, g) = 0 \/ At(t.mem, d, g) = At(t.mem, K, g)
        /\ \A j \in Index :
             g # j /\ At(t.mem, K, g) = At(t.mem, K, j) => At(t.mem, K, g) = 0
    BY DEF Good, Entries
  <2>2. ASSUME NEW j \in Index, j # i
        PROVE  At(u.mem, K, j) # h + 3
    <3>1. At(t.mem, K, j) = 0 \/ \E b \in t.tables : At(t.mem, K, j) = b + 3
      BY DEF Good, Entries
    <3>2. \A b \in t.tables : b + 3 # h + 3
      BY <1>1, <1>4
    <3> QED BY <1>1, <1>10, <2>2, <3>1, <3>2
  <2>3. CASE g = i
    <3>1. \A d \in D : At(u.mem, d, g) = 0
      BY <1>11, <1>12, <2>1, <2>3
    <3>2. \A j \in Index : g # j => At(u.mem, K, g) # At(u.mem, K, j)
      BY <1>6, <2>2, <2>3
    <3> QED BY <1>3, <1>6, <2>3, <3>1, <3>2
  <2>4. CASE g # i
    <3>1. \A j \in Index :
            g # j /\ At(u.mem, K, g) = At(u.mem, K, j) => At(u.mem, K, g) = 0
      BY <1>6, <1>10, <2>1, <2>2, <2>4
    <3> QED BY <1>3, <1>10, <1>11, <2>1, <2>4, <3>1
  <2> QED BY <2>3, <2>4
<1>14. ASSUME NEW w \in M!VirtualPages
       PROVE  LET e == At(u.mem, K, w \div ENTRIES)
              IN  IF e = 0 THEN u.mapped[w] = NULL
                  ELSE Says(At(u.mem, e - 3, w % ENTRIES), u.mapped[w])
  <2>1. PICK g \in Index, r \in Index : g = w \div ENTRIES /\ r = w % ENTRIES
    BY PageIndex
  <2>2. IF At(t.mem, K, g) = 0 THEN t.mapped[w] = NULL
        ELSE Says(At(t.mem, At(t.mem, K, g) - 3, r), t.mapped[w])
    BY <2>1 DEF Good, Recorded
  <2>3. CASE g = i
    <3>1. t.mapped[w] = NULL /\ (h + 3) - 3 = h /\ h + 3 # 0
      BY <1>1, <1>12, <2>2, <2>3
    <3>2. At(u.mem, h, r) = 0
      BY <1>7, <1>8
    <3>3. Says(0, NULL)
      BY DEF Says
    <3> QED BY <1>3, <1>6, <2>1, <2>3, <3>1, <3>2, <3>3
  <2>4. CASE g # i
    <3>1. At(u.mem, K, g) = At(t.mem, K, g)
      BY <1>10, <2>4
    <3>2. CASE At(t.mem, K, g) = 0
      BY <1>3, <2>1, <2>2, <3>1, <3>2
    <3>3. CASE At(t.mem, K, g) # 0
      <4>1. PICK b \in t.tables : At(t.mem, K, g) = b + 3
        BY <3>3 DEF Good, Entries
      <4>2. At(t.mem, K, g) - 3 = b
        BY <1>4, <4>1
      <4>3. At(u.mem, b, r) = At(t.mem, b, r)
        BY <1>7, <1>8
      <4> QED BY <1>3, <2>1, <2>2, <3>1, <3>3, <4>2, <4>3
    <3> QED BY <3>2, <3>3
  <2> QED BY <2>3, <2>4
<1>15. Entries(u, K, D) /\ Recorded(u, K)
  BY <1>13, <1>14 DEF Entries, Recorded
<1> QED BY <1>6, <1>9, <1>15 DEF Good, u, i

(* A word of a table is written, whatever the tree.                        *)
LEMMA PutTyped ==
  ASSUME NEW t, TreeTyped(t), NEW v \in M!VirtualPages, NEW at, NEW word \in Nat,
         NEW frame \in Nat \cup {NULL}
  PROVE  TreeTyped([t EXCEPT !.mem[at] = word, !.mapped[v] = frame])
BY DEF TreeTyped

(* The page bits of an entry are its table, when that starts on a page.    *)
LEMMA EntryBits ==
  ASSUME M!VmmAssumption, NEW K, NEW D, NEW t, TreeTyped(t), Good(t, K, D), AlignedTree(t),
         NEW i \in Index, At(t.mem, K, i) % 2 = 1
  PROVE  M!PageBits(At(t.mem, K, i)) = At(t.mem, K, i) - 3 /\ At(t.mem, K, i) # 0
<1>1. PICK b \in t.tables : At(t.mem, K, i) = b + 3
  BY DEF Good, Entries
<1>2. b \in Int /\ b \in Nat /\ b % M!PAGE = 0 /\ M!PAGE \in Nat \ {0} /\ M!PAGE >= 4
  BY PageSize DEF AlignedTree, TreeTyped
<1>3. PICK d \in Int : b = M!PAGE * d
  <2>1. PICK d \in Int : b = M!PAGE * d + (b % M!PAGE)
    BY <1>2, DivMod
  <2>2. b = M!PAGE * d
    BY <1>2, <2>1
  <2> QED BY <2>2
<1>4. (M!PAGE * d + 3) % M!PAGE = 3
  BY <1>2, ModUnique
<1>5. PICK e : e = At(t.mem, K, i)
  OBVIOUS
<1>6. e % M!PAGE = 3 /\ e = b + 3
  BY <1>1, <1>3, <1>4, <1>5
<1>7. M!PageBits(e) = e - 3 /\ e # 0
  BY <1>2, <1>6 DEF M!PageBits
<1> QED BY <1>5, <1>7

(* What Map makes of the tree: it stays one, and one that is good as long  *)
(* as its tables start on pages.                                           *)
MapsTo(t, u, K, D) == /\ TreeTyped(u)
                      /\ t.tables \subseteq u.tables
                      /\ t.heap_ptr <= u.heap_ptr
                      /\ AlignedTree(u) => Good(u, K, D)

LEMMA MapKeeps ==
  ASSUME M!VmmAssumption, NEW K, NEW D, NEW t, TreeTyped(t), AlignedTree(t) => Good(t, K, D),
         NEW v \in M!VirtualPages, NEW frame \in Nat, NEW flags \in 0 .. 3
  PROVE  MapsTo(t, M!Map(t, K, v, frame, flags), K, D)
<1> DEFINE i == v \div ENTRIES
           e == At(t.mem, K, i)
           word == frame * M!PAGE + flags
<1>1. /\ t.mem \in [M!Words -> Nat] /\ t.heap_ptr \in Nat /\ t.heap_ptr <= HEAP_SIZE
      /\ t.tables \in SUBSET Nat
  BY DEF TreeTyped
<1>2. M!PAGE \in Nat \ {0} /\ M!PAGE >= 4 /\ i \in Index /\ word \in Nat /\ Says(word, frame)
  <2>1. M!PAGE \in Nat \ {0} /\ M!PAGE >= 4 /\ i \in Index
    BY PageSize, PageIndex
  <2>2. NULL \notin Nat
    BY DEF M!VmmAssumption
  <2> QED BY <2>1, <2>2 DEF Says
<1> HIDE DEF word
<1>4. CASE M!HasTable(t, K, v)
  <2> DEFINE at == M!PageBits(e) + 4 * (v % ENTRIES)
             u == [t EXCEPT !.mem[at] = word, !.mapped[v] = frame]
  <2>1. M!Map(t, K, v, frame, flags) = u
    BY <1>4 DEF M!Map, M!Put, M!WordOf, M!EntryOf, At, word
  <2>2. TreeTyped(u)
    BY <1>2, PutTyped
  <2>3. u.tables = t.tables /\ u.heap_ptr = t.heap_ptr /\ u.mem = [t.mem EXCEPT ![at] = word]
        /\ u.mapped = [t.mapped EXCEPT ![v] = frame]
    BY DEF TreeTyped
  <2>4. e % 2 = 1
    BY <1>4 DEF M!HasTable, M!Present, M!PRESENT, M!EntryOf, At
  <2> HIDE DEF u
  <2>5. ASSUME AlignedTree(u) PROVE Good(u, K, D)
    <3>1. Good(t, K, D)
      BY <2>3, <2>5 DEF AlignedTree
    <3>2. M!PageBits(e) = e - 3 /\ e # 0
      <4>1. AlignedTree(t)
        BY <2>3, <2>5 DEF AlignedTree
      <4> HIDE DEF e
      <4>2. At(t.mem, K, i) % 2 = 1
        BY <2>4 DEF e
      <4> HIDE DEF i
      <4> QED BY <1>2, <3>1, <4>1, <4>2, EntryBits DEF e
    <3> QED BY <1>2, <2>2, <2>3, <3>1, <3>2, PutKeeps
  <2> QED BY <1>1, <2>1, <2>2, <2>3, <2>5 DEF MapsTo
<1>5. CASE ~M!HasTable(t, K, v) /\ M!AtHeap(t.heap_ptr)!Fits(M!PAGE)
  <2> DEFINE w == M!NewTable(t, K, v)
             at == t.heap_ptr + 4 * (v % ENTRIES)
             u == [w EXCEPT !.mem[at] = word, !.mapped[v] = frame]
  <2>1. M!Map(t, K, v, frame, flags) = u
    BY <1>5 DEF M!Map, M!Put, M!WordOf, word
  <2>2. TreeTyped(w) /\ w.tables = t.tables \cup {t.heap_ptr} /\ t.heap_ptr <= w.heap_ptr
    <3>1. PICK m : m = [M!Zeroed(t.mem, t.heap_ptr) EXCEPT ![M!EntryOf(K, v)] = t.heap_ptr + 3]
      OBVIOUS
    <3>2. PICK g : g = M!AtHeap(t.heap_ptr)!Bumped(M!PAGE)
      OBVIOUS
    <3>3. m \in [M!Words -> Nat]
      <4>1. M!Zeroed(t.mem, t.heap_ptr) \in [M!Words -> Nat]
        BY <1>1, <1>2, ZeroedIs
      <4>2. t.heap_ptr + 3 \in Nat
        BY <1>1
      <4> QED BY <3>1, <4>1, <4>2
    <3>4. g \in Nat /\ g <= HEAP_SIZE /\ g % 4 = 0 /\ t.heap_ptr + M!PAGE <= g
      BY <1>1, <1>5, <3>2, PageFits
    <3>5. PICK k : k = t.tables \cup {t.heap_ptr}
      OBVIOUS
    <3>6. k \in SUBSET Nat
      BY <1>1, <3>5
    <3>7. w = [t EXCEPT !.mem = m, !.heap_ptr = g, !.tables = k]
      <4>1. t.heap_ptr + M!PRESENT + M!WRITABLE = t.heap_ptr + 3
        BY <1>1 DEF M!PRESENT, M!WRITABLE
      <4> QED BY <3>1, <3>2, <3>5, <4>1 DEF M!NewTable, TreeTyped
    <3> HIDE DEF w
    <3>8. TreeTyped(w) /\ w.tables = k /\ w.heap_ptr = g
      <4>1. PICK y : y = w
        OBVIOUS
      <4>2. y = [t EXCEPT !.mem = m, !.heap_ptr = g, !.tables = k]
        BY <3>7, <4>1
      <4>3. g <= HEAP_SIZE /\ g % 4 = 0 /\ g \in Nat
        BY <3>4
      <4>4. TreeTyped(y) /\ y.tables = k /\ y.heap_ptr = g
        BY <3>3, <3>6, <4>2, <4>3 DEF TreeTyped
      <4> QED BY <4>1, <4>4
    <3> QED BY <1>1, <1>2, <3>4, <3>5, <3>8
  <2> HIDE DEF w
  <2>3. TreeTyped(u)
    BY <1>2, <2>2, PutTyped
  <2>4. u.tables = w.tables /\ u.heap_ptr = w.heap_ptr /\ u.mem = [w.mem EXCEPT ![at] = word]
        /\ u.mapped = [w.mapped EXCEPT ![v] = frame]
    BY <2>2 DEF TreeTyped
  <2> HIDE DEF u
  <2>5. ASSUME AlignedTree(u) PROVE Good(u, K, D)
    <3>1. Good(t, K, D)
      BY <2>2, <2>4, <2>5 DEF AlignedTree
    <3>2. e = 0
      <4>1. e % 2 # 1
        BY <1>5 DEF M!HasTable, M!Present, M!PRESENT, M!EntryOf, At
      <4>2. ASSUME NEW b \in t.tables, e = b + 3 PROVE FALSE
        <5>1. b \in Nat /\ b % 4 = 0
          BY <1>1, <3>1 DEF Good, Places, IsBlock
        <5> HIDE DEF e
        <5> QED BY <4>1, <4>2, <5>1
      <4> QED BY <1>2, <3>1, <4>2 DEF Good, Entries
    <3>3. Good(w, K, D) /\ At(w.mem, K, i) = t.heap_ptr + 3
      BY <1>5, <3>1, <3>2, NewTableKeeps DEF w
    <3>4. At(w.mem, K, i) # 0 /\ At(w.mem, K, i) - 3 = t.heap_ptr
      BY <1>1, <3>3
    <3>5. u.mem = [w.mem EXCEPT ![At(w.mem, K, i) - 3 + 4 * (v % ENTRIES)] = word]
      BY <2>4, <3>4
    <3>6. u.tables = w.tables /\ u.heap_ptr = w.heap_ptr
          /\ u.mapped = [w.mapped EXCEPT ![v] = frame]
      BY <2>4
    <3>7. At(w.mem, K, v \div ENTRIES) # 0 /\ Good(w, K, D)
      BY <3>3, <3>4
    <3> QED BY <1>2, <2>2, <2>3, <3>5, <3>6, <3>7, PutKeeps
  <2> QED BY <1>1, <2>1, <2>2, <2>3, <2>4, <2>5 DEF MapsTo
<1>6. CASE ~M!HasTable(t, K, v) /\ ~M!AtHeap(t.heap_ptr)!Fits(M!PAGE)
  <2>1. M!Map(t, K, v, frame, flags) = t
    BY <1>6 DEF M!Map
  <2> QED BY <1>1, <2>1 DEF MapsTo
<1> QED BY <1>4, <1>5, <1>6

-----------------------------------------------------------------------------
(* The invariant of the page tables.                                       *)
VmmInv ==
  /\ TreeTyped(M!Tree)
  /\ \/ kernel_dir = NULL /\ M!NoTables
     \/ /\ kernel_dir # NULL
        /\ AlignedTree(M!Tree) => Good(M!Tree, kernel_dir, dirs)
        /\ current_dir \in dirs \cup {kernel_dir}

(* malloc, seen from here and from the tree.                               *)
LEMMA SameHeap ==
  \A h : heap_ptr = h => /\ M!Fits(M!PAGE) <=> M!AtHeap(h)!Fits(M!PAGE)
                         /\ M!Bumped(M!PAGE) = M!AtHeap(h)!Bumped(M!PAGE)
BY DEF M!Fits, M!Bumped, M!RoundUp, M!AtHeap!Fits, M!AtHeap!Bumped, M!AtHeap!RoundUp

(* A cleared directory without tables.                                     *)
LEMMA EmptyGood ==
  ASSUME M!VmmAssumption, NEW K \in Nat, K % 4 = 0, NEW u, TreeTyped(u), u.tables = {},
         K + M!PAGE <= u.heap_ptr, \A i \in Index : At(u.mem, K, i) = 0,
         \A v \in M!VirtualPages : u.mapped[v] = NULL
  PROVE  Good(u, K, {})
<1>1. Places(u, K, {})
  BY DEF Places, IsBlock
<1>2. Entries(u, K, {})
  BY DEF Entries
<1>3. Recorded(u, K)
  BY PageIndex DEF Recorded
<1> QED BY <1>1, <1>2, <1>3 DEF Good

(* vmm_init maps page after page, and leaves a good tree.                  *)
LEMMA InitKeeps ==
  ASSUME M!VmmAssumption, VmmInv, M!vmm_init
  PROVE  VmmInv'
<1> DEFINE start == [M!Tree EXCEPT !.mem = M!Zeroed(@, heap_ptr), !.heap_ptr = M!Bumped(M!PAGE)]
           Loop(h) == [i \in 0 .. ENTRIES |->
                         IF i = 0 THEN start
                         ELSE M!Map(h[i - 1], heap_ptr, i - 1, i - 1, M!PRESENT + M!WRITABLE)]
           upto == CHOOSE h : h = Loop(h)
<1>1. /\ kernel_dir = NULL /\ M!Fits(M!PAGE) /\ M!TreeIs(upto[ENTRIES])
      /\ kernel_dir' = heap_ptr /\ current_dir' = heap_ptr /\ dirs' = dirs
  BY DEF M!vmm_init
<1>2. TreeTyped(M!Tree) /\ M!NoTables
  BY <1>1 DEF VmmInv
<1>3. PICK K : K = heap_ptr
  OBVIOUS
<1>4. PICK s0 : s0 = start
  OBVIOUS
<1> HIDE DEF start
<1>5. /\ K \in Nat /\ K <= HEAP_SIZE /\ K % 4 = 0 /\ mem \in [M!Words -> Nat]
      /\ mapped = [v \in M!VirtualPages |-> NULL] /\ tables = {} /\ dirs = {}
      /\ mapped \in [M!VirtualPages -> Nat \cup {NULL}]
  BY <1>2, <1>3 DEF TreeTyped, M!Tree, M!NoTables
<1>6. M!PAGE \in Nat /\ ENTRIES \in Nat /\ ENTRIES >= 1 /\ M!PRESENT + M!WRITABLE \in 0 .. 3
  BY PageSize DEF M!VmmAssumption, M!PRESENT, M!WRITABLE
<1> DEFINE TreeSet == [mem : [M!Words -> Nat], heap_ptr : Nat, tables : SUBSET Nat,
                       mapped : [M!VirtualPages -> Nat \cup {NULL}]]
           Trees == {t \in TreeSet : TreeTyped(t) /\ (AlignedTree(t) => Good(t, K, {}))}
           F == [z \in Trees \X (1 .. ENTRIES) |->
                   M!Map(z[1], K, z[2] - 1, z[2] - 1, M!PRESENT + M!WRITABLE)]
<1>7. s0 \in Trees
  <2>1. PICK m, g : m = M!Zeroed(mem, K) /\ g = M!AtHeap(K)!Bumped(M!PAGE)
    OBVIOUS
  <2>2. g \in Nat /\ K + M!PAGE <= g /\ g <= HEAP_SIZE /\ g % 4 = 0
    <3>1. M!AtHeap(K)!Fits(M!PAGE)
      BY <1>1, <1>3, SameHeap
    <3> QED BY <1>5, <2>1, <3>1, PageFits
  <2>3. m \in [M!Words -> Nat] /\ \A i \in Index : At(m, K, i) = 0
    <3>1. ASSUME NEW i \in Index
          PROVE  At(m, K, i) = 0
      <4>1. K + 4 * i \in M!Words
        <5>1. IsBlock(K, g)
          BY <1>5, <2>2 DEF IsBlock
        <5> QED BY <2>2, <5>1, WordIn
      <4> QED BY <1>5, <2>1, <4>1, ZeroedIs
    <3>2. m \in [M!Words -> Nat]
      BY <1>5, <2>1 DEF M!Zeroed
    <3> QED BY <3>1, <3>2
  <2>4. s0 = [mem |-> m, heap_ptr |-> g, tables |-> {}, mapped |-> mapped]
    <3>1. M!Bumped(M!PAGE) = g /\ M!Zeroed(mem, heap_ptr) = m
      BY <1>3, <2>1, SameHeap
    <3> QED BY <1>4, <1>5, <3>1 DEF start, M!Tree
  <2>5. TreeTyped(s0) /\ s0.tables = {} /\ s0.heap_ptr = g /\ s0.mem = m /\ s0.mapped = mapped
    BY <1>5, <2>2, <2>3, <2>4 DEF TreeTyped
  <2>6. Good(s0, K, {})
    BY <1>5, <2>2, <2>3, <2>5, EmptyGood
  <2> QED BY <2>5, <2>6 DEF TreeTyped
<1>8. \A t \in Trees, i \in 1 .. ENTRIES :
         M!Map(t, K, i - 1, i - 1, M!PRESENT + M!WRITABLE) \in Trees
  <2> SUFFICES ASSUME NEW t \in Trees, NEW i \in 1 .. ENTRIES
               PROVE  M!Map(t, K, i - 1, i - 1, M!PRESENT + M!WRITABLE) \in Trees
    OBVIOUS
  <2>1. i - 1 \in M!VirtualPages /\ i - 1 \in Nat
    BY <1>6, FirstPages DEF Index
  <2>2. TreeTyped(t) /\ (AlignedTree(t) => Good(t, K, {}))
    OBVIOUS
  <2>3. MapsTo(t, M!Map(t, K, i - 1, i - 1, M!PRESENT + M!WRITABLE), K, {})
    BY <1>6, <2>1, <2>2, MapKeeps
  <2> QED BY <2>3 DEF MapsTo, TreeTyped
<1>9. F \in [Trees \X (1 .. ENTRIES) -> Trees]
  BY <1>8
<1> HIDE DEF Trees
<1>10. PICK g \in [0 .. ENTRIES -> Trees] : /\ g[0] = s0
                                        /\ \A i \in 1 .. ENTRIES : g[i] = F[<<g[i - 1], i>>]
  <2> HIDE DEF F
  <2>1. \E g : IsLoop(g, ENTRIES, Trees, s0, F)
    BY <1>6, <1>7, <1>9, LoopExists
  <2> QED BY <2>1 DEF IsLoop
<1>11. g = Loop(g)
  <2>1. ASSUME NEW i \in 0 .. ENTRIES PROVE g[i] = Loop(g)[i]
    <3>1. CASE i = 0
      BY <1>4, <1>10, <3>1
    <3>2. CASE i \in 1 .. ENTRIES
      <4>1. <<g[i - 1], i>> \in Trees \X (1 .. ENTRIES)
        <5>1. i - 1 \in 0 .. ENTRIES
          BY <1>6, <3>2
        <5> QED BY <1>10, <3>2, <5>1
      <4>2. F[<<g[i - 1], i>>] = M!Map(g[i - 1], K, i - 1, i - 1, M!PRESENT + M!WRITABLE)
        BY <4>1
      <4>3. Loop(g)[i] = M!Map(g[i - 1], heap_ptr, i - 1, i - 1, M!PRESENT + M!WRITABLE)
        BY <1>6, <3>2
      <4>4. g[i] = F[<<g[i - 1], i>>]
        BY <1>10, <3>2
      <4> HIDE DEF F, Loop
      <4> QED BY <1>3, <4>2, <4>3, <4>4
    <3> QED BY <1>6, <3>1, <3>2
  <2>2. g = [i \in 0 .. ENTRIES |-> g[i]]
    BY <1>10
  <2> HIDE DEF Loop
  <2>3. Loop(g) = [i \in 0 .. ENTRIES |-> Loop(g)[i]]
    BY DEF Loop
  <2> QED BY <2>1, <2>2, <2>3, Zenon
<1>12. upto = Loop(upto)
  BY <1>11
<1> HIDE DEF upto
<1>13. /\ upto[0] = s0
       /\ \A i \in 1 .. ENTRIES :
            upto[i] = M!Map(upto[i - 1], K, i - 1, i - 1, M!PRESENT + M!WRITABLE)
  <2>1. \A i \in 0 .. ENTRIES : upto[i] = Loop(upto)[i]
    BY <1>12
  <2> QED BY <1>3, <1>4, <1>6, <2>1
<1>14. upto[ENTRIES] \in Trees
  <2>1. \A i \in 1 .. ENTRIES : upto[i - 1] \in Trees => upto[i] \in Trees
    BY <1>8, <1>13
  <2>2. upto[0] \in Trees
    BY <1>7, <1>13
  <2> QED BY <1>6, <2>1, <2>2, LoopInvariant
<1>15. PICK t : t = upto[ENTRIES]
  OBVIOUS
<1>16. TreeTyped(t) /\ (AlignedTree(t) => Good(t, K, {}))
  BY <1>14, <1>15 DEF Trees
<1>17. M!Tree' = t /\ kernel_dir' = K /\ current_dir' = K /\ dirs' = {}
  <2>1. t = [mem |-> t.mem, heap_ptr |-> t.heap_ptr, tables |-> t.tables, mapped |-> t.mapped]
    BY <1>16 DEF TreeTyped
  <2> QED BY <1>1, <1>3, <1>5, <1>15, <2>1 DEF M!TreeIs, M!Tree
<1>18. K # NULL
  BY <1>5 DEF M!VmmAssumption
<1> QED BY <1>16, <1>17, <1>18 DEF VmmInv

(* A page is mapped, or finds no room for its table.                       *)
LEMMA MapInv ==
  ASSUME M!VmmAssumption, VmmInv, NEW v \in VPages, NEW frame \in Frames, NEW flags \in Flags,
         M!vmm_map(v, frame, flags)
  PROVE  VmmInv'
<1>1. /\ kernel_dir # NULL /\ M!TreeIs(M!Map(M!Tree, kernel_dir, v, frame, flags))
      /\ kernel_dir' = kernel_dir /\ current_dir' = current_dir /\ dirs' = dirs
  BY DEF M!vmm_map
<1>2. /\ TreeTyped(M!Tree) /\ current_dir \in dirs \cup {kernel_dir}
      /\ AlignedTree(M!Tree) => Good(M!Tree, kernel_dir, dirs)
  BY <1>1 DEF VmmInv
<1>3. v \in M!VirtualPages /\ frame \in Nat /\ flags \in 0 .. 3
  BY DEF M!VmmAssumption, M!VirtualPages, M!PRESENT, M!WRITABLE
<1>4. PICK t, K, D : t = M!Tree /\ K = kernel_dir /\ D = dirs
  OBVIOUS
<1>5. PICK u : u = M!Map(M!Tree, kernel_dir, v, frame, flags)
  OBVIOUS
<1>6. MapsTo(t, u, K, D)
  <2>1. TreeTyped(t) /\ (AlignedTree(t) => Good(t, K, D))
    BY <1>2, <1>4
  <2>2. MapsTo(t, M!Map(t, K, v, frame, flags), K, D)
    BY <1>3, <2>1, MapKeeps
  <2> QED BY <1>4, <1>5, <2>2
<1>7. M!Tree' = u
  <2>1. u = [mem |-> u.mem, heap_ptr |-> u.heap_ptr, tables |-> u.tables, mapped |-> u.mapped]
    BY <1>6 DEF MapsTo, TreeTyped
  <2>2. M!TreeIs(u)
    BY <1>1, <1>5
  <2> QED BY <2>1, <2>2 DEF M!TreeIs, M!Tree
<1> QED BY <1>1, <1>2, <1>4, <1>6, <1>7 DEF VmmInv, MapsTo

(* A page is unmapped.                                                     *)
LEMMA UnmapInv ==
  ASSUME M!VmmAssumption, VmmInv, NEW v \in VPages, M!vmm_unmap(v)
  PROVE  VmmInv'
<1>1. /\ kernel_dir # NULL /\ M!Aligned /\ M!HasTable(M!Tree, kernel_dir, v)
      /\ mem' = [mem EXCEPT ![M!WordOf(M!PageBits(mem[M!EntryOf(kernel_dir, v)]), v)] = 0]
      /\ mapped' = [mapped EXCEPT ![v] = NULL]
      /\ heap_ptr' = heap_ptr /\ tables' = tables
      /\ kernel_dir' = kernel_dir /\ current_dir' = current_dir /\ dirs' = dirs
  BY DEF M!vmm_unmap
<1>2. /\ TreeTyped(M!Tree) /\ current_dir \in dirs \cup {kernel_dir} /\ AlignedTree(M!Tree)
      /\ Good(M!Tree, kernel_dir, dirs)
  BY <1>1 DEF VmmInv, AlignedTree, M!Aligned, M!Tree
<1>3. PICK t, K, D : t = M!Tree /\ K = kernel_dir /\ D = dirs
  OBVIOUS
<1>4. PICK u : u = M!Tree'
  OBVIOUS
<1> DEFINE i == v \div ENTRIES
           e == At(t.mem, K, i)
<1>5. v \in M!VirtualPages /\ i \in Index
  BY PageIndex DEF M!VmmAssumption, M!VirtualPages
<1>6. t.mem = mem /\ t.heap_ptr = heap_ptr /\ t.tables = tables /\ t.mapped = mapped
  BY <1>3 DEF M!Tree
<1>7. e % 2 = 1
  BY <1>1, <1>3 DEF M!HasTable, M!Present, M!PRESENT, M!EntryOf, At
<1>8. M!PageBits(e) = e - 3 /\ e # 0
  BY <1>2, <1>3, <1>5, <1>7, EntryBits
<1>9. /\ u.mem = [t.mem EXCEPT ![e - 3 + 4 * (v % ENTRIES)] = 0]
      /\ u.mapped = [t.mapped EXCEPT ![v] = NULL]
      /\ u.heap_ptr = t.heap_ptr /\ u.tables = t.tables
  <2>1. mem[M!EntryOf(kernel_dir, v)] = e
    BY <1>3, <1>6 DEF M!EntryOf, At
  <2>2. u = [mem |-> mem', heap_ptr |-> heap_ptr', tables |-> tables', mapped |-> mapped']
    BY <1>4 DEF M!Tree
  <2> HIDE DEF e
  <2> QED BY <1>1, <1>6, <1>8, <2>1, <2>2 DEF M!WordOf
<1>10. TreeTyped(u)
  <2>1. TreeTyped(t)
    BY <1>2, <1>3
  <2>2. u = [mem |-> u.mem, heap_ptr |-> u.heap_ptr, tables |-> u.tables, mapped |-> u.mapped]
    BY <1>4 DEF M!Tree
  <2>3. u.mem \in [M!Words -> Nat]
    <3>1. t.mem \in [M!Words -> Nat]
      BY <2>1 DEF TreeTyped
    <3>2. PICK m, at : m = t.mem /\ at = e - 3 + 4 * (v % ENTRIES)
      OBVIOUS
    <3>3. [m EXCEPT ![at] = 0] \in [M!Words -> Nat]
      BY <3>1, <3>2
    <3> HIDE DEF e
    <3> QED BY <1>9, <3>2, <3>3
  <2>4. /\ u.heap_ptr \in Nat /\ u.tables \in SUBSET Nat
        /\ u.mapped \in [M!VirtualPages -> Nat \cup {NULL}]
        /\ u.heap_ptr <= HEAP_SIZE /\ u.heap_ptr % 4 = 0
    BY <1>9, <2>1 DEF TreeTyped
  <2> QED BY <2>2, <2>3, <2>4 DEF TreeTyped
<1>11. Good(u, K, D)
  <2>1. Says(0, NULL)
    BY DEF Says
  <2>2. TreeTyped(t) /\ Good(t, K, D)
    BY <1>2, <1>3
  <2> QED BY <1>5, <1>8, <1>9, <1>10, <2>1, <2>2, PutKeeps
<1> QED BY <1>1, <1>2, <1>3, <1>4, <1>10, <1>11 DEF VmmInv

(* A word of a block is one of its entries.                                *)
LEMMA WordOfBlock ==
  ASSUME M!VmmAssumption, NEW h \in Nat, h % 4 = 0, NEW a \in M!Words,
         a \in h .. h + M!PAGE - 1
  PROVE  \E i \in Index : a = h + 4 * i
<1>1. PICK k \in Nat : a = 4 * k
  BY HeapAssumption DEF M!Words
<1>2. PICK j \in Nat : h = 4 * j
  OBVIOUS
<1>3. ENTRIES \in Nat /\ M!PAGE = 4 * ENTRIES
  BY DEF M!VmmAssumption, M!PAGE
<1>4. k - j \in Index /\ a = h + 4 * (k - j)
  BY <1>1, <1>2, <1>3 DEF Index
<1> QED BY <1>4

(* A directory is copied behind all blocks.                                *)
LEMMA CreateKeeps ==
  ASSUME M!VmmAssumption, NEW K, NEW D, NEW t, TreeTyped(t), Good(t, K, D),
         NEW u, NEW g \in Nat, t.heap_ptr + M!PAGE <= g, g <= HEAP_SIZE, g % 4 = 0,
         u = [mem |-> [a \in M!Words |-> IF a \in t.heap_ptr .. t.heap_ptr + M!PAGE - 1
                                       THEN t.mem[K + a - t.heap_ptr] ELSE t.mem[a]],
              heap_ptr |-> g, tables |-> t.tables, mapped |-> t.mapped]
  PROVE  TreeTyped(u) /\ Good(u, K, D \cup {t.heap_ptr})
<1> DEFINE h == t.heap_ptr
<1>1. /\ t.mem \in [M!Words -> Nat] /\ h \in Nat /\ h <= HEAP_SIZE /\ h % 4 = 0
      /\ t.mapped \in [M!VirtualPages -> Nat \cup {NULL}] /\ t.tables \in SUBSET Nat
  BY DEF TreeTyped
<1>2. M!PAGE \in Nat \ {0} /\ \A i \in Index : i \in Nat /\ 4 * i \in Nat /\ 4 * i + 4 <= M!PAGE
  BY PageSize
<1>3. Places(t, K, D) /\ Entries(t, K, D) /\ Recorded(t, K)
  BY DEF Good
<1>4. /\ IsBlock(h, g)
      /\ \A b \in {K} \cup D \cup t.tables :
           /\ IsBlock(b, g) /\ b # h /\ Apart(b, h) /\ Apart(h, b)
  BY <1>2, <1>3, BehindAll
<1>5. \A b \in {K} \cup D \cup t.tables \cup {h}, i \in Index : b + 4 * i \in M!Words
  BY <1>4, WordIn
<1>6. \A b \in {K} \cup D \cup t.tables \cup {h} : b \in Nat
  BY <1>1, <1>4 DEF IsBlock
<1>7. /\ u.heap_ptr = g /\ u.tables = t.tables /\ u.mapped = t.mapped
      /\ u.mem = [a \in M!Words |-> IF a \in h .. h + M!PAGE - 1
                                  THEN t.mem[K + a - h] ELSE t.mem[a]]
      /\ u = [mem |-> u.mem, heap_ptr |-> u.heap_ptr, tables |-> u.tables, mapped |-> u.mapped]
  OBVIOUS
<1> HIDE DEF h
<1>8. ASSUME NEW i \in Index
      PROVE  At(u.mem, h, i) = At(t.mem, K, i)
  <2>1. h + 4 * i \in h .. h + M!PAGE - 1 /\ K + (h + 4 * i) - h = K + 4 * i
    BY <1>1, <1>2, <1>6
  <2> QED BY <1>5, <1>7, <2>1 DEF At
<1>9. ASSUME NEW b \in {K} \cup D \cup t.tables, NEW i \in Index
      PROVE  At(u.mem, b, i) = At(t.mem, b, i)
  <2>1. b + 4 * i \notin h .. h + M!PAGE - 1
    <3>1. Apart(b, h) /\ b \in Nat
      BY <1>4, <1>6
    <3> QED BY <1>1, <1>2, <3>1 DEF Apart
  <2> QED BY <1>5, <1>7, <2>1 DEF At
<1>10. u.mem \in [M!Words -> Nat]
  <2>1. ASSUME NEW a \in M!Words,
         a \in h .. h + M!PAGE - 1
        PROVE  t.mem[K + a - h] \in Nat
    <3>1. PICK i \in Index : a = h + 4 * i
      BY <1>1, <2>1, WordOfBlock
    <3>2. K + a - h = K + 4 * i
      BY <1>1, <1>2, <1>6, <3>1
    <3> QED BY <1>1, <1>5, <3>2
  <2> QED BY <1>1, <1>7, <2>1
<1>11. TreeTyped(u)
  BY <1>1, <1>7, <1>10 DEF TreeTyped
<1>12. Places(u, K, D \cup {h})
  <2>1. \A b \in {K} \cup (D \cup {h}) \cup u.tables : IsBlock(b, u.heap_ptr)
    BY <1>4, <1>7
  <2>2. ASSUME NEW b \in {K} \cup (D \cup {h}) \cup u.tables,
               NEW e \in {K} \cup (D \cup {h}) \cup u.tables, b # e
        PROVE  Apart(b, e)
    <3>1. CASE b = h \/ e = h
      BY <1>4, <1>7, <2>2, <3>1
    <3>2. CASE b # h /\ e # h
      BY <1>3, <1>7, <2>2, <3>2 DEF Places
    <3> QED BY <3>1, <3>2
  <2> QED BY <1>3, <1>4, <1>7, <2>1, <2>2 DEF Places
<1>13. Entries(u, K, D \cup {h})
  BY <1>3, <1>7, <1>8, <1>9 DEF Entries
<1>14. Recorded(u, K)
  <2> SUFFICES ASSUME NEW w \in M!VirtualPages
               PROVE  LET e == At(u.mem, K, w \div ENTRIES)
                      IN  IF e = 0 THEN u.mapped[w] = NULL
                          ELSE Says(At(u.mem, e - 3, w % ENTRIES), u.mapped[w])
    BY DEF Recorded
  <2>1. PICK i \in Index, r \in Index : i = w \div ENTRIES /\ r = w % ENTRIES
    BY PageIndex
  <2>2. IF At(t.mem, K, i) = 0 THEN t.mapped[w] = NULL
        ELSE Says(At(t.mem, At(t.mem, K, i) - 3, r), t.mapped[w])
    BY <1>3, <2>1 DEF Recorded
  <2>3. At(u.mem, K, i) = At(t.mem, K, i)
    BY <1>9
  <2>4. CASE At(t.mem, K, i) # 0
    <3>1. PICK b \in t.tables : At(t.mem, K, i) = b + 3
      BY <1>3, <2>4 DEF Entries
    <3>2. At(t.mem, K, i) - 3 = b
      BY <1>6, <3>1
    <3>3. At(u.mem, b, r) = At(t.mem, b, r)
      BY <1>9
    <3> QED BY <1>7, <2>1, <2>2, <2>3, <2>4, <3>2, <3>3
  <2> QED BY <1>7, <2>1, <2>2, <2>3, <2>4
<1> QED BY <1>11, <1>12, <1>13, <1>14 DEF Good, h

LEMMA CreateInv ==
  ASSUME M!VmmAssumption, VmmInv, M!vmm_create_dir
  PROVE  VmmInv'
<1>1. /\ kernel_dir # NULL /\ M!Aligned /\ M!Fits(M!PAGE) /\ heap_ptr' = M!Bumped(M!PAGE)
      /\ mem' = [a \in M!Words |-> IF a \in heap_ptr .. heap_ptr + M!PAGE - 1
                                 THEN mem[kernel_dir + a - heap_ptr] ELSE mem[a]]
      /\ dirs' = dirs \cup {heap_ptr}
      /\ kernel_dir' = kernel_dir /\ current_dir' = current_dir
      /\ tables' = tables /\ mapped' = mapped
  BY DEF M!vmm_create_dir, M!Allocate
<1>2. /\ TreeTyped(M!Tree) /\ current_dir \in dirs \cup {kernel_dir}
      /\ Good(M!Tree, kernel_dir, dirs)
  BY <1>1 DEF VmmInv, AlignedTree, M!Aligned, M!Tree
<1>3. PICK t, K, D : t = M!Tree /\ K = kernel_dir /\ D = dirs
  OBVIOUS
<1>4. PICK u, g : u = M!Tree' /\ g = heap_ptr'
  OBVIOUS
<1>5. t.mem = mem /\ t.heap_ptr = heap_ptr /\ t.tables = tables /\ t.mapped = mapped
  BY <1>3 DEF M!Tree
<1>6. /\ t.heap_ptr \in Nat /\ t.heap_ptr <= HEAP_SIZE /\ TreeTyped(t) /\ Good(t, K, D)
  BY <1>2, <1>3 DEF TreeTyped
<1>7. g \in Nat /\ t.heap_ptr + M!PAGE <= g /\ g <= HEAP_SIZE /\ g % 4 = 0
  <2>1. PICK h : h = heap_ptr
    OBVIOUS
  <2>2. M!AtHeap(h)!Fits(M!PAGE) /\ g = M!AtHeap(h)!Bumped(M!PAGE)
    BY <1>1, <1>4, <2>1, SameHeap
  <2> QED BY <1>5, <1>6, <2>1, <2>2, PageFits
<1>8. u = [mem |-> [a \in M!Words |-> IF a \in t.heap_ptr .. t.heap_ptr + M!PAGE - 1
                                    THEN t.mem[K + a - t.heap_ptr] ELSE t.mem[a]],
           heap_ptr |-> g, tables |-> t.tables, mapped |-> t.mapped]
  BY <1>1, <1>3, <1>4, <1>5 DEF M!Tree
<1>9. TreeTyped(u) /\ Good(u, K, D \cup {t.heap_ptr})
  BY <1>6, <1>7, <1>8, CreateKeeps
<1> QED BY <1>1, <1>2, <1>3, <1>4, <1>5, <1>9 DEF VmmInv

(* An allocation for somebody else moves all blocks further below.         *)
LEMMA OtherInv ==
  ASSUME M!VmmAssumption, NoneWraps, VmmInv, NEW sz \in OtherSizes, M!Other(sz)
  PROVE  VmmInv'
<1>1. /\ M!Fits(sz) /\ heap_ptr' = M!Bumped(sz)
      /\ mem' = mem /\ kernel_dir' = kernel_dir /\ current_dir' = current_dir
      /\ dirs' = dirs /\ tables' = tables /\ mapped' = mapped
  BY DEF M!Other, M!Allocate
<1>2. /\ heap_ptr \in Nat /\ heap_ptr <= HEAP_SIZE /\ TreeTyped(M!Tree)
  BY DEF VmmInv, TreeTyped, M!Tree
<1>3. /\ heap_ptr' \in Nat /\ heap_ptr <= heap_ptr' /\ heap_ptr' <= HEAP_SIZE
      /\ heap_ptr' % 4 = 0
  <2>1. sz \in Nat /\ HEAP_SIZE \in Nat /\ WIDTH \in Nat \ {0} /\ HEAP_SIZE + sz < WIDTH
        /\ ALIGN % 4 = 0
    BY HeapAssumption DEF M!VmmAssumption, NoneWraps
  <2>2. PICK p \in Nat : p = heap_ptr + sz
    BY <1>2, <2>1
  <2>3. p % WIDTH = p
    BY <1>2, <2>1, <2>2
  <2>4. p <= HEAP_SIZE /\ heap_ptr' = ((p + ALIGN - 1) \div ALIGN) * ALIGN
    BY <1>1, <2>2, <2>3 DEF M!Fits, M!Bumped, M!RoundUp
  <2>5. heap_ptr' \in Nat /\ heap_ptr <= heap_ptr' /\ heap_ptr' <= HEAP_SIZE /\ heap_ptr' % 4 = 0
    <3>1. PICK b : b = heap_ptr'
      OBVIOUS
    <3>2. b \in Nat /\ p <= b /\ b <= HEAP_SIZE /\ b % 4 = 0
      BY <2>1, <2>4, <3>1, RoundsUp
    <3>3. PICK h : h = heap_ptr
      OBVIOUS
    <3>4. h \in Nat /\ h <= p
      BY <1>2, <2>1, <2>2, <3>3
    <3>5. h <= b
      BY <3>2, <3>4
    <3> QED BY <3>1, <3>2, <3>3, <3>5
  <2> QED BY <2>5
<1>4. TreeTyped(M!Tree')
  BY <1>1, <1>2, <1>3 DEF TreeTyped, M!Tree
<1>5. ASSUME Good(M!Tree, kernel_dir, dirs) PROVE Good(M!Tree', kernel_dir, dirs)
  <2>1. PICK t, u : t = M!Tree /\ u = M!Tree'
    OBVIOUS
  <2>2. /\ u.mem = t.mem /\ u.tables = t.tables /\ u.mapped = t.mapped
        /\ t.heap_ptr = heap_ptr /\ u.heap_ptr = heap_ptr'
    BY <1>1, <2>1 DEF M!Tree
  <2>3. Places(u, kernel_dir, dirs)
    <3>1. M!PAGE \in Nat
      BY PageSize
    <3>2. \A b : IsBlock(b, t.heap_ptr) => IsBlock(b, u.heap_ptr)
      BY <1>2, <1>3, <2>2, <3>1 DEF IsBlock
    <3> QED BY <1>5, <2>1, <2>2, <3>2 DEF Good, Places
  <2> QED BY <1>5, <2>1, <2>2, <2>3 DEF Good, Entries, Recorded
<1>6. AlignedTree(M!Tree)' => AlignedTree(M!Tree)
  BY <1>1 DEF AlignedTree, M!Tree
<1>7. M!NoTables => M!NoTables'
  BY <1>1 DEF M!NoTables
<1> QED BY <1>1, <1>4, <1>5, <1>6, <1>7 DEF VmmInv

(* The heap and the tables start in the invariant.                         *)
LEMMA StartInv ==
  ASSUME M!VmmAssumption, heap_ptr \in Nat, heap_ptr <= HEAP_SIZE, heap_ptr % 4 = 0, M!NoTables
  PROVE  VmmInv
<1>1. mem \in [M!Words -> Nat] /\ mapped \in [M!VirtualPages -> Nat \cup {NULL}]
      /\ tables \in SUBSET Nat
  BY DEF M!NoTables
<1>2. TreeTyped(M!Tree)
  BY <1>1 DEF TreeTyped, M!Tree
<1> QED BY <1>2 DEF VmmInv, M!NoTables

(* Every call keeps the invariant.                                         *)
LEMMA NextInv ==
  ASSUME M!VmmAssumption, NoneWraps, VmmInv, [M!Next]_(M!vars)
  PROVE  VmmInv'
<1>1. CASE M!vmm_init
  BY <1>1, InitKeeps
<1>2. ASSUME NEW v \in VPages, NEW frame \in Frames, NEW flags \in Flags,
             M!vmm_map(v, frame, flags)
      PROVE  VmmInv'
  BY <1>2, MapInv
<1>3. ASSUME NEW v \in VPages, M!vmm_unmap(v) PROVE VmmInv'
  BY <1>3, UnmapInv
<1>4. CASE M!vmm_create_dir
  BY <1>4, CreateInv
<1>5. ASSUME NEW dir \in dirs, M!vmm_switch(dir) PROVE VmmInv'
  <2>1. /\ heap_ptr' = heap_ptr /\ mem' = mem /\ kernel_dir' = kernel_dir /\ dirs' = dirs
        /\ tables' = tables /\ mapped' = mapped /\ current_dir' = dir
    BY <1>5 DEF M!vmm_switch
  <2>2. M!Tree' = M!Tree /\ kernel_dir # NULL
    BY <2>1 DEF M!Tree, VmmInv, M!NoTables
  <2> QED BY <2>1, <2>2 DEF VmmInv
<1>6. ASSUME NEW sz \in OtherSizes, M!Other(sz) PROVE VmmInv'
  BY <1>6, OtherInv
<1>7. CASE UNCHANGED M!vars
  BY <1>7 DEF M!vars, VmmInv, M!Tree, M!NoTables
<1> QED BY <1>1, <1>2, <1>3, <1>4, <1>5, <1>6, <1>7 DEF M!Next, M!Lookup

(* The page bits of the word of a page are its frame.                      *)
LEMMA FrameBits ==
  ASSUME M!VmmAssumption, NEW frame \in Nat, NEW f \in 0 .. 3
  PROVE  M!PageBits(frame * M!PAGE + f) = frame * M!PAGE
<1>1. M!PAGE \in Nat \ {0} /\ M!PAGE >= 4
  BY PageSize
<1>2. (M!PAGE * frame + f) % M!PAGE = f
  BY <1>1, ModUnique
<1>3. PICK m \in Nat : m = frame * M!PAGE /\ m = M!PAGE * frame
  BY <1>1
<1> QED BY <1>2, <1>3 DEF M!PageBits

(* A byte of a page that is not the first has an offset of its own.        *)
LEMMA MappedByte ==
  ASSUME M!VmmAssumption, NEW frame \in Nat, NEW offset \in 0 .. M!PAGE - 1
  PROVE  frame * M!PAGE + offset = 0 <=> frame = 0 /\ offset = 0
<1>1. M!PAGE \in Nat \ {0} /\ offset \in Nat
  BY PageSize
<1>2. CASE frame = 0
  BY <1>1, <1>2
<1>3. CASE frame # 0
  <2>1. PICK f \in Nat : frame = f + 1
    BY <1>3
  <2>2. PICK p \in Nat : p = M!PAGE /\ p > 0
    BY <1>1
  <2>3. f * p \in Nat /\ frame * p = f * p + p
    BY <2>1, <2>2
  <2> QED BY <1>1, <1>3, <2>2, <2>3
<1> QED BY <1>2, <1>3

(* What the invariant says of translation.                                 *)
LEMMA TreeTranslates ==
  ASSUME M!VmmAssumption, VmmInv
  PROVE  M!TranslatesAsMapped
<1> SUFFICES ASSUME kernel_dir # NULL, M!Aligned
             PROVE  /\ \A v \in M!VirtualPages, offset \in 0 .. M!PAGE - 1 :
                         /\ M!Phys(kernel_dir, v, offset) = M!Translation(v, offset)
                         /\ M!vmm_is_mapped(v, offset)
                              <=> ((mapped[v] # NULL) <=> ~M!Misjudged(v, offset))
                    /\ \A dir \in dirs, v \in M!VirtualPages, offset \in 0 .. M!PAGE - 1 :
                         M!Present(mem[M!EntryOf(dir, v)])
                           => M!Phys(dir, v, offset) = M!Phys(kernel_dir, v, offset)
                    /\ current_dir \in dirs \cup {kernel_dir}
  BY DEF M!TranslatesAsMapped
<1>1. PICK t, K, D : t = M!Tree /\ K = kernel_dir /\ D = dirs
  OBVIOUS
<1>2. /\ TreeTyped(t) /\ Good(t, K, D) /\ AlignedTree(t)
      /\ current_dir \in dirs \cup {kernel_dir}
  BY <1>1 DEF VmmInv, AlignedTree, M!Aligned, M!Tree
<1>3. /\ t.mem = mem /\ t.mapped = mapped
      /\ mapped \in [M!VirtualPages -> Nat \cup {NULL}] /\ NULL \notin Nat
  BY <1>1, <1>2 DEF M!Tree, TreeTyped, M!VmmAssumption
<1>4. \A d, v : mem[M!EntryOf(d, v)] = At(mem, d, v \div ENTRIES)
  BY DEF M!EntryOf, At
<1>5. ASSUME NEW v \in M!VirtualPages, NEW offset \in 0 .. M!PAGE - 1
      PROVE  /\ M!Phys(kernel_dir, v, offset) = M!Translation(v, offset)
             /\ M!vmm_is_mapped(v, offset)
                  <=> ((mapped[v] # NULL) <=> ~M!Misjudged(v, offset))
  <2>1. PICK e : e = At(mem, K, v \div ENTRIES)
    OBVIOUS
  <2>2. IF e = 0 THEN mapped[v] = NULL
        ELSE Says(At(mem, e - 3, v % ENTRIES), mapped[v])
    BY <1>2, <1>3, <2>1 DEF Good, Recorded
  <2>3. e = 0 \/ \E b \in t.tables : e = b + 3
    BY <1>2, <1>3, <2>1, PageIndex DEF Good, Entries
  <2>4. M!HasTable(M!Tree, kernel_dir, v) <=> M!Present(e)
    BY <1>1, <1>3, <1>4, <2>1 DEF M!HasTable
  <2>5. M!PAGE \in Nat \ {0} /\ offset \in Nat
    BY PageSize
  <2>6. CASE e = 0
    <3>1. ~M!Present(e)
      BY <2>6 DEF M!Present, M!PRESENT
    <3>2. M!Phys(kernel_dir, v, offset) = 0
      BY <1>1, <1>4, <2>1, <3>1 DEF M!Phys
    <3>3. mapped[v] = NULL
      BY <2>2, <2>6
    <3> QED BY <1>3, <2>4, <3>1, <3>2, <3>3 DEF M!vmm_is_mapped, M!Translation, M!Misjudged
  <2>7. CASE e # 0
    <3>1. e % 2 = 1 /\ M!Present(e)
      <4>1. PICK b \in t.tables : e = b + 3
        BY <2>3, <2>7
      <4>2. b \in Nat /\ b % 4 = 0
        BY <1>2 DEF Good, Places, IsBlock
      <4> QED BY <4>1, <4>2 DEF M!Present, M!PRESENT
    <3>2. M!PageBits(e) = e - 3
      BY <1>2, <1>3, <2>1, <3>1, PageIndex, EntryBits
    <3>3. PICK w : w = At(mem, e - 3, v % ENTRIES)
      OBVIOUS
    <3>4. M!Phys(kernel_dir, v, offset) = M!PageBits(w) + offset
      BY <1>1, <1>4, <2>1, <3>1, <3>2, <3>3 DEF M!Phys, M!Present, M!PRESENT, M!WordOf, At
    <3>5. CASE mapped[v] = NULL
      <4>1. w = 0
        BY <2>2, <2>7, <3>3, <3>5 DEF Says
      <4>2. M!PageBits(w) + offset = offset
        BY <2>5, <4>1 DEF M!PageBits
      <4>3. mapped[v] # 0 /\ (offset > 0 <=> offset # 0)
        BY <1>3, <2>5, <3>5
      <4> QED BY <2>4, <3>1, <3>4, <3>5, <4>2, <4>3
              DEF M!vmm_is_mapped, M!Translation, M!Misjudged
    <3>6. CASE mapped[v] # NULL
      <4>1. mapped[v] \in Nat
        BY <1>3, <3>6
      <4>2. PICK f \in 0 .. 3 : w = mapped[v] * M!PAGE + f
        BY <2>2, <2>7, <3>3, <3>6 DEF Says
      <4>3. PICK frame \in Nat : frame = mapped[v]
        BY <4>1
      <4>4. M!PageBits(w) = frame * M!PAGE
        BY <4>2, <4>3, FrameBits
      <4>5. frame * M!PAGE + offset = 0 <=> frame = 0 /\ offset = 0
        BY MappedByte
      <4>6. M!Phys(kernel_dir, v, offset) = frame * M!PAGE + offset
        BY <3>4, <4>4
      <4> QED BY <3>6, <4>3, <4>5, <4>6 DEF M!vmm_is_mapped, M!Translation, M!Misjudged
    <3> QED BY <3>5, <3>6
  <2> QED BY <2>6, <2>7
<1>6. ASSUME NEW dir \in dirs, NEW v \in M!VirtualPages, NEW offset \in 0 .. M!PAGE - 1,
             M!Present(mem[M!EntryOf(dir, v)])
      PROVE  M!Phys(dir, v, offset) = M!Phys(kernel_dir, v, offset)
  <2>1. At(mem, dir, v \div ENTRIES) # 0
    BY <1>4, <1>6 DEF M!Present, M!PRESENT
  <2>2. At(mem, dir, v \div ENTRIES) = At(mem, K, v \div ENTRIES)
    BY <1>1, <1>2, <1>3, <2>1, PageIndex DEF Good, Entries
  <2> QED BY <1>1, <1>4, <2>2 DEF M!Phys
<1> QED BY <1>2, <1>5, <1>6

-----------------------------------------------------------------------------
(* The process file system, and the three users together.                  *)

Bounded == heap_ptr \in Nat /\ heap_ptr <= HEAP_SIZE

(* /proc takes no more than there is.                                      *)
LEMMA MountBounded ==
  ASSUME Init
  PROVE  Bounded
<1>1. Len(GlobalFiles) \in Nat /\ ENTRY_SIZE \in Nat
  BY ProcfsAssumption, LenProperties
<1> QED BY <1>1, ProcfsAssumption DEF Init, Bounded

-----------------------------------------------------------------------------
(* The list of /proc.                                                      *)

(* Its entries: the files of a process, their directory, the global files. *)
Types == {"FILE", "DIR", "LINK"}
FileNames == {"status", "stat", "cmdline", "maps", "fd"}
FileEntries == [name : FileNames, type : Types, pid : Pid, kids : {<< >>}]
DirEntries == [name : Pid, type : Types, pid : Pid, kids : Seq(FileEntries)]
OtherEntries == [name : ToSet(GlobalFiles) \cup {"self"}, type : Types,
                 pid : {NOPID}, kids : {<< >>}]
Entry == DirEntries \cup OtherEntries

(* The directories are in front of the global files.                       *)
Listed(list) == \E made \in Seq(DirEntries) : list = made \o GlobalEntries

(* A sequence backwards.                                                   *)
LEMMA ReverseIs ==
  ASSUME NEW T, NEW s \in Seq(T)
  PROVE  /\ Reverse(s) \in Seq(T) /\ Len(Reverse(s)) = Len(s)
         /\ \A i \in 1 .. Len(s) : Reverse(s)[i] = s[Len(s) - i + 1]
<1>1. Len(s) \in Nat /\ s \in [1 .. Len(s) -> T]
  BY LenProperties
<1> DEFINE r == [i \in 1 .. Len(s) |-> s[Len(s) - i + 1]]
<1>2. \A i \in 1 .. Len(s) : Len(s) - i + 1 \in 1 .. Len(s)
  BY <1>1
<1>3. r \in [1 .. Len(s) -> T]
  BY <1>1, <1>2
<1>4. r \in Seq(T) /\ Len(r) = Len(s)
  BY <1>1, <1>3
<1>5. Reverse(s) = r
  BY DEF Reverse
<1> QED BY <1>4, <1>5

(* The global files, none of them of a process.                            *)
LEMMA GlobalsAre ==
  /\ GlobalEntries \in Seq(OtherEntries)
  /\ Len(GlobalEntries) \in Nat /\ DOMAIN GlobalEntries = 1 .. Len(GlobalEntries)
  /\ \A i \in 1 .. Len(GlobalEntries) : GlobalEntries[i].pid = NOPID
<1> DEFINE e(i) == alloc_entry(GlobalFiles[i], "FILE", NOPID, << >>)
           f == [i \in DOMAIN GlobalFiles |-> e(i)]
           self == alloc_entry("self", "LINK", NOPID, << >>)
<1>1. GlobalFiles \in Seq(ToSet(GlobalFiles))
  BY ProcfsAssumption
<1>2. Len(GlobalFiles) \in Nat /\ DOMAIN GlobalFiles = 1 .. Len(GlobalFiles)
      /\ \A i \in 1 .. Len(GlobalFiles) : GlobalFiles[i] \in ToSet(GlobalFiles)
  BY <1>1, LenProperties
<1>3. \A i \in 1 .. Len(GlobalFiles) : e(i) \in OtherEntries
  BY <1>2 DEF alloc_entry, OtherEntries, Types
<1>4. self \in OtherEntries
  BY DEF alloc_entry, OtherEntries, Types
<1>5. f \in Seq(OtherEntries)
  <2>1. f = [i \in 1 .. Len(GlobalFiles) |-> e(i)]
    BY <1>2
  <2>2. f \in [1 .. Len(GlobalFiles) -> OtherEntries]
    BY <1>3, <2>1
  <2> HIDE DEF f
  <2> QED BY <1>2, <2>2
<1> HIDE DEF f, self, e
<1>6. Reverse(f) \in Seq(OtherEntries) /\ <<self>> \in Seq(OtherEntries)
  BY <1>4, <1>5, ReverseIs
<1>7. GlobalEntries = <<self>> \o Reverse(f)
  BY DEF GlobalEntries, f, self, e
<1>8. GlobalEntries \in Seq(OtherEntries)
  BY <1>6, <1>7, ConcatProperties
<1>9. Len(GlobalEntries) \in Nat /\ GlobalEntries \in [1 .. Len(GlobalEntries) -> OtherEntries]
      /\ DOMAIN GlobalEntries = 1 .. Len(GlobalEntries)
  BY <1>8, LenProperties
<1>10. \A x \in OtherEntries : x.pid = NOPID
  BY DEF OtherEntries
<1> QED BY <1>8, <1>9, <1>10

(* A list of directories and global files, by its places.                  *)
LEMMA ListIs ==
  ASSUME NEW made \in Seq(DirEntries)
  PROVE  /\ made \o GlobalEntries \in Seq(Entry)
         /\ Len(made \o GlobalEntries) = Len(made) + Len(GlobalEntries)
         /\ \A i \in 1 .. Len(made) : /\ (made \o GlobalEntries)[i] = made[i]
                                      /\ made[i].pid # NOPID
         /\ \A i \in 1 .. Len(GlobalEntries) :
              (made \o GlobalEntries)[Len(made) + i] = GlobalEntries[i]
<1> DEFINE g == GlobalEntries
<1>1. g \in Seq(Entry) /\ made \in Seq(Entry)
  BY GlobalsAre, SeqMonotonic DEF Entry
<1>2. Len(made) \in Nat /\ Len(g) \in Nat /\ made \in [1 .. Len(made) -> DirEntries]
  BY GlobalsAre, LenProperties
<1>3. \A x \in DirEntries : x.pid # NOPID
  BY ProcfsAssumption DEF DirEntries, Pid
<1> HIDE DEF g
<1>4. /\ made \o g \in Seq(Entry) /\ Len(made \o g) = Len(made) + Len(g)
      /\ \A i \in 1 .. Len(made) + Len(g) :
           (made \o g)[i] = IF i <= Len(made) THEN made[i] ELSE g[i - Len(made)]
  BY <1>1, ConcatProperties
<1>5. \A i \in 1 .. Len(made) : (made \o g)[i] = made[i] /\ made[i].pid # NOPID
  BY <1>2, <1>3, <1>4
<1>6. \A i \in 1 .. Len(g) : (made \o g)[Len(made) + i] = g[i]
  BY <1>2, <1>4
<1> QED BY <1>4, <1>5, <1>6 DEF g

(* The first loop of procfs_update leaves the global files as they are.    *)
LEMMA KeptGlobals ==
  ASSUME NEW made \in Seq(DirEntries)
  PROVE  Kept(made \o GlobalEntries) = GlobalEntries
<1> DEFINE r == made \o GlobalEntries
           Look(s, i) == IF r[i].pid = NOPID THEN Append(s, r[i]) ELSE s
           F == [x \in Seq(Entry) \X (1 .. Len(r)) |-> Look(x[1], x[2])]
           Loop(f) == [i \in 0 .. Len(r) |->
                         IF i = 0 THEN << >>
                         ELSE IF r[i].pid = NOPID THEN Append(f[i - 1], r[i]) ELSE f[i - 1]]
           left == CHOOSE f : f = Loop(f)
<1>1. /\ r \in Seq(Entry) /\ Len(r) \in Nat /\ Len(made) \in Nat
      /\ Len(r) = Len(made) + Len(GlobalEntries)
  BY ListIs, LenProperties
<1>2. \A i \in 1 .. Len(r) : r[i] \in Entry
  BY <1>1, LenProperties
<1>3. Kept(r) = left[Len(r)]
  BY DEF Kept
<1>4. /\ \A i \in 1 .. Len(made) : r[i].pid # NOPID
      /\ \A i \in 1 .. Len(GlobalEntries) : r[Len(made) + i] = GlobalEntries[i]
                                            /\ r[Len(made) + i].pid = NOPID
  BY ListIs, GlobalsAre
<1> HIDE DEF r
<1>5. \A s \in Seq(Entry), i \in 1 .. Len(r) : Look(s, i) \in Seq(Entry)
  BY <1>2, AppendProperties
<1>6. F \in [Seq(Entry) \X (1 .. Len(r)) -> Seq(Entry)]
  BY <1>5
<1>7. << >> \in Seq(Entry)
  BY EmptySeq
<1>8. PICK g : IsLoop(g, Len(r), Seq(Entry), << >>, F)
  <2> HIDE DEF F
  <2> QED BY <1>1, <1>6, <1>7, LoopExists
<1>9. /\ g \in [0 .. Len(r) -> Seq(Entry)] /\ g[0] = << >>
      /\ \A i \in 1 .. Len(r) : g[i] = Look(g[i - 1], i)
  <2>1. /\ g \in [0 .. Len(r) -> Seq(Entry)] /\ g[0] = << >>
        /\ \A i \in 1 .. Len(r) : g[i] = F[<<g[i - 1], i>>]
    <3> HIDE DEF F
    <3> QED BY <1>8 DEF IsLoop
  <2>2. ASSUME NEW i \in 1 .. Len(r)
        PROVE  F[<<g[i - 1], i>>] = Look(g[i - 1], i)
    <3>1. i - 1 \in 0 .. Len(r)
      BY <1>1
    <3>2. <<g[i - 1], i>> \in Seq(Entry) \X (1 .. Len(r))
      BY <2>1, <3>1
    <3> HIDE DEF Look
    <3> QED BY <3>2
  <2> HIDE DEF F, Look
  <2> QED BY <2>1, <2>2
<1>10. g = Loop(g)
  <2>1. \A i \in 0 .. Len(r) : g[i] = Loop(g)[i]
    <3>1. g[0] = Loop(g)[0]
      BY <1>1, <1>9
    <3>2. \A i \in 1 .. Len(r) : g[i] = Loop(g)[i]
      <4> HIDE DEF F
      <4> QED BY <1>1, <1>9
    <3> HIDE DEF Loop
    <3> QED BY <1>1, <3>1, <3>2
  <2>2. g = [i \in 0 .. Len(r) |-> g[i]]
    BY <1>9
  <2> HIDE DEF Loop
  <2>3. Loop(g) = [i \in 0 .. Len(r) |-> Loop(g)[i]]
    BY DEF Loop
  <2> QED BY <2>1, <2>2, <2>3, Zenon
<1>11. left = Loop(left)
  BY <1>10
<1> HIDE DEF left
<1>12. left[0] = << >> /\ \A i \in 1 .. Len(r) : left[i] = Look(left[i - 1], i)
  <2>1. \A i \in 0 .. Len(r) : left[i] = Loop(left)[i]
    BY <1>11
  <2> QED BY <1>1, <2>1
<1> HIDE DEF Loop, F
<1> DEFINE First(i) == IF i <= Len(made) THEN << >>
                       ELSE SubSeq(GlobalEntries, 1, i - Len(made))
           Done == {i \in 0 .. Len(r) : left[i] = First(i)}
           id == [i \in 0 .. Len(r) |-> i]
<1>13. id[0] \in Done
  BY <1>1, <1>12
<1>14. ASSUME NEW i \in 1 .. Len(r), left[i - 1] = First(i - 1)
       PROVE  left[i] = First(i)
  <2>1. left[i] = Look(First(i - 1), i)
    BY <1>12, <1>14
  <2>2. CASE i <= Len(made)
    <3>1. First(i - 1) = << >> /\ First(i) = << >> /\ r[i].pid # NOPID
      BY <1>1, <1>4, <2>2
    <3> QED BY <2>1, <3>1
  <2>3. CASE Len(made) < i
    <3>1. PICK k \in 1 .. Len(GlobalEntries) : i = Len(made) + k
      <4>1. PICK a \in Nat, b \in Nat : a = Len(made) /\ b = Len(GlobalEntries)
        BY <1>1, GlobalsAre
      <4>2. i - a \in 1 .. b /\ i = a + (i - a)
        BY <1>1, <2>3, <4>1
      <4> QED BY <4>1, <4>2
    <3>2. r[i] = GlobalEntries[k] /\ r[i].pid = NOPID
      BY <1>4, <3>1
    <3>3. First(i) = SubSeq(GlobalEntries, 1, k)
      BY <1>1, <2>3, <3>1
    <3>4. First(i - 1) = SubSeq(GlobalEntries, 1, k - 1)
      <4>1. CASE k = 1
        <5>1. First(i - 1) = << >>
          BY <1>1, <3>1, <4>1
        <5> QED BY <4>1, <5>1, SubSeqEmpty
      <4>2. CASE k > 1
        BY <1>1, <3>1, <4>2
      <4> QED BY <4>1, <4>2
    <3>5. SubSeq(GlobalEntries, 1, k) = SubSeq(GlobalEntries, 1, k - 1) \o <<GlobalEntries[k]>>
      <4>1. 1 \in 1 .. Len(GlobalEntries) /\ k \in 1 .. Len(GlobalEntries)
        BY GlobalsAre
      <4> QED BY <4>1, GlobalsAre, SubSeqRecursiveSecond
    <3>6. Append(First(i - 1), r[i]) = First(i - 1) \o <<r[i]>>
      <4>1. GlobalEntries \in Seq(OtherEntries) /\ r[i] \in OtherEntries
        BY <3>2, GlobalsAre, ElementOfSeq
      <4>2. SubSeq(GlobalEntries, 1, k - 1) \in Seq(OtherEntries)
        <5>1. 1 \in Int /\ k - 1 \in Int /\ \A j \in 1 .. k - 1 : GlobalEntries[j] \in OtherEntries
          BY <4>1, GlobalsAre, ElementOfSeq
        <5> QED BY <5>1, SubSeqProperties
      <4> HIDE DEF First
      <4> QED BY <3>4, <4>1, <4>2, AppendIsConcat
    <3> HIDE DEF First
    <3> QED BY <2>1, <3>2, <3>3, <3>4, <3>5, <3>6
  <2> QED BY <1>1, <2>2, <2>3
<1>15. \A i \in 0 .. Len(r) : id[i] \in Done
  <2>1. ASSUME NEW i \in 1 .. Len(r), id[i - 1] \in Done
        PROVE  id[i] \in Done
    <3>1. id[i - 1] = i - 1 /\ id[i] = i /\ i \in 0 .. Len(r)
      BY <1>1
    <3> QED BY <1>14, <2>1, <3>1
  <2> HIDE DEF Done, id
  <2> QED BY <1>1, <1>13, <2>1, LoopInvariant
<1>16. left[Len(r)] = First(Len(r))
  <2>1. id[Len(r)] = Len(r) /\ id[Len(r)] \in Done
    BY <1>1, <1>15
  <2> QED BY <2>1
<1>17. First(Len(r)) = GlobalEntries
  <2>1. CASE Len(GlobalEntries) = 0
    <3>1. First(Len(r)) = << >>
      BY <1>1, <2>1
    <3>2. GlobalEntries = << >>
      BY <2>1, GlobalsAre, EmptySeq
    <3> QED BY <3>1, <3>2
  <2>2. CASE Len(GlobalEntries) > 0
    <3>1. First(Len(r)) = SubSeq(GlobalEntries, 1, Len(GlobalEntries))
      BY <1>1, <2>2, GlobalsAre
    <3>2. SubSeq(GlobalEntries, 1, Len(GlobalEntries)) = GlobalEntries
      BY GlobalsAre, SubSeqFull
    <3> QED BY <3>1, <3>2
  <2> QED BY <2>1, <2>2, GlobalsAre
<1> QED BY <1>3, <1>16, <1>17 DEF r


(* A directory of a process: with room for all of them it has all files.   *)
LEMMA DirIs ==
  ASSUME NEW p \in Pid, NEW got \in 1 .. PerDir
  PROVE  \E e \in DirEntries :
           /\ create_pid_dir(p, got) = <<e>> /\ e.pid = p /\ e.name = p
           /\ \A b \in DOMAIN e.kids : e.kids[b].pid = p
           /\ got = PerDir => NamesOf(e.kids) = Reverse(PidFiles)
<1> DEFINE f == [i \in 1 .. got - 1 |-> PidFile(p, PidFiles[i])]
           kids == Reverse(f)
           e == alloc_entry(p, "DIR", p, kids)
<1>1. PerDir = 6 /\ Len(PidFiles) = 5 /\ got - 1 \in Nat
  BY DEF PerDir, PidFiles
<1>2. \A i \in 1 .. 5 : PidFiles[i] \in FileNames
  BY DEF PidFiles, FileNames
<1>3. \A i \in 1 .. got - 1 : /\ PidFile(p, PidFiles[i]) \in FileEntries
                              /\ PidFile(p, PidFiles[i]).pid = p
                              /\ PidFile(p, PidFiles[i]).name = PidFiles[i]
  BY <1>1, <1>2 DEF PidFile, alloc_entry, FileEntries, Types
<1>4. f \in Seq(FileEntries) /\ Len(f) = got - 1
  <2>1. f \in [1 .. got - 1 -> FileEntries]
    BY <1>3
  <2>2. Len(f) = got - 1
    BY <1>1
  <2> HIDE DEF f
  <2> QED BY <1>1, <2>1, <2>2
<1>5. /\ kids \in Seq(FileEntries) /\ Len(kids) = got - 1
      /\ \A i \in 1 .. got - 1 : kids[i] = f[got - 1 - i + 1]
  <2> HIDE DEF f
  <2>1. /\ Reverse(f) \in Seq(FileEntries) /\ Len(Reverse(f)) = Len(f)
        /\ \A i \in 1 .. Len(f) : Reverse(f)[i] = f[Len(f) - i + 1]
    BY <1>4, ReverseIs
  <2>2. PICK r : r = Reverse(f)
    OBVIOUS
  <2> QED BY <1>1, <1>4, <2>1, <2>2
<1>6. \A i \in 1 .. got - 1 : /\ kids[i].pid = p
                              /\ kids[i].name = PidFiles[got - 1 - i + 1]
  <2> SUFFICES ASSUME NEW i \in 1 .. got - 1
               PROVE  kids[i].pid = p /\ kids[i].name = PidFiles[got - 1 - i + 1]
    OBVIOUS
  <2>1. PICK j \in 1 .. got - 1 : j = got - 1 - i + 1
    BY <1>1
  <2>2. f[j] = PidFile(p, PidFiles[j])
    OBVIOUS
  <2> HIDE DEF f, kids
  <2> QED BY <1>3, <1>5, <2>1, <2>2
<1>7. DOMAIN kids = 1 .. got - 1
  <2> HIDE DEF kids
  <2> QED BY <1>5, LenProperties
<1>8. got = PerDir => NamesOf(kids) = Reverse(PidFiles)
  <2> SUFFICES ASSUME got = PerDir PROVE NamesOf(kids) = Reverse(PidFiles)
    OBVIOUS
  <2>1. NamesOf(kids) = [i \in 1 .. 5 |-> kids[i].name]
    BY <1>1, <1>7 DEF NamesOf
  <2>2. Reverse(PidFiles) = [i \in 1 .. 5 |-> PidFiles[5 - i + 1]]
    BY <1>1 DEF Reverse
  <2>3. \A i \in 1 .. 5 : kids[i].name = PidFiles[5 - i + 1]
    BY <1>1, <1>6
  <2> HIDE DEF kids
  <2> QED BY <2>1, <2>2, <2>3
<1>9. create_pid_dir(p, got) = <<e>>
  BY <1>1 DEF create_pid_dir
<1> HIDE DEF kids
<1>10. e \in DirEntries /\ e.pid = p /\ e.name = p /\ e.kids = kids
  BY <1>5 DEF alloc_entry, DirEntries, Types
<1> HIDE DEF e
<1> QED BY <1>6, <1>7, <1>8, <1>9, <1>10

(* What there is room for.                                                 *)
LEMMA RoomIs ==
  ASSUME Bounded
  PROVE  /\ Room \in Nat
         /\ heap_ptr + ENTRY_SIZE * Room <= HEAP_SIZE
         /\ HEAP_SIZE < heap_ptr + ENTRY_SIZE * Room + ENTRY_SIZE
<1>1. ENTRY_SIZE \in Nat \ {0} /\ HEAP_SIZE \in Nat
  BY ProcfsAssumption, HeapAssumption
<1>2. PICK d \in Nat : d = HEAP_SIZE - heap_ptr
  BY <1>1 DEF Bounded
<1>3. Room = d \div ENTRY_SIZE
  BY <1>2 DEF Room
<1>4. PICK k \in Nat, m \in Nat :
        k = d \div ENTRY_SIZE /\ m = ENTRY_SIZE * k /\ m <= d /\ d < m + ENTRY_SIZE
  <2>1. d \div ENTRY_SIZE \in Nat /\ ENTRY_SIZE * (d \div ENTRY_SIZE) \in Nat
    BY <1>1
  <2>2. /\ ENTRY_SIZE * (d \div ENTRY_SIZE) <= d
        /\ d < ENTRY_SIZE * (d \div ENTRY_SIZE) + ENTRY_SIZE
    BY <1>1
  <2> QED BY <2>1, <2>2
<1>5. ENTRY_SIZE * Room = m /\ Room = k
  BY <1>3, <1>4
<1> QED BY <1>1, <1>2, <1>4, <1>5 DEF Bounded

(* What a directory gets of it.                                            *)
LEMMA GotIs ==
  ASSUME Bounded, NEW used \in 0 .. Room
  PROVE  /\ Got(used) \in 0 .. PerDir /\ used + Got(used) \in 0 .. Room
         /\ Got(used) = PerDir \/ used + Got(used) = Room
<1>1. Room \in Nat /\ PerDir = 6
  BY RoomIs DEF PerDir, PidFiles
<1>2. PICK r \in Nat : r = Room
  BY <1>1
<1> QED BY <1>1, <1>2 DEF Got

-----------------------------------------------------------------------------
(* The second loop of procfs_update.                                       *)

Turn(s, i) ==
  IF ~Alive(Pids[i]) THEN s
  ELSE [list |-> create_pid_dir(Pids[i], Got(s.used)) \o s.list, used |-> s.used + Got(s.used)]

(* The directories after i slots of the table: of live processes among the *)
(* first i, no two of one, and all of them with all files while there was  *)
(* room.                                                                   *)
OfProcesses(made, i) ==
  \A a \in 1 .. Len(made) : /\ \E j \in 1 .. i : made[a].pid = Pids[j] /\ Alive(Pids[j])
                            /\ made[a].name = made[a].pid
                            /\ \A b \in DOMAIN made[a].kids : made[a].kids[b].pid = made[a].pid
Once(made) == \A a, b \in 1 .. Len(made) : made[a].pid = made[b].pid => a = b
Complete(made, i) ==
  /\ \A j \in 1 .. i : Alive(Pids[j]) => \E a \in 1 .. Len(made) : made[a].pid = Pids[j]
  /\ \A a \in 1 .. Len(made) : NamesOf(made[a].kids) = Reverse(PidFiles)

Right(s, i) == /\ s \in [list : Seq(Entry), used : 0 .. Room]
               /\ \E made \in Seq(DirEntries) :
                    /\ s.list = made \o GlobalEntries
                    /\ OfProcesses(made, i) /\ Once(made)
                    /\ Complete(made, i) \/ s.used = Room

(* The slots, no two of one process.                                       *)
LEMMA PidsAre ==
  /\ Len(Pids) \in Nat /\ DOMAIN Pids = 1 .. Len(Pids)
  /\ \A i \in 1 .. Len(Pids) : Pids[i] \in Pid
  /\ \A i, j \in 1 .. Len(Pids) : Pids[i] = Pids[j] => i = j
  /\ \A p \in Pid : \E i \in 1 .. Len(Pids) : Pids[i] = p
<1>1. Pids \in Seq(Pid) /\ IsInjective(Pids)
  BY ProcfsAssumption DEF Pid
<1>2. Len(Pids) \in Nat /\ DOMAIN Pids = 1 .. Len(Pids)
  BY <1>1, LenProperties
<1> QED BY <1>1, <1>2 DEF Pid, ToSet, IsInjective

(* A directory in front.                                                   *)
LEMMA InFront ==
  ASSUME NEW e \in DirEntries, NEW made \in Seq(DirEntries)
  PROVE  /\ <<e>> \o made \in Seq(DirEntries)
         /\ Len(<<e>> \o made) = Len(made) + 1
         /\ (<<e>> \o made)[1] = e
         /\ \A a \in 1 .. Len(made) : (<<e>> \o made)[a + 1] = made[a]
         /\ <<e>> \o (made \o GlobalEntries) = (<<e>> \o made) \o GlobalEntries
<1>1. <<e>> \in Seq(DirEntries) /\ Len(<<e>>) = 1 /\ <<e>>[1] = e /\ Len(made) \in Nat
  BY LenProperties
<1>2. /\ <<e>> \o made \in Seq(DirEntries)
      /\ Len(<<e>> \o made) = Len(<<e>>) + Len(made)
      /\ \A a \in 1 .. Len(<<e>>) + Len(made) :
           (<<e>> \o made)[a] = IF a <= Len(<<e>>) THEN <<e>>[a] ELSE made[a - Len(<<e>>)]
  BY <1>1, ConcatProperties
<1>3. <<e>> \in Seq(Entry) /\ made \in Seq(Entry) /\ GlobalEntries \in Seq(Entry)
  BY <1>1, GlobalsAre, SeqMonotonic DEF Entry
<1>4. <<e>> \o (made \o GlobalEntries) = (<<e>> \o made) \o GlobalEntries
  BY <1>3, ConcatAssociative
<1>5. (<<e>> \o made)[1] = e
  BY <1>1, <1>2
<1>6. \A a \in 1 .. Len(made) : (<<e>> \o made)[a + 1] = made[a]
  BY <1>1, <1>2
<1> QED BY <1>1, <1>2, <1>4, <1>5, <1>6


(* A slot puts at most one directory there.                                *)
LEMMA TurnKeeps ==
  ASSUME Bounded, NEW i \in 1 .. Len(Pids), NEW s, Right(s, i - 1)
  PROVE  Right(Turn(s, i), i)
<1>1. /\ Len(Pids) \in Nat /\ i \in Nat /\ Pids[i] \in Pid /\ Room \in Nat
      /\ i - 1 \in Nat /\ \A j \in 1 .. i - 1 : j \in 1 .. Len(Pids) /\ j \in 1 .. i
      /\ \A j \in 1 .. i : j \in 1 .. i - 1 \/ j = i
  BY PidsAre, RoomIs
<1>2. PICK made \in Seq(DirEntries) :
        /\ s.list = made \o GlobalEntries
        /\ OfProcesses(made, i - 1) /\ Once(made)
        /\ Complete(made, i - 1) \/ s.used = Room
  BY DEF Right
<1>3. /\ s \in [list : Seq(Entry), used : 0 .. Room]
      /\ Len(made) \in Nat
  BY <1>2, LenProperties DEF Right
<1>4. OfProcesses(made, i)
  <2>1. \A a \in 1 .. Len(made) : \E j \in 1 .. i : made[a].pid = Pids[j] /\ Alive(Pids[j])
    BY <1>1, <1>2 DEF OfProcesses
  <2> QED BY <1>2, <2>1 DEF OfProcesses
<1>5. CASE ~Alive(Pids[i])
  <2>1. Turn(s, i) = s
    BY <1>5 DEF Turn
  <2>2. Complete(made, i - 1) => Complete(made, i)
    BY <1>1, <1>5 DEF Complete
  <2> QED BY <1>2, <1>3, <1>4, <2>1, <2>2 DEF Right
<1>6. CASE Alive(Pids[i])
  <2>1. PICK got : got = Got(s.used)
    OBVIOUS
  <2>2. /\ got \in 0 .. PerDir /\ s.used + got \in 0 .. Room
        /\ got = PerDir \/ s.used + got = Room
    BY <1>3, <2>1, GotIs
  <2>3. PICK t : t = Turn(s, i)
    OBVIOUS
  <2>4. t = [list |-> create_pid_dir(Pids[i], got) \o s.list, used |-> s.used + got]
    BY <1>6, <2>1, <2>3 DEF Turn
  <2>5. CASE got = 0
    <3>1. create_pid_dir(Pids[i], got) = << >>
      BY <2>5 DEF create_pid_dir
    <3>2. t.list = s.list
      BY <1>3, <2>4, <3>1, ConcatEmptySeq
    <3>3. t.used = Room
      BY <1>1, <2>2, <2>4, <2>5 DEF PerDir, PidFiles
    <3>4. t \in [list : Seq(Entry), used : 0 .. Room]
      <4>1. t = [list |-> t.list, used |-> t.used]
        BY <2>4
      <4> QED BY <1>1, <1>3, <3>2, <3>3, <4>1
    <3> QED BY <1>2, <1>4, <2>3, <3>2, <3>3, <3>4 DEF Right
  <2>6. CASE got # 0
    <3>1. got \in 1 .. PerDir
      BY <2>2, <2>6 DEF PerDir, PidFiles
    <3>2. PICK e \in DirEntries :
            /\ create_pid_dir(Pids[i], got) = <<e>> /\ e.pid = Pids[i] /\ e.name = Pids[i]
            /\ \A b \in DOMAIN e.kids : e.kids[b].pid = Pids[i]
            /\ got = PerDir => NamesOf(e.kids) = Reverse(PidFiles)
      BY <1>1, <3>1, DirIs
    <3>3. PICK more : more = <<e>> \o made
      OBVIOUS
    <3>4. /\ more \in Seq(DirEntries) /\ Len(more) = Len(made) + 1 /\ more[1] = e
          /\ \A a \in 1 .. Len(made) : more[a + 1] = made[a]
          /\ <<e>> \o s.list = more \o GlobalEntries
      BY <1>2, <3>3, InFront
    <3>5. t.list = more \o GlobalEntries /\ t.used = s.used + got
      BY <2>4, <3>2, <3>4
    <3>6. t \in [list : Seq(Entry), used : 0 .. Room]
      <4>1. t = [list |-> t.list, used |-> t.used]
        BY <2>4
      <4>2. t.list \in Seq(Entry)
        BY <3>4, <3>5, ListIs
      <4> QED BY <2>2, <3>5, <4>1, <4>2
    <3>7. \A a \in 1 .. Len(more) : \/ more[a] = e /\ a = 1
                                    \/ a - 1 \in 1 .. Len(made) /\ more[a] = made[a - 1]
      <4> SUFFICES ASSUME NEW a \in 1 .. Len(more), a # 1
                   PROVE  a - 1 \in 1 .. Len(made) /\ more[a] = made[a - 1]
        BY <3>4
      <4>1. PICK c \in 1 .. Len(made) : a = c + 1
        BY <1>3, <3>4
      <4> QED BY <3>4, <4>1
    <3>8. OfProcesses(more, i)
      <4> SUFFICES ASSUME NEW a \in 1 .. Len(more)
                   PROVE  /\ \E j \in 1 .. i : more[a].pid = Pids[j] /\ Alive(Pids[j])
                          /\ more[a].name = more[a].pid
                          /\ \A b \in DOMAIN more[a].kids : more[a].kids[b].pid = more[a].pid
        BY DEF OfProcesses
      <4>1. CASE more[a] = e
        <5>1. i \in 1 .. i
          BY <1>1
        <5> QED BY <1>6, <3>2, <4>1, <5>1
      <4>2. CASE a - 1 \in 1 .. Len(made) /\ more[a] = made[a - 1]
        BY <1>4, <4>2 DEF OfProcesses
      <4> QED BY <3>7, <4>1, <4>2
    <3>9. \A c \in 1 .. Len(made) : made[c].pid # Pids[i]
      <4> SUFFICES ASSUME NEW c \in 1 .. Len(made), made[c].pid = Pids[i] PROVE FALSE
        OBVIOUS
      <4>1. PICK j \in 1 .. i - 1 : Pids[i] = Pids[j]
        BY <1>2 DEF OfProcesses
      <4>2. i = j
        BY <1>1, <4>1, PidsAre
      <4> QED BY <1>1, <4>2
    <3>10. Once(more)
      <4> SUFFICES ASSUME NEW a \in 1 .. Len(more), NEW b \in 1 .. Len(more),
                          more[a].pid = more[b].pid
                   PROVE  a = b
        BY DEF Once
      <4>1. CASE a = 1 /\ b # 1
        BY <3>2, <3>4, <3>7, <3>9, <4>1
      <4>2. CASE a # 1 /\ b = 1
        BY <3>2, <3>4, <3>7, <3>9, <4>2
      <4>3. CASE a # 1 /\ b # 1
        <5>1. /\ a - 1 \in 1 .. Len(made) /\ more[a] = made[a - 1]
              /\ b - 1 \in 1 .. Len(made) /\ more[b] = made[b - 1]
          BY <3>7, <4>3
        <5>2. a - 1 = b - 1
          BY <1>2, <5>1 DEF Once
        <5> QED BY <1>3, <3>4, <5>2
      <4> QED BY <4>1, <4>2, <4>3
    <3>11. Complete(more, i) \/ t.used = Room
      <4> SUFFICES ASSUME t.used # Room PROVE Complete(more, i)
        OBVIOUS
      <4>1. got = PerDir /\ Complete(made, i - 1)
        <5>1. got = PerDir
          BY <2>2, <3>5
        <5>2. s.used # Room
          BY <1>1, <1>3, <2>2, <3>1
        <5> QED BY <1>2, <5>1, <5>2
      <4>2. \A j \in 1 .. i : Alive(Pids[j]) => \E a \in 1 .. Len(more) : more[a].pid = Pids[j]
        <5> SUFFICES ASSUME NEW j \in 1 .. i, Alive(Pids[j])
                     PROVE  \E a \in 1 .. Len(more) : more[a].pid = Pids[j]
          OBVIOUS
        <5>1. CASE j = i
          <6>1. 1 \in 1 .. Len(more)
            BY <1>3, <3>4
          <6> QED BY <3>2, <3>4, <5>1, <6>1
        <5>2. CASE j \in 1 .. i - 1
          <6>1. PICK c \in 1 .. Len(made) : made[c].pid = Pids[j]
            BY <4>1, <5>2 DEF Complete
          <6>2. c + 1 \in 1 .. Len(more)
            BY <1>3, <3>4
          <6> QED BY <3>4, <6>1, <6>2
        <5> QED BY <1>1, <5>1, <5>2
      <4>3. \A a \in 1 .. Len(more) : NamesOf(more[a].kids) = Reverse(PidFiles)
        BY <3>2, <3>7, <4>1 DEF Complete
      <4> QED BY <4>2, <4>3 DEF Complete
    <3> QED BY <2>3, <3>4, <3>5, <3>6, <3>8, <3>10, <3>11 DEF Right
  <2> QED BY <2>5, <2>6
<1> QED BY <1>5, <1>6

(* And so do all of them.                                                  *)
LEMMA RebuiltRight ==
  ASSUME Bounded, Listed(root)
  PROVE  Right(Rebuilt, Len(Pids))
<1> DEFINE N == Len(Pids)
           s0 == [list |-> Kept(root), used |-> 0]
           States == [list : Seq(Entry), used : 0 .. Room]
           F == [x \in States \X (1 .. N) |-> Turn(x[1], x[2])]
           Loop(f) == [i \in 0 .. N |->
                         IF i = 0 THEN [list |-> Kept(root), used |-> 0]
                         ELSE IF ~Alive(Pids[i]) THEN f[i - 1]
                         ELSE [list |-> create_pid_dir(Pids[i], Got(f[i - 1].used)) \o f[i - 1].list,
                               used |-> f[i - 1].used + Got(f[i - 1].used)]]
           after == CHOOSE f : f = Loop(f)
<1>1. N \in Nat /\ Room \in Nat
  BY PidsAre, RoomIs
<1>2. Rebuilt = after[N]
  BY DEF Rebuilt
<1>3. \A f : \A i \in 1 .. N : Loop(f)[i] = Turn(f[i - 1], i)
  BY <1>1 DEF Turn
<1>4. \A f : Loop(f)[0] = s0
  BY <1>1
<1>5. \A f : Loop(f) = [i \in 0 .. N |-> Loop(f)[i]]
  OBVIOUS
<1> HIDE DEF Loop, N
<1>6. Kept(root) = GlobalEntries
  BY KeptGlobals DEF Listed
<1>7. \A s \in States, i \in 1 .. N : Turn(s, i) \in States
  <2> SUFFICES ASSUME NEW s \in States, NEW i \in 1 .. N
               PROVE  Turn(s, i) \in States
    OBVIOUS
  <2>1. Got(s.used) \in 0 .. PerDir /\ s.used + Got(s.used) \in 0 .. Room
    BY GotIs
  <2>2. create_pid_dir(Pids[i], Got(s.used)) \in Seq(Entry)
    <3>1. CASE Got(s.used) = 0
      <4>1. << >> \in Seq(Entry)
        BY EmptySeq
      <4> QED BY <3>1, <4>1 DEF create_pid_dir
    <3>2. CASE Got(s.used) # 0
      <4>1. Got(s.used) \in 1 .. PerDir
        BY <2>1, <3>2 DEF PerDir, PidFiles
      <4>2. Pids[i] \in Pid
        BY PidsAre DEF N
      <4>3. PICK e \in DirEntries : create_pid_dir(Pids[i], Got(s.used)) = <<e>>
        BY <4>1, <4>2, DirIs
      <4>4. <<e>> \in Seq(Entry)
        BY DEF Entry
      <4> QED BY <4>3, <4>4
    <3> QED BY <3>1, <3>2
  <2>3. create_pid_dir(Pids[i], Got(s.used)) \o s.list \in Seq(Entry)
    BY <2>2, ConcatProperties
  <2> QED BY <2>1, <2>3 DEF Turn
<1>8. s0 \in States /\ Right(s0, 0)
  <2>1. << >> \in Seq(DirEntries) /\ << >> \in Seq(Entry) /\ Len(<< >>) = 0
    BY EmptySeq
  <2>2. GlobalEntries \in Seq(Entry)
    BY GlobalsAre, SeqMonotonic DEF Entry
  <2>3. << >> \o GlobalEntries = GlobalEntries
    BY <2>2, ConcatEmptySeq
  <2>4. s0 \in States /\ s0.list = << >> \o GlobalEntries
    BY <1>1, <1>6, <2>2, <2>3
  <2>5. 1 .. 0 = {}
    OBVIOUS
  <2>6. OfProcesses(<< >>, 0) /\ Once(<< >>) /\ Complete(<< >>, 0)
    BY <2>1, <2>5 DEF OfProcesses, Once, Complete
  <2> HIDE DEF s0
  <2> QED BY <2>1, <2>4, <2>6 DEF Right
<1>9. F \in [States \X (1 .. N) -> States]
  BY <1>7
<1> HIDE DEF States, s0
<1>10. PICK g : IsLoop(g, N, States, s0, F)
  <2> HIDE DEF F
  <2> QED BY <1>1, <1>8, <1>9, LoopExists
<1>11. /\ g \in [0 .. N -> States] /\ g[0] = s0
       /\ \A i \in 1 .. N : g[i] = Turn(g[i - 1], i)
  <2>1. /\ g \in [0 .. N -> States] /\ g[0] = s0
        /\ \A i \in 1 .. N : g[i] = F[<<g[i - 1], i>>]
    <3> HIDE DEF F
    <3> QED BY <1>10 DEF IsLoop
  <2>2. ASSUME NEW i \in 1 .. N
        PROVE  F[<<g[i - 1], i>>] = Turn(g[i - 1], i)
    <3>1. i - 1 \in 0 .. N
      BY <1>1
    <3>2. <<g[i - 1], i>> \in States \X (1 .. N)
      BY <2>1, <3>1
    <3> QED BY <3>2
  <2> HIDE DEF F
  <2> QED BY <2>1, <2>2
<1> HIDE DEF F
<1>12. g = Loop(g)
  <2>1. \A i \in 0 .. N : g[i] = Loop(g)[i]
    <3>1. g[0] = Loop(g)[0]
      BY <1>4, <1>11
    <3>2. \A i \in 1 .. N : g[i] = Loop(g)[i]
      BY <1>3, <1>11
    <3> QED BY <1>1, <3>1, <3>2
  <2>2. g = [i \in 0 .. N |-> g[i]]
    BY <1>11
  <2> QED BY <1>5, <2>1, <2>2, Zenon
<1>13. after = Loop(after)
  BY <1>12
<1> HIDE DEF after
<1>14. after[0] = s0 /\ \A i \in 1 .. N : after[i] = Turn(after[i - 1], i)
  BY <1>3, <1>4, <1>13
<1> DEFINE Done == {i \in 0 .. N : Right(after[i], i)}
           id == [i \in 0 .. N |-> i]
<1>15. id[0] \in Done
  BY <1>1, <1>8, <1>14
<1>16. ASSUME NEW i \in 1 .. N, id[i - 1] \in Done
       PROVE  id[i] \in Done
  <2>1. id[i - 1] = i - 1 /\ id[i] = i /\ i \in 0 .. N
    BY <1>1
  <2>2. Right(after[i - 1], i - 1)
    BY <1>16, <2>1
  <2>3. i \in 1 .. Len(Pids)
    BY DEF N
  <2>4. Right(Turn(after[i - 1], i), i)
    BY <2>2, <2>3, TurnKeeps
  <2> QED BY <1>14, <2>1, <2>4
<1>17. \A i \in 0 .. N : id[i] \in Done
  <2> HIDE DEF Done, id
  <2> QED BY <1>1, <1>15, <1>16, LoopInvariant
<1>18. Right(after[N], N)
  <2>1. N \in 0 .. N /\ id[N] = N
    BY <1>1
  <2> QED BY <1>17, <2>1
<1> QED BY <1>2, <1>18 DEF N


ProcTyped == proc \in [Pid -> {"FREE", "LIVE", "DEAD"}]

(* The entries that an update makes fit in the heap, and leave the list in *)
(* the same form.                                                          *)
LEMMA UpdateKeeps ==
  ASSUME Bounded, Listed(root), procfs_update
  PROVE  Bounded' /\ Listed(root')
<1>1. PICK s : s = Rebuilt
  OBVIOUS
<1>2. Right(s, Len(Pids)) /\ root' = s.list /\ heap_ptr' = heap_ptr + ENTRY_SIZE * s.used
  BY <1>1, RebuiltRight DEF procfs_update
<1>3. Listed(root')
  BY <1>2 DEF Right, Listed
<1>4. PICK room \in Nat, used \in Nat : room = Room /\ used = s.used /\ used <= room
  BY <1>2, RoomIs DEF Right
<1>5. PICK k \in Nat, m \in Nat : k = ENTRY_SIZE * room /\ m = ENTRY_SIZE * used /\ m <= k
  <2>1. ENTRY_SIZE \in Nat
    BY ProcfsAssumption
  <2>2. ENTRY_SIZE * room \in Nat /\ ENTRY_SIZE * used \in Nat
        /\ ENTRY_SIZE * used <= ENTRY_SIZE * room
    BY <1>4, <2>1
  <2> QED BY <2>2
<1>6. heap_ptr + k <= HEAP_SIZE /\ heap_ptr' = heap_ptr + m
  BY <1>2, <1>4, <1>5, RoomIs
<1>7. heap_ptr' \in Nat /\ heap_ptr' <= HEAP_SIZE
  BY <1>5, <1>6, HeapAssumption DEF Bounded
<1> QED BY <1>3, <1>7 DEF Bounded

(* What an update makes of the list.                                       *)
FollowsWith(made) ==
  /\ root' = made \o GlobalEntries
  /\ IsInjective(NamesOf(made))
  /\ \A i \in DOMAIN made :
       /\ proc[made[i].pid] = "LIVE" /\ made[i].name = made[i].pid
       /\ \A j \in DOMAIN made[i].kids : made[i].kids[j].pid = made[i].pid
  /\ \/ Exhausted'
     \/ /\ {made[i].pid : i \in DOMAIN made} = {p \in Pid : proc[p] = "LIVE"}
        /\ \A i \in DOMAIN made : NamesOf(made[i].kids) = Reverse(PidFiles)

LEMMA UpdateRight ==
  ASSUME Bounded, Listed(root), ProcTyped, procfs_update
  PROVE  FollowsWith(SubSeq(root', 1, Len(root') - Len(GlobalEntries)))
<1>1. PICK s : s = Rebuilt
  OBVIOUS
<1>2. Right(s, Len(Pids)) /\ root' = s.list /\ heap_ptr' = heap_ptr + ENTRY_SIZE * s.used
  BY <1>1, RebuiltRight DEF procfs_update
<1>3. PICK made \in Seq(DirEntries) :
        /\ root' = made \o GlobalEntries
        /\ OfProcesses(made, Len(Pids)) /\ Once(made)
        /\ Complete(made, Len(Pids)) \/ s.used = Room
  BY <1>2 DEF Right
<1>4. /\ Len(made) \in Nat /\ DOMAIN made = 1 .. Len(made)
      /\ \A i \in 1 .. Len(made) : made[i] \in DirEntries
  BY LenProperties
<1>5. SubSeq(root', 1, Len(root') - Len(GlobalEntries)) = made
  <2> DEFINE g == GlobalEntries
  <2>1. g \in Seq(Entry) /\ made \in Seq(Entry) /\ Len(g) \in Nat
    BY GlobalsAre, SeqMonotonic DEF Entry
  <2>2. Len(made \o g) = Len(made) + Len(g)
    BY ListIs
  <2> HIDE DEF g
  <2>3. Len(made \o g) - Len(g) = Len(made)
    BY <1>4, <2>1, <2>2
  <2>4. CASE Len(made) = 0
    <3>1. made = << >>
      BY <2>4, EmptySeq
    <3>2. SubSeq(made \o g, 1, 0) = << >>
      BY SubSeqEmpty
    <3> QED BY <1>3, <2>3, <2>4, <3>1, <3>2 DEF g
  <2>5. CASE Len(made) # 0
    <3>1. 1 \in 1 .. Len(made) /\ Len(made) \in 1 .. Len(made)
      BY <1>4, <2>5
    <3>2. SubSeq(made \o g, 1, Len(made)) = SubSeq(made, 1, Len(made))
      BY <2>1, <3>1, SubSeqOfConcat1
    <3>3. SubSeq(made, 1, Len(made)) = made
      BY SubSeqFull
    <3> QED BY <1>3, <2>3, <3>2, <3>3 DEF g
  <2> QED BY <2>4, <2>5
<1>6. \A p \in Pid : Alive(p) <=> proc[p] = "LIVE"
  BY DEF ProcTyped, Alive
<1>7. \A i \in DOMAIN made :
        /\ proc[made[i].pid] = "LIVE" /\ made[i].name = made[i].pid
        /\ \A j \in DOMAIN made[i].kids : made[i].kids[j].pid = made[i].pid
  BY <1>3, <1>4, <1>6, PidsAre DEF OfProcesses
<1>8. IsInjective(NamesOf(made))
  <2>1. \A a \in 1 .. Len(made) : NamesOf(made)[a] = made[a].pid
    BY <1>4, <1>7 DEF NamesOf
  <2>2. DOMAIN NamesOf(made) = 1 .. Len(made)
    BY <1>4 DEF NamesOf
  <2> QED BY <1>3, <2>1, <2>2 DEF Once, IsInjective
<1>9. ASSUME s.used = Room PROVE FollowsWith(made)
  <2>1. PICK k \in Nat : k = ENTRY_SIZE * Room /\ heap_ptr + k <= HEAP_SIZE
                         /\ HEAP_SIZE < heap_ptr + k + ENTRY_SIZE
    <3>1. ENTRY_SIZE \in Nat /\ Room \in Nat
      BY ProcfsAssumption, RoomIs
    <3>2. ENTRY_SIZE * Room \in Nat
      BY <3>1
    <3> QED BY <3>2, RoomIs
  <2>2. PICK b : b = heap_ptr'
    OBVIOUS
  <2>3. b = heap_ptr + k
    BY <1>2, <1>9, <2>1, <2>2
  <2>4. /\ b \in Nat /\ b <= HEAP_SIZE /\ HEAP_SIZE < b + ENTRY_SIZE
        /\ ENTRY_SIZE \in Nat /\ WIDTH \in Nat \ {0} /\ HEAP_SIZE \in Nat
        /\ HEAP_SIZE + ENTRY_SIZE < WIDTH
    BY <2>1, <2>3, HeapAssumption, ProcfsAssumption DEF Bounded
  <2>5. (b + ENTRY_SIZE) % WIDTH = b + ENTRY_SIZE
    <3>1. PICK c \in Nat : c = b + ENTRY_SIZE
      BY <2>4
    <3>2. c \in 0 .. WIDTH - 1
      BY <2>4, <3>1
    <3> QED BY <2>4, <3>1, <3>2
  <2>6. ~((b + ENTRY_SIZE) % WIDTH <= HEAP_SIZE)
    BY <2>4, <2>5
  <2>7. Exhausted'
    BY <2>2, <2>6 DEF Exhausted, Fits
  <2> QED BY <1>3, <1>7, <1>8, <2>7 DEF FollowsWith
<1>10. ASSUME Complete(made, Len(Pids)) PROVE FollowsWith(made)
  <2>1. {made[i].pid : i \in DOMAIN made} = {p \in Pid : proc[p] = "LIVE"}
    <3>1. \A i \in DOMAIN made : made[i].pid \in Pid
      BY <1>4 DEF DirEntries
    <3>2. \A p \in Pid : proc[p] = "LIVE" => \E i \in DOMAIN made : made[i].pid = p
      BY <1>4, <1>6, <1>10, PidsAre DEF Complete
    <3> QED BY <1>7, <3>1, <3>2
  <2>2. \A i \in DOMAIN made : NamesOf(made[i].kids) = Reverse(PidFiles)
    BY <1>4, <1>10 DEF Complete
  <2> QED BY <1>3, <1>7, <1>8, <2>1, <2>2 DEF FollowsWith
<1> QED BY <1>3, <1>5, <1>9, <1>10

(* Nothing else touches the list, and processes change one at a time.      *)
LEMMA ListStays ==
  ASSUME Bounded, Listed(root), ProcTyped, Next
  PROVE  Listed(root') /\ ProcTyped'
<1>1. CASE procfs_update
  <2>1. proc' = proc
    BY <1>1 DEF procfs_update
  <2> QED BY <1>1, <2>1, UpdateKeeps DEF ProcTyped
<1>2. CASE root' = root /\ proc' = proc
  BY <1>2 DEF ProcTyped
<1>3. CASE Processes
  BY <1>3 DEF Processes, Becomes, ProcTyped
<1>4. ASSUME NEW h \in Handle, NEW path \in Paths, procfs_open(h, path)
      PROVE  root' = root /\ proc' = proc
  BY <1>4 DEF procfs_open
<1>5. ASSUME NEW h \in Handle, NEW sz \in Counts, procfs_read(h, sz)
      PROVE  root' = root /\ proc' = proc
  BY <1>5 DEF procfs_read
<1>6. ASSUME NEW h \in Handle, procfs_close(h) PROVE root' = root /\ proc' = proc
  BY <1>6 DEF procfs_close
<1>7. CASE Lookup
  BY <1>2, <1>7 DEF Lookup, vars
<1> QED BY <1>1, <1>2, <1>3, <1>4, <1>5, <1>6, <1>7 DEF Next

(* /proc is mounted while no process exists.                               *)
LEMMA MountedList ==
  ASSUME Mounted
  PROVE  Listed(root) /\ ProcTyped
<1>1. << >> \in Seq(DirEntries)
  BY EmptySeq
<1>2. << >> \o GlobalEntries = GlobalEntries
  BY GlobalsAre, ConcatEmptySeq
<1> QED BY <1>1, <1>2 DEF Mounted, Listed, ProcTyped

-----------------------------------------------------------------------------
(* The offset.                                                             *)

(* What malloc hands out leaves the offset within the heap, also when its  *)
(* test wraps.                                                             *)
LEMMA AllocateBounded ==
  ASSUME Bounded, NEW sz \in Nat, Allocate(sz)
  PROVE  Bounded'
<1>1. PICK p : p = (heap_ptr + sz) % WIDTH
  OBVIOUS
<1>2. p \in Nat /\ p <= HEAP_SIZE
  <2>1. PICK q \in Nat : q = heap_ptr + sz
    BY DEF Bounded
  <2>2. WIDTH \in Nat \ {0}
    BY HeapAssumption
  <2>3. q % WIDTH \in Nat
    BY <2>1, <2>2
  <2> QED BY <1>1, <2>1, <2>3 DEF Allocate, Fits
<1>3. PICK b : b = heap_ptr'
  OBVIOUS
<1>4. b = ((p + ALIGN - 1) \div ALIGN) * ALIGN
  BY <1>1, <1>3 DEF Allocate, Bumped, RoundUp
<1>5. b \in Nat /\ b <= HEAP_SIZE
  BY <1>2, <1>4, RoundsUp
<1> QED BY <1>3, <1>5 DEF Bounded

(* A file takes its record and its buffer, or its record alone.            *)
LEMMA OpenBounded ==
  ASSUME Bounded, NEW h, NEW path, procfs_open(h, path)
  PROVE  Bounded'
<1>1. FILE_SIZE \in Nat /\ PROCFS_BUFFER_SIZE \in Nat /\ SHORT_BUFFER_SIZE \in Nat
  BY ProcfsAssumption
<1>2. PICK entry : Allocate(Both(entry)) \/ Allocate(FILE_SIZE)
  BY DEF procfs_open
<1>3. Both(entry) \in Nat
  <2>1. BufferSize(entry) \in Nat
    BY <1>1 DEF BufferSize
  <2>2. RoundUp(FILE_SIZE) \in Nat
    <3>1. ALIGN \in Nat \ {0}
      BY HeapAssumption
    <3>2. PICK d \in Nat : d = (FILE_SIZE + ALIGN - 1) \div ALIGN
      BY <1>1, <3>1
    <3> QED BY <3>1, <3>2 DEF RoundUp
  <2> QED BY <2>1, <2>2 DEF Both
<1> QED BY <1>1, <1>2, <1>3, AllocateBounded

(* Everything /proc does stays within the heap.                            *)
LEMMA ProcfsBounded ==
  ASSUME Bounded, Listed(root), Next
  PROVE  Bounded'
<1>1. CASE heap_ptr' = heap_ptr
  BY <1>1 DEF Bounded
<1>2. CASE procfs_update
  BY <1>2, UpdateKeeps
<1>3. ASSUME NEW h \in Handle, NEW path \in Paths, procfs_open(h, path)
      PROVE  Bounded'
  BY <1>3, OpenBounded
<1>4. ASSUME NEW h \in Handle, NEW sz \in Counts, procfs_read(h, sz)
      PROVE  heap_ptr' = heap_ptr
  BY <1>4 DEF procfs_read
<1>5. ASSUME NEW h \in Handle, procfs_close(h) PROVE heap_ptr' = heap_ptr
  BY <1>5 DEF procfs_close
<1>6. CASE Processes
  BY <1>1, <1>6 DEF Processes, Becomes
<1>7. CASE Lookup
  BY <1>1, <1>7 DEF Lookup, vars
<1> QED BY <1>1, <1>2, <1>3, <1>4, <1>5, <1>6, <1>7 DEF Next

(* The invariant, by the user a behaviour is about.                        *)
HeapInv == /\ Listed(root) /\ ProcTyped
           /\ \/ client = "procfs" /\ Bounded /\ S!ipc_init /\ M!NoTables
              \/ client = "shmem" /\ SegmentsInv /\ M!NoTables
              \/ client = "vmm" /\ VmmInv /\ S!ipc_init

(* Every step of a user keeps its invariant.                               *)
LEMMA HeapInvHolds ==
  NoneWraps => (HeapSpec => []HeapInv)
<1> SUFFICES ASSUME NoneWraps
             PROVE  HeapSpec => []HeapInv
  OBVIOUS
<1>0. S!ShmemAssumption /\ M!VmmAssumption
  BY HeapClientsAssumption
<1>1. HeapInit => HeapInv
  <2> SUFFICES ASSUME HeapInit PROVE HeapInv
    OBVIOUS
  <2>0. Listed(root) /\ ProcTyped
    BY MountedList DEF HeapInit, Init
  <2>1. CASE client = "procfs" /\ Init /\ S!ipc_init /\ M!NoTables
    BY <2>0, <2>1, MountBounded DEF HeapInv
  <2>2. CASE client = "shmem" /\ S!Init /\ M!NoTables
    BY <1>0, <2>0, <2>2, SegmentsStart DEF HeapInv
  <2>3. CASE client = "vmm" /\ S!ipc_init /\ M!Init
    <3>1. heap_ptr = 0 /\ M!NoTables
      BY <2>3 DEF M!Init
    <3>2. heap_ptr \in Nat /\ heap_ptr <= HEAP_SIZE /\ heap_ptr % 4 = 0
      BY <3>1, HeapAssumption
    <3> QED BY <1>0, <2>0, <2>3, <3>1, <3>2, StartInv DEF HeapInv
  <2> QED BY <2>1, <2>2, <2>3 DEF HeapInit
<1>2. HeapInv /\ [HeapNext]_heapVars => HeapInv'
  <2> SUFFICES ASSUME HeapInv, [HeapNext]_heapVars
               PROVE  HeapInv'
    OBVIOUS
  <2>1. CASE UNCHANGED heapVars
    <3>0. Listed(root)' /\ ProcTyped'
      BY <2>1 DEF heapVars, procfsVars, HeapInv, Listed, ProcTyped
    <3>1. /\ UNCHANGED M!vars /\ UNCHANGED S!vars
          /\ heap_ptr' = heap_ptr /\ client' = client
      BY <2>1 DEF heapVars, shmemVars, vmmVars, M!vars, S!vars
    <3>2. (S!ipc_init => S!ipc_init') /\ (M!NoTables => M!NoTables') /\ (Bounded => Bounded')
      BY <3>1 DEF S!vars, M!vars, S!ipc_init, M!NoTables, Bounded
    <3>3. SegmentsInv => SegmentsInv'
      BY <3>1 DEF S!vars, SegmentsInv, SegmentsTyped, S!BlocksDisjoint, AllOwned, Owned, Distinct
    <3>4. VmmInv => VmmInv'
      BY <1>0, <3>1, NextInv
    <3> QED BY <3>0, <3>1, <3>2, <3>3, <3>4 DEF HeapInv
  <2>2. CASE client = "procfs" /\ Next /\ UNCHANGED <<client, shmemVars, vmmVars>>
    <3>1. Bounded /\ S!ipc_init /\ M!NoTables
      BY <2>2 DEF HeapInv
    <3>2. S!ipc_init' /\ M!NoTables'
      BY <2>2, <3>1 DEF shmemVars, vmmVars, S!ipc_init, M!NoTables
    <3>3. Listed(root') /\ ProcTyped'
      BY <2>2, <3>1, ListStays DEF HeapInv
    <3>4. Bounded'
      BY <2>2, <3>1, ProcfsBounded DEF HeapInv
    <3> QED BY <2>2, <3>1, <3>2, <3>3, <3>4 DEF HeapInv
  <2>3. CASE client = "shmem" /\ S!Next /\ UNCHANGED <<client, procfsVars, vmmVars>>
    <3>1. SegmentsInv /\ M!NoTables
      BY <2>3 DEF HeapInv
    <3>2. M!NoTables'
      BY <2>3, <3>1 DEF vmmVars, M!NoTables
    <3>3. SegmentsInv'
      BY <1>0, <2>3, <3>1, SegmentsNext
    <3>4. Listed(root)' /\ ProcTyped'
      BY <2>3 DEF HeapInv, procfsVars, Listed, ProcTyped
    <3> QED BY <2>3, <3>2, <3>3, <3>4 DEF HeapInv
  <2>4. CASE client = "vmm" /\ M!Next /\ UNCHANGED <<client, procfsVars, shmemVars>>
    <3>1. VmmInv /\ S!ipc_init
      BY <2>4 DEF HeapInv
    <3>2. S!ipc_init'
      BY <2>4, <3>1 DEF shmemVars, S!ipc_init
    <3>3. VmmInv'
      BY <1>0, <2>4, <3>1, NextInv
    <3>4. Listed(root)' /\ ProcTyped'
      BY <2>4 DEF HeapInv, procfsVars, Listed, ProcTyped
    <3> QED BY <2>4, <3>2, <3>3, <3>4 DEF HeapInv
  <2> QED BY <2>1, <2>2, <2>3, <2>4 DEF HeapNext
<1> QED BY <1>1, <1>2, PTL DEF HeapSpec

(* No two owners share a byte of the heap: not two segments, not a segment *)
(* and a block of somebody else, not who is still attached to a segment    *)
(* that was destroyed and whoever got memory later; as long as no caller   *)
(* asks for a size at which malloc's 32-bit test wraps.  And nobody moves  *)
(* the offset beyond the heap.                                             *)
THEOREM SegmentsApart ==
  NoneWraps => (HeapSpec => []OwnersApart)
<1> SUFFICES ASSUME NoneWraps
             PROVE  HeapSpec => []OwnersApart
  OBVIOUS
<1>1. HeapInv => OwnersApart
  <2>1. SegmentsInv => OwnersApart
    BY SegmentsMean DEF SegmentsInv, OwnersApart, S!OwnersApart
  <2>2. Bounded /\ S!ipc_init => OwnersApart
    <3> SUFFICES ASSUME Bounded, S!ipc_init PROVE OwnersApart
      OBVIOUS
    <3>1. blocks = << >> /\ \A i \in S!Id : ~active[i]
      BY DEF S!ipc_init
    <3>2. 1 .. Len(blocks) = {}
      BY <3>1
    <3> QED BY <3>1, <3>2 DEF Bounded, OwnersApart, S!OwnersApart, S!BlocksDisjoint,
                              S!SegmentsAreBlocks
  <2>3. VmmInv => Bounded
    BY DEF VmmInv, TreeTyped, M!Tree, Bounded
  <2> QED BY <2>1, <2>2, <2>3 DEF HeapInv
<1>2. HeapSpec => []HeapInv
  BY HeapInvHolds
<1> QED BY <1>1, <1>2, PTL

(* With every table on a page of its own, each byte of a mapped page       *)
(* translates to that of the frame it was last mapped to, each byte of     *)
(* another to its offset, or to 0 while the page has no table, in the      *)
(* kernel's directory and in every copy of it, whatever was mapped,        *)
(* unmapped, copied, switched to or refused in between; vmm_is_mapped errs *)
(* for the bytes behind the first of an unmapped page with a table and for *)
(* address 0 of frame 0, and nowhere else.  This is as long as no caller   *)
(* of malloc asks for a size at which its test wraps.                      *)
THEOREM PagesTranslate ==
  NoneWraps => (HeapSpec => []TranslatesAsMapped)
<1> SUFFICES ASSUME NoneWraps
             PROVE  HeapSpec => []TranslatesAsMapped
  OBVIOUS
<1>0. M!VmmAssumption
  BY HeapClientsAssumption
<1>1. HeapInv => TranslatesAsMapped
  <2>1. VmmInv => TranslatesAsMapped
    BY <1>0, TreeTranslates DEF TranslatesAsMapped
  <2>2. M!NoTables => TranslatesAsMapped
    BY DEF M!NoTables, TranslatesAsMapped, M!TranslatesAsMapped
  <2> QED BY <2>1, <2>2 DEF HeapInv
<1>2. HeapSpec => []HeapInv
  BY HeapInvHolds
<1> QED BY <1>1, <1>2, PTL

(* After an update the list of /proc is the directories of live processes, *)
(* none twice, in front of the global files; it has all of the live ones,  *)
(* with all their files, unless the heap has no room for one more entry:   *)
(* however often it was updated before, and whoever else uses the heap.    *)
THEOREM ListFollowsProcesses ==
  NoneWraps => (HeapSpec => UpdateFollowsProcesses)
<1> SUFFICES ASSUME NoneWraps
             PROVE  HeapSpec => UpdateFollowsProcesses
  OBVIOUS
<1>1. HeapInv => Bounded
  <2>1. SegmentsInv => Bounded
    BY HeapAssumption DEF SegmentsInv, SegmentsTyped, S!BlocksDisjoint, Bounded
  <2>2. VmmInv => Bounded
    BY DEF VmmInv, TreeTyped, M!Tree, Bounded
  <2> QED BY <2>1, <2>2 DEF HeapInv
<1>2. HeapInv /\ procfs_update => FollowsWith(SubSeq(root', 1, Len(root') - Len(GlobalEntries)))
  BY <1>1, UpdateRight DEF HeapInv
<1>3. HeapSpec => []HeapInv
  BY HeapInvHolds
<1>4. HeapInv /\ [HeapNext]_heapVars => [procfs_update =>
        FollowsWith(SubSeq(root', 1, Len(root') - Len(GlobalEntries)))]_vars
  BY <1>2
<1> QED BY <1>3, <1>4, PTL DEF HeapSpec, UpdateFollowsProcesses, FollowsWith
=============================================================================
