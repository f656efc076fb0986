-------------------------------- MODULE Heap --------------------------------
(***************************************************************************)
(* The kernel's allocator, kernel/generic.c: an 8 MB array and an offset   *)
(* heap_ptr that only malloc moves; free does nothing.  Addresses are      *)
(* offsets into the array, sizes and heap_ptr are uint32_t (WIDTH values). *)
(***************************************************************************)
EXTENDS Integers

CONSTANTS HEAP_SIZE,  \* sizeof(heap)
          ALIGN,      \* 4
          WIDTH       \* values of a uint32_t (2^32)

ASSUME HeapAssumption == /\ ALIGN \in Nat \ {0}
                         /\ HEAP_SIZE \in Nat
                         /\ HEAP_SIZE % ALIGN = 0
                         /\ WIDTH \in Nat \ {0}
                         /\ HEAP_SIZE + ALIGN < WIDTH

VARIABLE heap_ptr

(* The next multiple of ALIGN.                                             *)
RoundUp(p) == ((p + ALIGN - 1) \div ALIGN) * ALIGN

(* The test of line 13; the sum is a uint32_t and may wrap.                *)
Fits(sz) == (heap_ptr + sz) % WIDTH <= HEAP_SIZE

(* Mutant: the offset is not moved past the block.                         *)
BumpedShort(sz) == RoundUp(heap_ptr + sz - 1)

Bumped(sz) == RoundUp((heap_ptr + sz) % WIDTH)

(* A successful malloc: the block is at the old heap_ptr.                  *)
Allocate(sz) == Fits(sz) /\ heap_ptr' = Bumped(sz)
=============================================================================
