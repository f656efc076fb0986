-------------------------------- MODULE Ext4 --------------------------------
(***************************************************************************)
(* An open file of ext4.c: reading through the inode's extents, seeking,   *)
(* and the write that only moves the position.                             *)
(*                                                                         *)
(* The driver writes nothing to the disk, so that the inode and the blocks *)
(* do not change while the file is open; a block is read in one piece or   *)
(* its read fails.  The inode is one of Layouts, with all its extents in   *)
(* the inode, as ext4_read takes them, and none missing before its end.    *)
(*                                                                         *)
(* got and from are history variables: the bytes the reads have delivered  *)
(* since the position was last set, and that position.                     *)
(*                                                                         *)
(* Bound: a write starts where the file has not ended yet.                 *)
(***************************************************************************)
EXTENDS Integers, Sequences, FiniteSets, SequencesExt

CONSTANTS BLOCK,     \* bytes of a block: fs->block_size
          SIZE_WIDTH, \* values of a uint32_t that counts bytes
          Layouts,   \* inodes: [size, extents], an extent is [block, len, start]
          Sizes      \* the sizes and offsets callers pass

Ext4Assumption ==
  /\ BLOCK \in Nat \ {0} /\ SIZE_WIDTH \in Nat \ {0}
  /\ Sizes \subseteq 0 .. SIZE_WIDTH - 1
  /\ \A f \in Layouts :
       /\ f.size \in Nat
       /\ f.extents \in Seq([block : Nat, len : Nat, start : Nat])
       /\ \A p \in 0 .. f.size - 1 : \E i \in DOMAIN f.extents :
            LET e == f.extents[i] IN e.block * BLOCK <= p /\ p < (e.block + e.len) * BLOCK

VARIABLES file,       \* the inode read at ext4_open
          position, got, from

vars == <<file, position, got, from>>

(* The byte of the disk at an offset of a block, which may be beyond it.   *)
DiskByte(block, off) == <<block + off \div BLOCK, off % BLOCK>>

ext4_open == /\ file \in Layouts
             /\ position = 0 /\ got = << >> /\ from = 0

Init == ext4_open

-----------------------------------------------------------------------------
Ends(e) == (e.block + e.len) * BLOCK

NotPassed(e) == position < Ends(e)

(* The extents the for loop does not continue past: the first is read, and *)
(* its while loop stops for nothing but the size and a failing block.      *)
ReadFrom == LET hits == {i \in DOMAIN file.extents : NotPassed(file.extents[i])}
            IN {file.extents[i] : i \in {i \in hits : \A j \in hits : i <= j}}

(* Mutant: the offset in the extent is forgotten.                          *)
FromItsStart(e) == 0

OffsetIn(e) == Max({0, position - e.block * BLOCK})

(* What is left of the file is cut to 32 bits: of 4 GB there is nothing.   *)
Available(size) == Min({size, (file.size - position) % SIZE_WIDTH})

(* The ends of the pieces in which n bytes from offset off are copied: a   *)
(* read that fails returns what was copied before.                         *)
Stops(off, n) == {n} \cup {k \in 0 .. n - 1 : (off + k) % BLOCK = 0 \/ k = 0}

ext4_read(size) ==
  /\ position < file.size
  /\ \E e \in ReadFrom :
       \E n \in Stops(OffsetIn(e), Available(size)) :
         /\ got' = got \o [k \in 1 .. n |-> DiskByte(e.start, OffsetIn(e) + k - 1)]
         /\ position' = position + n
  /\ UNCHANGED <<file, from>>

(* Placing the position starts a new run of reads.                         *)
Placed(p) == position' = p /\ from' = p /\ got' = << >> /\ UNCHANGED file

ext4_write(size) == position < file.size /\ Placed(position + size)

ext4_seek(offset) == offset <= file.size /\ Placed(offset)

(* A read at the end of the file, behind its last extent or of a layout    *)
(* without extents returns 0, as a call that is refused.                   *)
Lookup == UNCHANGED vars

Next == \/ \E n \in Sizes : ext4_read(n) \/ ext4_write(n) \/ ext4_seek(n)
        \/ Lookup

Spec == Init /\ [][Next]_vars

-----------------------------------------------------------------------------
(* The byte of the file at a position, by the meaning of its extents.      *)
FileByte(p) ==
  LET e == CHOOSE e \in ToSet(file.extents) : e.block * BLOCK <= p /\ p < Ends(e)
  IN DiskByte(e.start, p - e.block * BLOCK)

ReadsTheBytes == \A k \in DOMAIN got : got[k] = FileByte(from + k - 1)

(* Every extent goes on, in the file and on the disk, where the one before *)
(* it ends.                                                                *)
Contiguous ==
  \A i \in 1 .. Len(file.extents) - 1 :
    LET e == file.extents[i]
        next == file.extents[i + 1]
    IN next.block = e.block + e.len /\ next.start = e.start + e.len

(* A file whose blocks are in one run is read byte for byte, through reads *)
(* of any size that start and end inside blocks, cross from one extent to  *)
(* the next or stop at a block that cannot be read.                        *)
OneRunIsReadRight == Contiguous => ReadsTheBytes

(* The extent based reading of line 168: what the reads deliver is the     *)
(* file, wherever its extents are on the disk.                             *)
ExtentsAreRead == ReadsTheBytes
=============================================================================
