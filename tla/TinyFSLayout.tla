---------------------------- MODULE TinyFSLayout ----------------------------
(***************************************************************************)
(* The blocks of a TinyFS disk (tinyFS.h) and the consistency check that   *)
(* tfs_mount runs over them (_check_block_con, libTinyFS_helpers.c).       *)
(*                                                                         *)
(* A block is a record with every field some code reads out of its bytes;  *)
(* code that reads a block as something it is not finds the fields that    *)
(* the bytes left there would show it.  The safety byte, always 0x44, and  *)
(* the timestamps are left out.                                            *)
(*                                                                         *)
(* UnsignedChar and HeaderTaken are mistakes the definition that follows   *)
(* each could have made; nothing uses them.                                *)
(***************************************************************************)
EXTENDS Integers, Sequences, FiniteSets

CONSTANTS
  NumBlocks,       \* blocks on the disk, the superblock (block 0) included
  Slots,           \* pointer bytes of an inode or of the superblock
  MAX_DATA_SPACE,  \* payload bytes of a data block
  ByteRange,       \* values of a byte: 256
  Names,           \* file and directory names
  NoName,          \* the name field of a block that is not an inode
  Tags,            \* identities of the buffers given to tfs_writeFile
  NoTag            \* no buffer was written to the block

(* An address is one byte. *)
ASSUME LayoutAssumption ==
  /\ ByteRange \in Nat /\ ByteRange >= 2
  /\ NumBlocks \in Nat /\ NumBlocks >= 1 /\ NumBlocks <= ByteRange
  /\ Slots \in Nat
  /\ MAX_DATA_SPACE \in Nat /\ MAX_DATA_SPACE >= 1
  /\ NoName \notin Names
  /\ NoTag \notin Tags

Addr == 0 .. NumBlocks - 1
SUPERBLOCK_DISKLOC == 0

(* What a data block holds: which buffer, and which stretch of it. *)
Payload == [tag : Tags \cup {NoTag}, idx : Nat]
NoData == [tag |-> NoTag, idx |-> 0]

BlockTypes == {"ZERO", "SUPERBLOCK", "INODE", "FILEEX", "FREE"}
Kinds == {"none", "file", "dir"}

Block == [type : BlockTypes, next : Addr, kind : Kinds,
          name : Names \cup {NoName}, size : Nat, off : Nat,
          ptr : [1 .. Slots -> Addr], data : Payload]

(* A block of zeros, as openDisk leaves the file it creates. *)
Blank == [type |-> "ZERO", next |-> 0, kind |-> "none", name |-> NoName,
          size |-> 0, off |-> 0, ptr |-> [i \in 1 .. Slots |-> 0],
          data |-> NoData]

FreeBlk(n) == [Blank EXCEPT !.type = "FREE", !.next = n]
SuperBlk(n) == [Blank EXCEPT !.type = "SUPERBLOCK", !.next = n]
Inode(kind, name) ==
  [Blank EXCEPT !.type = "INODE", !.kind = kind, !.name = name]

(* The image tfs_mkfs leaves: every block but the first on the free list,  *)
(* in ascending order.                                                     *)
NextFree(n, i) == IF i + 1 # n THEN i + 1 ELSE 0
FirstFree(n) == IF n > 1 THEN 1 ELSE 0
FormatBlk(i) == FreeBlk(NextFree(NumBlocks, i))
FormatSuper == SuperBlk(FirstFree(NumBlocks))
Formatted ==
  [b \in Addr |-> IF b = SUPERBLOCK_DISKLOC THEN FormatSuper ELSE FormatBlk(b)]

MinOf(S) == CHOOSE i \in S : \A j \in S : i <= j

(* How many pointers a file inode is read through: up to the first zero.   *)
UsedCount(ptr) ==
  CHOOSE k \in 0 .. Slots :
    /\ \A i \in 1 .. k : ptr[i] # 0
    /\ k < Slots => ptr[k + 1] = 0

---------------------------------------------------------------------------
(* Sizes.  Division truncates towards zero, as in C. *)
TruncDiv(a, b) == IF a >= 0 THEN a \div b ELSE -((-a) \div b)
BlocksFor(size) == TruncDiv(size - 1, MAX_DATA_SPACE) + 1

(* tfs_writeFile stores the size as four bytes; _check_block_con reads     *)
(* them back through a char buffer, so each byte is sign-extended before   *)
(* it is shifted.                                                          *)
SizeByte(size, k) == (size \div (ByteRange ^ k)) % ByteRange
UnsignedChar(v) == v
SignedChar(v) == IF v >= ByteRange \div 2 THEN v - ByteRange ELSE v
CheckedSize(size) ==
  SignedChar(SizeByte(size, 0))
    + SignedChar(SizeByte(size, 1)) * ByteRange
    + SignedChar(SizeByte(size, 2)) * ByteRange ^ 2
    + SignedChar(SizeByte(size, 3)) * ByteRange ^ 3

---------------------------------------------------------------------------
(* The mount check. *)

(* A file's size is looked at only once a data pointer was found; a file   *)
(* without data passes whatever its size says.                             *)
SizeMatches(blk) ==
  LET num_data == Cardinality({i \in 1 .. Slots : blk.ptr[i] # 0})
  IN  num_data > 0 => BlocksFor(CheckedSize(blk.size)) = num_data

(* The block alone is what the pointer that led to it says it is.          *)
HeaderTaken(blk, as) ==
  /\ as \in {"INODE", "FILEEX"} => blk.next = 0
  /\ as = "INODE" => blk.kind \in {"file", "dir"} /\ blk.name # NoName
HeaderOK(blk, as) ==
  /\ blk.type = as
  /\ as \in {"INODE", "FILEEX"} => blk.next = 0
  /\ as = "INODE" => blk.kind \in {"file", "dir"} /\ blk.name # NoName

SizeOK(blk, as) == as = "INODE" /\ blk.kind = "file" => SizeMatches(blk)

(* The reference i of a block: 0 is its place on the free list, the others *)
(* are its pointers; and what _check_block_con takes the block there for.  *)
Ref(blk, as, i) ==
  CASE i = 0 /\ as \in {"SUPERBLOCK", "FREE"} -> blk.next
    [] i # 0 /\ as \in {"SUPERBLOCK", "INODE"} -> blk.ptr[i]
    [] OTHER -> 0
RefAs(blk, i) ==
  IF i = 0 THEN "FREE" ELSE IF blk.kind = "file" THEN "FILEEX" ELSE "INODE"

(* The references _check_block_con goes through, in the order it does.     *)
References(blk, as) ==
  [i \in 1 .. Slots + 1 |-> [blk |-> Ref(blk, as, i - 1), as |-> RefAs(blk, i - 1)]]

(***************************************************************************)
(* The recursion of _check_block_con as a depth-first walk: work holds the *)
(* visits still to be made, seen is blocks_checked.  A visit nested deeper *)
(* than there are blocks has come back to a block it started from; the     *)
(* recursion of the program then never ends and exhausts its stack.        *)
(***************************************************************************)
Visit == [blk : Addr, as : BlockTypes, depth : Nat]
Walks == [work : Seq(Visit), seen : SUBSET Addr]

StartWalk ==
  [work |-> <<[blk |-> SUPERBLOCK_DISKLOC, as |-> "SUPERBLOCK", depth |-> 1]>>,
   seen |-> {}]

WalkStep(d, w) ==
  LET v    == Head(w.work)
      refs == References(d[v.blk], v.as)
  IN  [work |-> [i \in DOMAIN refs |->
                   [blk |-> refs[i].blk, as |-> refs[i].as,
                    depth |-> v.depth + 1]] \o Tail(w.work),
       seen |-> w.seen \cup {v.blk}]

(* A zero is not followed; the walk itself begins at block zero. *)
Nowhere(v) == v.blk = 0 /\ v.as # "SUPERBLOCK"
Pass(w) == [w EXCEPT !.work = Tail(@)]

(* How the check of disk d ends: "ok", "bad" (ERR_BAD_DISK) or "overflow". *)
MountCheck(d) ==
  LET verdict[w \in Walks] ==
        IF w.work = <<>> THEN IF w.seen = DOMAIN d THEN "ok" ELSE "bad"
        ELSE LET v == Head(w.work)
             IN  IF Nowhere(v) THEN verdict[Pass(w)]
                 ELSE IF ~ HeaderOK(d[v.blk], v.as) THEN "bad"
                 ELSE IF v.depth > Cardinality(DOMAIN d) THEN "overflow"
                 ELSE IF ~ SizeOK(d[v.blk], v.as) THEN "bad"
                 ELSE verdict[WalkStep(d, w)]
  IN  verdict[StartWalk]

=============================================================================
