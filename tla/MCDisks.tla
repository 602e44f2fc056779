------------------------------ MODULE MCDisks ------------------------------
(* Two files of the host; images of four blocks that were not made by      *)
(* tfs_mkfs: a sound one, and ones with one thing wrong.                   *)
EXTENDS Disks, TLC

CONSTANTS n1, t1

Ptrs(p) == [i \in 1 .. Slots |-> IF i = 1 THEN p ELSE 0]
Data == [Blank EXCEPT !.type = "FILEEX"]
FileOf(p, size) == [Inode("file", n1) EXCEPT !.ptr = Ptrs(p), !.size = size]
DirOf(p) == [Inode("dir", n1) EXCEPT !.ptr = Ptrs(p)]
RootOf(p, next) == [SuperBlk(next) EXCEPT !.ptr = Ptrs(p)]

ImageOf(s) ==
  [Zeros(Len(s), FALSE) EXCEPT
     !.blk = [b \in Addr |-> IF b < Len(s) THEN s[b + 1] ELSE Blank]]

(* The root holds a directory, the directory a file, the file a block. *)
Whole == ImageOf(<<RootOf(1, 0), DirOf(2), FileOf(3, 1), Data>>)

Images ==
  {Whole,
   [Whole EXCEPT !.odd = TRUE],
   [Whole EXCEPT !.blk[2] = FileOf(3, 2)],               \* size of two blocks
   [Whole EXCEPT !.blk[2] = FileOf(0, 0)],               \* block 3 unreachable
   [Whole EXCEPT !.blk[2] = FileOf(2, 1)],               \* its inode is its data
   [Whole EXCEPT !.blk[1] = DirOf(1)],                   \* directory in itself
   [Whole EXCEPT !.blk[2] = DirOf(3)],                   \* data as an inode
   [Whole EXCEPT !.blk[2] = FreeBlk(0)],
   [Whole EXCEPT !.blk[1] = FileOf(7, 1)],               \* no such block
   [Whole EXCEPT !.blk[0] = RootOf(1, 3), !.blk[3] = FreeBlk(3)],
   Zeros(0, FALSE)}

Interchangeable == Permutations(Files)

=============================================================================
