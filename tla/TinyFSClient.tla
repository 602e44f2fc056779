--------------------------- MODULE TinyFSClient ---------------------------
(***************************************************************************)
(* A program that calls TinyFS and keeps some promises about its calls,    *)
(* and what TinyFS then does for it.  Calls are the calls the program      *)
(* makes; a promise left out of Promises is one it does not keep.          *)
(***************************************************************************)
EXTENDS TinyFS

CONSTANTS Calls, Promises

VARIABLES
  settled,  \* the tree, descriptors and result when no call was running
  asked     \* the call that is running

cvars == <<vars, settled, asked>>

(* The machine, seen between calls, is the file system it promises to be.  *)
Promised ==
  INSTANCE FileSystem WITH
    Ids <- Addr \ {SUPERBLOCK_DISKLOC}, Root <- SUPERBLOCK_DISKLOC,
    tree <- settled.tree, handles <- settled.fds, code <- settled.code,
    online <- mounted

---------------------------------------------------------------------------
(* What the disk says, read as a tree. *)

DirOf(d, n) ==
  {b \in Addr :
     /\ d[b].type = "SUPERBLOCK" \/ (d[b].type = "INODE" /\ d[b].kind = "dir")
     /\ \E i \in 1 .. Slots : d[b].ptr[i] = n}
Inodes(d) == {n \in Addr : d[n].type = "INODE" /\ DirOf(d, n) # {}}
ByteAt(d, inode, o) ==
  LET data == d[inode.ptr[o \div MAX_DATA_SPACE + 1]].data
  IN  <<data.tag, data.idx * MAX_DATA_SPACE + (o % MAX_DATA_SPACE)>>
Node(d, n) ==
  [kind |-> d[n].kind, name |-> d[n].name, dir |-> MinOf(DirOf(d, n)),
   off |-> d[n].off,
   bytes |-> [o \in 1 .. d[n].size |-> ByteAt(d, d[n], o - 1)]]
Tree(d) == [n \in Inodes(d) |-> Node(d, n)]

---------------------------------------------------------------------------
(* The promises. *)

Child(dir, name) ==
  LET hits == Matches(dir, name)
  IN  IF hits = {} THEN 0 ELSE disk[dir].ptr[MinOf(hits)]
Resolve(path) ==
  LET to[i \in 0 .. Len(path)] ==
        IF i = 0 THEN 0
        ELSE IF i > 1 /\ to[i - 1] = 0 THEN 0 ELSE Child(to[i - 1], path[i])
  IN  to[Len(path)]
NamesADir(path) == Resolve(path) # 0 /\ disk[Resolve(path)].kind = "dir"

(* What the free list still has, which may be less than what is free.      *)
Listed ==
  LET upTo[k \in 0 .. NumBlocks] ==
        IF k = 0 THEN {SUPERBLOCK_DISKLOC}
        ELSE upTo[k - 1] \cup {disk[b].next : b \in upTo[k - 1]}
  IN  upTo[NumBlocks]

Keeps(promise, holds) == promise \in Promises => holds

(* Opens files only, and only with a descriptor left.                      *)
OpensWell(path) ==
  /\ Keeps("fdsRoom", ~ FdsFull)
  /\ Keeps("filesOnly", ~ NamesADir(path))

(* Writes no fewer blocks than the file has, no more than there is room    *)
(* for, a size that _check_block_con decodes, and over one block at most.  *)
WritesWell(fd, size) ==
  fd_table[fd] # 0 =>
    LET held == UsedCount(disk[fd_table[fd]].ptr)
        free == Cardinality(Listed \ {SUPERBLOCK_DISKLOC})
    IN  /\ Keeps("noShrink", BlocksFor(size) >= held)
        /\ Keeps("fits", BlocksFor(size) <= held + free)
        /\ Keeps("goodSizes", CheckedSize(size) = size)
        /\ Keeps("smallRewrites", held <= 1)

(* Formats no mounted disk; removes all of the root only if it is empty.   *)
FormatsWell == Keeps("unmountFirst", ~ mounted)
RootStays == Keeps("rootStays", Empty(disk[SUPERBLOCK_DISKLOC].ptr) = 1 .. Slots)

---------------------------------------------------------------------------
Settle(call) ==
  /\ asked' = IF todo' = <<>> THEN Promised!NoCall ELSE call
  /\ settled' = IF todo' = <<>>
                THEN [tree |-> Tree(disk'), fds |-> fd_table', code |-> ret'.code]
                ELSE settled
AtOnce == Settle(Promised!NoCall)
ByPath(call, path) == Settle(Promised!PathRequest(call, path))

May(call) == call \in Calls

Formats == May("mkfs") /\ FormatsWell /\ Mkfs /\ Settle(Promised!FormatRequest)
Mounts == (Mount \/ MountOverflows) /\ AtOnce
Unmounts == May("unmount") /\ Unmount /\ AtOnce
Opens(path) == OpensWell(path) /\ OpenFile(path) /\ ByPath("openFile", path)
CreatesDir(path) ==
  May("createDir") /\ CreateDir(path) /\ ByPath("createDir", path)
RemovesDir(path) ==
  May("removeDir") /\ RemoveDir(path) /\ ByPath("removeDir", path)
RemovesAll(path) ==
  May("removeAll") /\ RemoveAll(path) /\ ByPath("removeAll", path)
RemovesRoot ==
  May("removeAll") /\ RootStays /\ RemoveAllOfRoot /\ ByPath("removeAll", <<>>)
Closes(fd) == May("closeFile") /\ CloseFile(fd) /\ AtOnce
Deletes(fd) ==
  May("deleteFile") /\ DeleteFile(fd) /\ Settle(Promised!DeleteRequest(fd))
Reads(fd) == May("readByte") /\ ReadByte(fd) /\ AtOnce
Seeks(fd, offset) == May("seek") /\ Seek(fd, offset) /\ AtOnce
Renames(fd, name) == May("rename") /\ Rename(fd, name) /\ AtOnce
Writes(fd, tag, size) ==
  /\ May("writeFile")
  /\ WritesWell(fd, size)
  /\ WriteFile(fd, tag, size)
  /\ Settle(Promised!WriteRequest(fd, tag, size))
Continues == Step /\ Settle(asked)
Dies == May("crash") /\ Crash /\ AtOnce

ClientInit ==
  /\ Init
  /\ settled = [tree |-> Tree(disk), fds |-> fd_table, code |-> ret.code]
  /\ asked = Promised!NoCall

ClientNext ==
  \/ Formats \/ Mounts \/ Unmounts \/ RemovesRoot \/ Continues \/ Dies
  \/ \E path \in Paths :
       Opens(path) \/ CreatesDir(path) \/ RemovesDir(path) \/ RemovesAll(path)
  \/ \E fd \in FDs :
       \/ Closes(fd) \/ Deletes(fd) \/ Reads(fd)
       \/ \E offset \in Offsets : Seeks(fd, offset)
       \/ \E name \in Names : Renames(fd, name)
       \/ \E tag \in Tags, size \in Sizes : Writes(fd, tag, size)

ClientSpec == ClientInit /\ [][ClientNext]_cvars

---------------------------------------------------------------------------
(* Every call, seen between its start and its return, does all of the work *)
(* it promises or nothing: a file reads as it was last written, and no     *)
(* call disturbs a file it was not given.                                  *)
ImplementsFileSystem == Promised!FSSpec

(* The byte tfs_readByte returns is the one at the file's offset.          *)
ReadsReturnTheFile ==
  [][ ret' # ret /\ ret'.byte # NoByte =>
        \E fd \in FDs :
          LET n == fd_table[fd]
              got == ret'.byte
          IN  /\ n # 0
              /\ disk'[n].off = disk[n].off + 1
              /\ Tree(disk)[n].bytes[disk[n].off + 1] =
                   <<got.data.tag, got.data.idx * MAX_DATA_SPACE + got.at>>
    ]_cvars

---------------------------------------------------------------------------
(* What keeps the disk sound. *)

Refs(b, as) ==
  CASE as = "FREE" ->
         {x \in Addr : disk[x].type \in {"SUPERBLOCK", "FREE"} /\ disk[x].next = b}
    [] as = "INODE" ->
         {s \in Addr \X (1 .. Slots) :
            /\ disk[s[1]].type = "SUPERBLOCK" \/ disk[s[1]].kind = "dir"
            /\ disk[s[1]].ptr[s[2]] = b}
    [] as = "FILEEX" ->
         {s \in Addr \X (1 .. Slots) :
            disk[s[1]].kind = "file" /\ disk[s[1]].ptr[s[2]] = b}

Owned(b) ==
  \E type \in {"FREE", "INODE", "FILEEX"} :
    /\ disk[b].type = type
    /\ \A as \in {"FREE", "INODE", "FILEEX"} :
         Cardinality(Refs(b, as)) = IF as = type THEN 1 ELSE 0

(* Between calls every block has one owner, of its own kind: it is once on *)
(* the free list, or in one directory, or in one file.                     *)
OneOwner == Idle => \A b \in Addr \ {SUPERBLOCK_DISKLOC} : Owned(b)

(* Between calls no block has two owners, or one of another kind, also for *)
(* a program that asks for a descriptor when there is none, or has all of  *)
(* the root removed.  A block such a call lost has no owner and comes back *)
(* to nobody.                                                              *)
NoTwoOwners ==
  Idle => \A b \in Addr \ {SUPERBLOCK_DISKLOC} :
    LET owners == [FREE   |-> Refs(b, "FREE") \cap Listed,
                   INODE  |-> Refs(b, "INODE"),
                   FILEEX |-> Refs(b, "FILEEX")]
        kinds  == {as \in DOMAIN owners : owners[as] # {}}
    IN  /\ kinds \subseteq {disk[b].type}
        /\ \A as \in kinds : Cardinality(owners[as]) = 1

(* Between calls the disk is one that tfs_mount would accept.              *)
Mountable == Idle => MountCheck(disk) = "ok"

(* A disk that tfs_mount accepted is sound, whatever happened before.      *)
MountedIsSound == mounted => OneOwner

(* A descriptor is closed or leads to a file that is in a directory.       *)
DescriptorsLive ==
  Idle => \A fd \in FDs :
    fd_table[fd] # 0 =>
      /\ disk[fd_table[fd]].type = "INODE"
      /\ disk[fd_table[fd]].kind = "file"
      /\ Parents(fd_table[fd]) # {}

=============================================================================
