------------------------------- MODULE TinyFS -------------------------------
(***************************************************************************)
(* TinyFS (tinyFS.c, libTinyFS_helpers.c) over one disk image, as the      *)
(* sequence of disk writes it is.  A call that writes more than one block  *)
(* leaves its remaining work in todo, the innermost C call first; every    *)
(* step then does the reads up to the next writeBlock and that write, so   *)
(* that the process can die between any two writes.                        *)
(*                                                                         *)
(* ReleaseAgain, CreateInRoot, NextFdInUse, RemoveInodeKept,               *)
(* PathCallUnchecked, PoppedInOrder, FreedAtEnd, NoSlot, ClosedOnce,       *)
(* BlockNumAfter, FilledFromStart, FilledOnList and ScanPast are mistakes  *)
(* the definition that follows each could have made; nothing uses them.    *)
(***************************************************************************)
EXTENDS TinyFSLayout

CONSTANTS
  FD_TABLESIZE,  \* entries of the table of open files
  Paths,         \* paths given to the calls, as sequences of names
  Unreadable,    \* names with a character _parse_path refuses
  Sizes,         \* sizes given to tfs_writeFile
  Offsets        \* offsets given to tfs_seek

(***************************************************************************)
(* Addresses are read back through a signed char, so only blocks 0..127    *)
(* can be used (Disks has the larger ones).  With at most 128 blocks the   *)
(* 210 pointers of a directory and the 252 of the superblock never run     *)
(* out, which is what Slots >= NumBlocks - 1 keeps on a small disk.        *)
(***************************************************************************)
ASSUME AddressAssumption ==
  NumBlocks <= ByteRange \div 2 /\ Slots >= NumBlocks - 1

ASSUME CallsAssumption ==
  /\ FD_TABLESIZE \in Nat /\ FD_TABLESIZE >= 1
  /\ Paths \subseteq Seq(Names) \ {<<>>}
  /\ Unreadable \subseteq Names
  /\ Offsets \subseteq Int
  /\ Sizes \subseteq Nat
  /\ \A s \in Sizes : \A o \in 0 .. s - 1 : o \div MAX_DATA_SPACE < Slots

VARIABLES
  disk,            \* the blocks of the image: outlives the process
  mounted,         \* whether the mounted pointer is set
  fd_table,        \* block of the inode open at each descriptor, or 0
  fd_table_index,  \* where the search for a descriptor starts
  todo,            \* what is left of the running call, <<>> between calls
  ret              \* what the last call returned

process == <<mounted, fd_table, fd_table_index>>
vars == <<disk, mounted, fd_table, fd_table_index, todo, ret>>

TFS_SUCCESS == 0
ERR_INVALID_INPUT == -1
ERR_BAD_DISK == -20
ERR_NO_DISK_MOUNTED == -21
ERR_DISK_OUT_OF_SPACE == -22
ERR_INVALID_FD == -30
ERR_OUT_OF_FDS == -31
ERR_FILE_PNTR_OUT_OF_BOUNDS == -32
ERR_DIR_NOT_FOUND == -40
ERR_NOT_A_DIR == -41
ERR_DIR_ALREADY_EXISTS == -42
ERR_DIR_NOT_EMPTY == -43
PENDING == -100  \* no value: the call is running, or died with the process

FDs == 0 .. FD_TABLESIZE - 1
NoFds == [fd \in FDs |-> 0]

(* The byte tfs_readByte hands out: which payload, and where in it. *)
Byte == [data : Payload, at : Nat]
NoByte == [data |-> NoData, at |-> 0]
Result == [code : Int, byte : Byte]

---------------------------------------------------------------------------
(* The work a call leaves for later steps. *)

Walk(call, path, at, dir) ==
  [op |-> "walk", call |-> call, path |-> path, at |-> at, dir |-> dir]
FormatAt(i) == [op |-> "format", at |-> i]
ReleaseAgain(ptr, i) == [op |-> "release", ptr |-> ptr, at |-> 1]
Release(ptr, i) == [op |-> "release", ptr |-> ptr, at |-> i]
FreeBody(b) == [op |-> "freeBody", blk |-> b]
FreeHead(b) == [op |-> "freeHead", blk |-> b]
Unlink(b, dir) == [op |-> "unlink", blk |-> b, dir |-> dir]
UnlinkDir(b, dir) == [op |-> "unlinkDir", blk |-> b, dir |-> dir]
CreateInRoot(kind, name, dir) ==
  [op |-> "create", kind |-> kind, name |-> name, dir |-> 0]
Create(kind, name, dir) ==
  [op |-> "create", kind |-> kind, name |-> name, dir |-> dir]
NewInode(kind, name, dir, b, code) ==
  [op |-> "newInode", kind |-> kind, name |-> name, dir |-> dir, blk |-> b,
   code |-> code]
Link(b, dir, code) == [op |-> "link", blk |-> b, dir |-> dir, code |-> code]
Grab(fd, tag, inode, i) ==
  [op |-> "grab", fd |-> fd, tag |-> tag, inode |-> inode, at |-> i]
Fill(fd, tag, inode, i, b) ==
  [op |-> "fill", fd |-> fd, tag |-> tag, inode |-> inode, at |-> i, blk |-> b]
Point(fd, tag, inode, i, b) ==
  [op |-> "point", fd |-> fd, tag |-> tag, inode |-> inode, at |-> i, blk |-> b]
ScanPast(path, dir, copy, i) ==
  [op |-> "scan", path |-> path, dir |-> dir, copy |-> copy, at |-> i + 1]
Scan(path, dir, copy, i) ==
  [op |-> "scan", path |-> path, dir |-> dir, copy |-> copy, at |-> i]
Rewrite(path, dir, copy, i) ==
  [op |-> "rewrite", path |-> path, dir |-> dir, copy |-> copy, at |-> i]

(* The blocks TinyFS writes: a file has no size but the ones it was given. *)
Sized == {blk \in Block : blk.size \in Sizes \cup {0}}

Lookups == {"openFile", "createDir", "removeDir", "removeAll"}
Ptrs == [1 .. Slots -> Addr]

AnyName == Names \cup {NoName}
AnyPath == Seq(AnyName)

WalkSteps ==
  {w \in [op : {"walk"}, call : Lookups, path : AnyPath, at : Nat, dir : Addr] :
     w.at \in 1 .. Len(w.path)}
ScanSteps ==
  {s \in [op : {"scan", "rewrite"}, path : AnyPath, dir : Addr, copy : Sized,
          at : Nat] :
     s.dir # SUPERBLOCK_DISKLOC => s.path # <<>>}
WriteSteps ==
  [op : {"grab"}, fd : FDs, tag : Tags, inode : Sized, at : Nat]
    \cup [op : {"fill", "point"}, fd : FDs, tag : Tags, inode : Sized,
          at : Nat, blk : Addr]
NewSteps ==
  [op : {"create"}, kind : {"file", "dir"}, name : AnyName, dir : Addr]
    \cup [op : {"newInode"}, kind : {"file", "dir"}, name : AnyName,
          dir : Addr, blk : Addr, code : Int]
    \cup [op : {"link"}, blk : Addr, dir : Addr, code : Int]
FreeSteps ==
  [op : {"release"}, ptr : Ptrs, at : Nat]
    \cup [op : {"freeBody", "freeHead"}, blk : Addr]
    \cup [op : {"unlink", "unlinkDir"}, blk : Addr, dir : Addr]
Steps ==
  [op : {"format"}, at : 1 .. NumBlocks]
    \cup WalkSteps \cup ScanSteps \cup WriteSteps \cup NewSteps \cup FreeSteps

Idle == todo = <<>>
Doing(op) == todo # <<>> /\ Head(todo).op = op

Returned(code) == [code |-> code, byte |-> NoByte]

(* A call starts, returns without a step of its own, or refuses.           *)
Begin(steps) == Idle /\ todo' = steps /\ ret' = Returned(PENDING)
Return(code) == Idle /\ ret' = Returned(code) /\ UNCHANGED todo
Refuse(code) == Return(code) /\ UNCHANGED <<disk, process>>

(* A step makes way for others, or for its caller; it ends the whole call. *)
Resume(steps) ==
  /\ todo' = steps \o Tail(todo)
  /\ ret' = IF todo' = <<>> THEN Returned(TFS_SUCCESS) ELSE ret
Finish(code) == todo' = <<>> /\ ret' = Returned(code)
Fail(code) == Finish(code) /\ UNCHANGED <<disk, process>>

(* The process dies; the next one starts with its globals zero.            *)
Die ==
  /\ mounted' = FALSE
  /\ fd_table' = NoFds
  /\ fd_table_index' = 0
  /\ todo' = <<>>
  /\ ret' = Returned(PENDING)
  /\ UNCHANGED disk

---------------------------------------------------------------------------
(* What the calls read. *)

First(S, i) == i \in S /\ \A j \in S : i <= j
Empty(ptr) == {i \in 1 .. Slots : ptr[i] = 0}
Matches(dir, name) ==
  LET ptr == disk[dir].ptr
  IN  {i \in 1 .. Slots : ptr[i] # 0 /\ disk[ptr[i]].name = name}

(* _update_fd_table_index: the first unused descriptor, the search         *)
(* starting at fd_table_index and wrapping around.                         *)
Turn(fd) == IF fd >= fd_table_index THEN fd - fd_table_index
            ELSE fd - fd_table_index + FD_TABLESIZE
NextFdInUse(fd) == \A g \in FDs : Turn(fd) <= Turn(g)
NextFd(fd) ==
  /\ fd_table[fd] = 0
  /\ \A g \in FDs : fd_table[g] = 0 => Turn(fd) <= Turn(g)
FdsFull == \A fd \in FDs : fd_table[fd] # 0

(* _fetch_parent: the first block of the disk with a pointer to n.         *)
Parents(n) ==
  {d \in Addr :
     /\ d # SUPERBLOCK_DISKLOC => disk[d].type = "INODE" /\ disk[d].kind = "dir"
     /\ \E i \in 1 .. Slots : disk[d].ptr[i] = n}

(* _remove_inode_and_blocks, which reads the pointers before it starts.    *)
RemoveInodeKept(n, parent) == <<Release(disk[n].ptr, 1), FreeBody(n)>>
RemoveInode(n, parent) ==
  <<Release(disk[n].ptr, 1), FreeBody(n), Unlink(n, parent)>>

---------------------------------------------------------------------------
(* The calls that handle the disk as a whole. *)

Init ==
  /\ disk = Formatted
  /\ mounted = FALSE
  /\ fd_table = NoFds
  /\ fd_table_index = 0
  /\ todo = <<>>
  /\ ret = Returned(PENDING)

(* tfs_mkfs does not look at whether the image it overwrites is mounted.   *)
Mkfs ==
  /\ Begin(<<FormatAt(1)>>)
  /\ disk' = [b \in Addr |-> Blank]
  /\ UNCHANGED process

Format ==
  /\ Doing("format")
  /\ LET i == Head(todo).at
     IN  \/ /\ i < NumBlocks
            /\ disk' = [disk EXCEPT ![i] = FormatBlk(i)]
            /\ Resume(<<FormatAt(i + 1)>>)
         \/ /\ i = NumBlocks
            /\ disk' = [disk EXCEPT ![SUPERBLOCK_DISKLOC] = FormatSuper]
            /\ Resume(<<>>)
  /\ UNCHANGED process

(* tfs_mount unmounts first, whatever the check of the image then says.    *)
Mount ==
  /\ Idle
  /\ MountCheck(disk) # "overflow"
  /\ LET ok == MountCheck(disk) = "ok"
     IN  /\ mounted' = ok
         /\ fd_table' = IF mounted \/ ok THEN NoFds ELSE fd_table
         /\ Return(IF ok THEN TFS_SUCCESS ELSE ERR_BAD_DISK)
  /\ UNCHANGED <<disk, fd_table_index>>

MountOverflows ==
  /\ Idle
  /\ MountCheck(disk) = "overflow"
  /\ Die

Unmount ==
  \/ ~ mounted /\ Refuse(ERR_NO_DISK_MOUNTED)
  \/ /\ mounted
     /\ mounted' = FALSE
     /\ fd_table' = NoFds
     /\ Return(TFS_SUCCESS)
     /\ UNCHANGED <<disk, fd_table_index>>

---------------------------------------------------------------------------
(* The calls that start from a path. *)

PathCallUnchecked(call, path) ==
  /\ Begin(<<Walk(call, path, 1, SUPERBLOCK_DISKLOC)>>)
  /\ UNCHANGED <<disk, process>>
PathCall(call, path) ==
  \/ ~ mounted /\ Refuse(ERR_NO_DISK_MOUNTED)
  \/ /\ mounted
     /\ Begin(<<Walk(call, path, 1, SUPERBLOCK_DISKLOC)>>)
     /\ UNCHANGED <<disk, process>>

OpenFile(path) == PathCall("openFile", path)
CreateDir(path) == PathCall("createDir", path)
RemoveDir(path) == PathCall("removeDir", path)
RemoveAll(path) == PathCall("removeAll", path)

(* tfs_removeAll("/") does not look the directory up.                      *)
RemoveAllOfRoot ==
  /\ mounted
  /\ Begin(<<Scan(<<>>, SUPERBLOCK_DISKLOC, disk[SUPERBLOCK_DISKLOC], 1)>>)
  /\ UNCHANGED <<disk, process>>

(* _navigate_to_dir takes the first slot of the directory whose inode has  *)
(* the name; only the last name of the path may be missing, and only       *)
(* tfs_openFile accepts that a file, or a directory, has the last name.    *)
Name(w) == w.path[w.at]
Last(w) == w.at = Len(w.path)
Readable(w) == Doing("walk") /\ Name(w) \notin Unreadable
Hit(w, child) ==
  \E i \in 1 .. Slots :
    First(Matches(w.dir, Name(w)), i) /\ child = disk[w.dir].ptr[i]
NoHit(w) == Matches(w.dir, Name(w)) = {}

WalkRefuses ==
  LET w == Head(todo)
  IN  \/ /\ Doing("walk")
         /\ Name(w) \in Unreadable
         /\ Fail(ERR_INVALID_INPUT)
      \/ /\ Readable(w)
         /\ NoHit(w)
         /\ ~ Last(w) \/ w.call \in {"removeDir", "removeAll"}
         /\ Fail(ERR_DIR_NOT_FOUND)
      \/ /\ Readable(w)
         /\ \E child \in Addr : Hit(w, child) /\ disk[child].kind = "file"
         /\ ~ Last(w) \/ w.call # "openFile"
         /\ Fail(ERR_NOT_A_DIR)

WalkOn ==
  LET w == Head(todo)
  IN  /\ Readable(w)
      /\ ~ Last(w)
      /\ \E child \in Addr :
           /\ Hit(w, child)
           /\ disk[child].kind # "file"
           /\ Resume(<<Walk(w.call, w.path, w.at + 1, child)>>)
      /\ UNCHANGED <<disk, process>>

(* The last name is there.  tfs_openFile does not look at the result of    *)
(* _update_fd_table_index: with no descriptor left it stores in front of   *)
(* fd_table and returns the error as the descriptor.  What lies there      *)
(* depends on the build: padding, or a pointer the process dies of.  It    *)
(* also writes the inode back, with a new access time.                     *)
OpenFound ==
  LET w == Head(todo)
  IN  /\ Readable(w)
      /\ Last(w)
      /\ w.call = "openFile"
      /\ \E child \in Addr :
           /\ Hit(w, child)
           /\ \/ \E fd \in FDs :
                   /\ NextFd(fd)
                   /\ fd_table_index' = fd
                   /\ fd_table' = [fd_table EXCEPT ![fd] = child]
                   /\ Finish(fd)
                   /\ UNCHANGED <<disk, mounted>>
              \/ FdsFull /\ Fail(ERR_OUT_OF_FDS)
              \/ FdsFull /\ Die

DirFound ==
  LET w == Head(todo)
  IN  /\ Readable(w)
      /\ Last(w)
      /\ \E child \in Addr :
           /\ Hit(w, child)
           /\ disk[child].kind # "file"
           /\ \/ /\ w.call = "createDir"
                 /\ Finish(ERR_DIR_ALREADY_EXISTS)
              \/ /\ w.call = "removeDir"
                 /\ Empty(disk[child].ptr) # 1 .. Slots
                 /\ Finish(ERR_DIR_NOT_EMPTY)
              \/ /\ w.call = "removeDir"
                 /\ Empty(disk[child].ptr) = 1 .. Slots
                 /\ Resume(<<FreeBody(child), UnlinkDir(child, w.dir)>>)
              \/ /\ w.call = "removeAll"
                 /\ Resume(<<Scan(w.path, child, disk[child], 1)>>)
      /\ UNCHANGED <<disk, process>>

NotFound ==
  LET w == Head(todo)
  IN  /\ Readable(w)
      /\ Last(w)
      /\ NoHit(w)
      /\ \/ w.call = "openFile" /\ Resume(<<Create("file", Name(w), w.dir)>>)
         \/ w.call = "createDir" /\ Resume(<<Create("dir", Name(w), w.dir)>>)
      /\ UNCHANGED <<disk, process>>

---------------------------------------------------------------------------
(* A new inode: _pop_free_block, a descriptor for a file, the inode, and   *)
(* the first empty slot of the directory.  Popping an empty list reads the *)
(* superblock as the next block and writes it back as it is.               *)
FreePtr == disk[SUPERBLOCK_DISKLOC].next
PoppedInOrder ==
  [disk EXCEPT ![SUPERBLOCK_DISKLOC].next = FreePtr + 1]
Popped == [disk EXCEPT ![SUPERBLOCK_DISKLOC].next = disk[FreePtr].next]

PopInode ==
  /\ Doing("create")
  /\ LET c == Head(todo)
         new(code) == <<NewInode(c.kind, c.name, c.dir, FreePtr, code)>>
     IN  \/ FreePtr = 0 /\ Fail(ERR_DISK_OUT_OF_SPACE)
         \/ /\ FreePtr # 0
            /\ disk' = Popped
            /\ \/ /\ c.kind = "dir"
                  /\ Resume(new(TFS_SUCCESS))
                  /\ UNCHANGED process
               \/ /\ c.kind = "file"
                  /\ FdsFull
                  /\ Finish(ERR_OUT_OF_FDS)
                  /\ UNCHANGED process
               \/ /\ c.kind = "file"
                  /\ \E fd \in FDs :
                       /\ NextFd(fd)
                       /\ fd_table_index' = fd
                       /\ fd_table' = [fd_table EXCEPT ![fd] = FreePtr]
                       /\ Resume(new(fd))
                  /\ UNCHANGED mounted

WriteInode ==
  /\ Doing("newInode")
  /\ LET c == Head(todo)
     IN  /\ disk' = [disk EXCEPT ![c.blk] = Inode(c.kind, c.name)]
         /\ Resume(<<Link(c.blk, c.dir, c.code)>>)
  /\ UNCHANGED process

LinkInode ==
  /\ Doing("link")
  /\ LET c == Head(todo)
     IN  /\ \/ \E i \in 1 .. Slots :
                 /\ First(Empty(disk[c.dir].ptr), i)
                 /\ disk' = [disk EXCEPT ![c.dir].ptr[i] = c.blk]
            \/ Empty(disk[c.dir].ptr) = {} /\ UNCHANGED disk
         /\ Finish(c.code)
  /\ UNCHANGED process

---------------------------------------------------------------------------
(* Freeing.  _free_block writes the block, then the superblock.            *)

FreedAtEnd(b) == [disk EXCEPT ![b] = FreeBlk(0)]
Freed(b) == [disk EXCEPT ![b] = FreeBlk(FreePtr)]

FreeBlockBody ==
  /\ Doing("freeBody")
  /\ LET b == Head(todo).blk
     IN  disk' = Freed(b) /\ Resume(<<FreeHead(b)>>)
  /\ UNCHANGED process

FreeBlockHead ==
  /\ Doing("freeHead")
  /\ disk' = [disk EXCEPT ![SUPERBLOCK_DISKLOC].next = Head(todo).blk]
  /\ Resume(<<>>)
  /\ UNCHANGED process

(* The loop over a file's pointers, up to the first zero.                  *)
NoSlot(ptr, i) == i \notin 1 .. Slots
NoBlock(ptr, i) == i \in 1 .. Slots => ptr[i] = 0

ReleaseBlocks ==
  /\ Doing("release")
  /\ LET ptr == Head(todo).ptr
         i   == Head(todo).at
     IN  \/ NoBlock(ptr, i) /\ Resume(<<>>) /\ UNCHANGED disk
         \/ /\ ~ NoBlock(ptr, i)
            /\ disk' = Freed(ptr[i])
            /\ Resume(<<FreeHead(ptr[i]), Release(ptr, i + 1)>>)
  /\ UNCHANGED process

(* The end of _remove_inode_and_blocks: every descriptor of the file is    *)
(* closed and the directory's pointer cleared.  The search for the pointer *)
(* has no bound: where there is none it runs over the caller's stack until *)
(* a byte happens to match, or a page is missing.                          *)
ClosedOnce(n) ==
  [fd \in FDs |-> IF fd_table[fd] = n /\ \A g \in FDs : g < fd => fd_table[g] # n
                  THEN 0 ELSE fd_table[fd]]
Closed(n) == [fd \in FDs |-> IF fd_table[fd] = n THEN 0 ELSE fd_table[fd]]

UnlinkFile ==
  /\ Doing("unlink")
  /\ LET n == Head(todo).blk
         dir == Head(todo).dir
         hits == {i \in 1 .. Slots : disk[dir].ptr[i] = n}
     IN  \/ /\ \/ \E i \in 1 .. Slots :
                    /\ First(hits, i)
                    /\ disk' = [disk EXCEPT ![dir].ptr[i] = 0]
               \/ hits = {} /\ UNCHANGED disk
            /\ fd_table' = Closed(n)
            /\ Resume(<<>>)
            /\ UNCHANGED <<mounted, fd_table_index>>
         \/ hits = {} /\ Die

(* The end of tfs_removeDir clears every pointer to the directory.         *)
UnlinkDirectory ==
  /\ Doing("unlinkDir")
  /\ LET n == Head(todo).blk
         dir == Head(todo).dir
     IN  disk' = [disk EXCEPT ![dir].ptr =
                    [i \in 1 .. Slots |-> IF @[i] = n THEN 0 ELSE @[i]]]
  /\ Resume(<<>>)
  /\ UNCHANGED process

---------------------------------------------------------------------------
(* The rest of tfs_removeAll: copy is its current_inode, read when it      *)
(* started and written back whole after each entry.  An entry of a         *)
(* directory is removed by its path, which is looked up from the root.     *)
Entries(s) == {i \in 1 .. Slots : i >= s.at /\ s.copy.ptr[i] # 0}

ScanNext ==
  /\ Doing("scan")
  /\ LET s == Head(todo)
         then(i) == <<Rewrite(s.path, s.dir, s.copy, i)>>
     IN  \/ /\ Entries(s) = {}
            /\ IF s.dir = SUPERBLOCK_DISKLOC THEN Resume(<<>>)
               ELSE Resume(<<Walk("removeDir", s.path, 1, SUPERBLOCK_DISKLOC)>>)
         \/ \E i \in 1 .. Slots :
              /\ First(Entries(s), i)
              /\ LET n == s.copy.ptr[i]
                     path == Append(s.path, disk[n].name)
                 IN  CASE disk[n].kind = "file" ->
                            Resume(RemoveInode(n, s.dir) \o then(i))
                       [] disk[n].kind = "dir" ->
                            /\ Len(path) <= NumBlocks
                            /\ Resume(<<Walk("removeAll", path, 1, SUPERBLOCK_DISKLOC)>>
                                        \o then(i))
                       [] OTHER -> Resume(then(i))
  /\ UNCHANGED <<disk, process>>

(* A path longer than the disk has blocks comes from a directory that is   *)
(* below itself: the recursion ends with the process.                      *)
RecursionOverflows ==
  /\ Doing("scan")
  /\ LET s == Head(todo)
     IN  \E i \in 1 .. Slots :
           /\ First(Entries(s), i)
           /\ disk[s.copy.ptr[i]].kind = "dir"
           /\ Len(s.path) >= NumBlocks
  /\ Die

RewriteDir ==
  /\ Doing("rewrite")
  /\ LET s == Head(todo)
         copy == [s.copy EXCEPT !.ptr[s.at] = 0]
     IN  /\ disk' = [disk EXCEPT ![s.dir] = copy]
         /\ Resume(<<Scan(s.path, s.dir, copy, s.at + 1)>>)
  /\ UNCHANGED process

---------------------------------------------------------------------------
(* The calls on an open file.  Its offset is in the inode, on the disk,    *)
(* shared by all its descriptors.                                          *)

Ready(fd) == mounted /\ fd_table[fd] # 0
NotReady(fd) ==
  \/ ~ mounted /\ Refuse(ERR_NO_DISK_MOUNTED)
  \/ mounted /\ fd_table[fd] = 0 /\ Refuse(ERR_INVALID_FD)

(* tfs_closeFile does not look at whether a disk is mounted.               *)
CloseFile(fd) ==
  \/ fd_table[fd] = 0 /\ Refuse(ERR_INVALID_FD)
  \/ /\ fd_table[fd] # 0
     /\ fd_table' = [fd_table EXCEPT ![fd] = 0]
     /\ Return(TFS_SUCCESS)
     /\ UNCHANGED <<disk, mounted, fd_table_index>>

Seek(fd, offset) ==
  \/ NotReady(fd)
  \/ Ready(fd) /\ offset < 0 /\ Refuse(ERR_INVALID_INPUT)
  \/ /\ Ready(fd)
     /\ offset > disk[fd_table[fd]].size
     /\ Refuse(ERR_FILE_PNTR_OUT_OF_BOUNDS)
  \/ /\ Ready(fd)
     /\ offset >= 0
     /\ offset <= disk[fd_table[fd]].size
     /\ disk' = [disk EXCEPT ![fd_table[fd]].off = offset]
     /\ Return(TFS_SUCCESS)
     /\ UNCHANGED process

(* The offset moves on before the byte is fetched.                         *)
BlockNumAfter(offset) == (offset + 1) \div MAX_DATA_SPACE + 1
BlockNum(offset) == offset \div MAX_DATA_SPACE + 1

ReadByte(fd) ==
  \/ NotReady(fd)
  \/ /\ Ready(fd)
     /\ disk[fd_table[fd]].off >= disk[fd_table[fd]].size
     /\ Refuse(ERR_FILE_PNTR_OUT_OF_BOUNDS)
  \/ /\ Ready(fd)
     /\ LET inode == disk[fd_table[fd]]
        IN  /\ inode.off < inode.size
            /\ disk' = [disk EXCEPT ![fd_table[fd]].off = inode.off + 1]
            /\ ret' = [code |-> TFS_SUCCESS,
                       byte |-> [data |-> disk'[inode.ptr[BlockNum(inode.off)]].data,
                                 at |-> inode.off % MAX_DATA_SPACE]]
     /\ Idle
     /\ UNCHANGED <<todo, process>>

Rename(fd, name) ==
  \/ NotReady(fd)
  \/ Ready(fd) /\ fd <= 0 /\ Refuse(ERR_INVALID_INPUT)
  \/ /\ Ready(fd)
     /\ fd > 0
     /\ disk' = [disk EXCEPT ![fd_table[fd]].name = name]
     /\ Return(TFS_SUCCESS)
     /\ UNCHANGED process

DeleteFile(fd) ==
  \/ NotReady(fd)
  \/ Ready(fd) /\ Parents(fd_table[fd]) = {} /\ Refuse(ERR_BAD_DISK)
  \/ /\ Ready(fd)
     /\ \E parent \in Addr :
          /\ First(Parents(fd_table[fd]), parent)
          /\ Begin(RemoveInode(fd_table[fd], parent))
     /\ UNCHANGED <<disk, process>>

(* tfs_writeFile gives the file's blocks back and takes new ones one by    *)
(* one, writing its copy of the inode after each.                          *)
WriteFile(fd, tag, size) ==
  \/ NotReady(fd)
  \/ /\ Ready(fd)
     /\ LET inode == [disk[fd_table[fd]] EXCEPT !.size = size]
        IN  Begin(<<Release(inode.ptr, 1), Grab(fd, tag, inode, 0)>>)
     /\ UNCHANGED <<disk, process>>

GrabBlock ==
  /\ Doing("grab")
  /\ LET g == Head(todo)
         more == g.at < BlocksFor(g.inode.size)
         n == fd_table[g.fd]
     IN  \/ /\ more
            /\ FreePtr # 0
            /\ disk' = Popped
            /\ Resume(<<Fill(g.fd, g.tag, g.inode, g.at, FreePtr)>>)
         \/ /\ more
            /\ FreePtr = 0
            /\ Finish(ERR_DISK_OUT_OF_SPACE)
            /\ UNCHANGED disk
         \/ /\ ~ more  \* tfs_seek(FD, 0)
            /\ disk' = [disk EXCEPT ![n].off = 0]
            /\ Resume(<<>>)
  /\ UNCHANGED process

FilledFromStart(blk, tag, i) ==
  [blk EXCEPT !.type = "FILEEX", !.next = 0, !.data = [tag |-> tag, idx |-> 0]]
FilledOnList(blk, tag, i) ==
  [blk EXCEPT !.type = "FILEEX", !.data = [tag |-> tag, idx |-> i]]
Filled(blk, tag, i) ==
  [blk EXCEPT !.type = "FILEEX", !.next = 0, !.data = [tag |-> tag, idx |-> i]]

FillBlock ==
  /\ Doing("fill")
  /\ LET g == Head(todo)
     IN  /\ disk' = [disk EXCEPT ![g.blk] = Filled(@, g.tag, g.at)]
         /\ Resume(<<Point(g.fd, g.tag, g.inode, g.at, g.blk)>>)
  /\ UNCHANGED process

PointToBlock ==
  /\ Doing("point")
  /\ LET g == Head(todo)
         inode == [g.inode EXCEPT !.ptr[g.at + 1] = g.blk]
     IN  /\ disk' = [disk EXCEPT ![fd_table[g.fd]] = inode]
         /\ Resume(<<Grab(g.fd, g.tag, inode, g.at + 1)>>)
  /\ UNCHANGED process

---------------------------------------------------------------------------

Crash == Die

(* The running call goes on.                                               *)
Step ==
  \/ Format
  \/ WalkRefuses \/ WalkOn \/ OpenFound \/ DirFound \/ NotFound
  \/ PopInode \/ WriteInode \/ LinkInode
  \/ FreeBlockBody \/ FreeBlockHead \/ ReleaseBlocks
  \/ UnlinkFile \/ UnlinkDirectory
  \/ ScanNext \/ RecursionOverflows \/ RewriteDir
  \/ GrabBlock \/ FillBlock \/ PointToBlock

Call ==
  \/ Mkfs \/ Mount \/ MountOverflows \/ Unmount
  \/ \E path \in Paths :
       OpenFile(path) \/ CreateDir(path) \/ RemoveDir(path) \/ RemoveAll(path)
  \/ RemoveAllOfRoot
  \/ \E fd \in FDs :
       \/ CloseFile(fd) \/ DeleteFile(fd) \/ ReadByte(fd)
       \/ \E tag \in Tags, size \in Sizes : WriteFile(fd, tag, size)
       \/ \E offset \in Offsets : Seek(fd, offset)
       \/ \E name \in Names : Rename(fd, name)

Next == Call \/ Step \/ Crash

Spec == Init /\ [][Next]_vars

(* A program that called TinyFS is in the call until it returns: its       *)
(* thread goes on unless the process dies.                                 *)
FairSpec == Spec /\ WF_vars(Step)

---------------------------------------------------------------------------
(* Whatever the program calls, in whatever order. *)

(* Blocks stay blocks, addresses stay on the disk, and the work a call has *)
(* left is work some handler knows.                                        *)
TypeOK ==
  /\ disk \in [Addr -> Sized]
  /\ mounted \in BOOLEAN
  /\ fd_table \in [FDs -> Addr]
  /\ fd_table_index \in FDs
  /\ todo \in Seq(Steps)
  /\ ret \in Result

Formatting == todo # <<>> /\ Head(todo).op = "format"

(* Block 0 is the superblock, or the zeros tfs_mkfs starts from: no inode, *)
(* data or free block is ever written over it, whatever the pointers,      *)
(* descriptors and stale copies the writes take their address from.        *)
SuperblockIntact ==
  /\ disk[SUPERBLOCK_DISKLOC].type \in {"SUPERBLOCK", "ZERO"}
  /\ disk[SUPERBLOCK_DISKLOC].kind = "none"

(* Without a mounted disk no handler but tfs_mkfs's is at work, which      *)
(* would go through a null pointer, and no descriptor is open: closeFile,  *)
(* which does not ask whether a disk is mounted, finds nothing to close.   *)
UnmountedIsQuiet == ~ mounted => fd_table = NoFds /\ (Idle \/ Formatting)

(* A call returns, or the process dies under it, on any disk.              *)
CallsReturn == todo # <<>> ~> Idle

=============================================================================
