---------------------------- MODULE TinyFSOwners ----------------------------
(***************************************************************************)
(* Who owns which block while a call is running: the invariant that the    *)
(* proofs about TinyFSClient rest on.  It says for each point a call can   *)
(* be at which pointers on the disk have been given up already, which      *)
(* block the call has in hand, and what the calls that wait for it, those  *)
(* of tfs_removeAll, will write back when they go on.                      *)
(***************************************************************************)
EXTENDS TinyFSClient

(* A program that opens no file without a descriptor left and empties the  *)
(* root itself loses no block.                                             *)
LosesNone == {"fdsRoom", "rootStays"} \subseteq Promises

---------------------------------------------------------------------------
(* A disk d at rest or in the middle of a call.  given are the pointers    *)
(* that do not count any more, hand the block that is on its way from one  *)
(* owner to another, list the free list in its order.                      *)

Gapless(ptr) == \A i, j \in 1 .. Slots : i <= j /\ ptr[i] = 0 => ptr[j] = 0

Shaped(d) ==
  /\ d[SUPERBLOCK_DISKLOC].type = "SUPERBLOCK"
  /\ d[SUPERBLOCK_DISKLOC].kind = "none"
  /\ \A b \in Addr \ {SUPERBLOCK_DISKLOC} :
       /\ d[b].type \in {"FREE", "INODE", "FILEEX"}
       /\ d[b].kind # "none" <=> d[b].type = "INODE"
       /\ d[b].kind = "none" => \A i \in 1 .. Slots : d[b].ptr[i] = 0
       /\ d[b].kind = "file" => Gapless(d[b].ptr)

Lists == Seq(Addr \ {SUPERBLOCK_DISKLOC})

Chain(d, list) ==
  /\ \A i, j \in 1 .. Len(list) : list[i] = list[j] => i = j
  /\ d[SUPERBLOCK_DISKLOC].next = IF list = <<>> THEN 0 ELSE list[1]
  /\ \A i \in 1 .. Len(list) :
       /\ d[list[i]].type = "FREE"
       /\ d[list[i]].next = IF i < Len(list) THEN list[i + 1] ELSE 0

Counts(d, given, x, i) == d[x].ptr[i] # 0 /\ <<x, i>> \notin given

(* A pointer that counts leads to a block of the kind it is for, and no    *)
(* other pointer that counts leads there.                                  *)
Apart(d, given, hand) ==
  \A x \in Addr, i \in 1 .. Slots :
    Counts(d, given, x, i) =>
      /\ d[x].ptr[i] \notin hand
      /\ d[d[x].ptr[i]].type = IF d[x].kind = "file" THEN "FILEEX" ELSE "INODE"
      /\ \A y \in Addr, j \in 1 .. Slots :
           Counts(d, given, y, j) /\ d[y].ptr[j] = d[x].ptr[i] => y = x /\ j = i

(* A block in use has an owner.                                            *)
Held(d, given, hand) ==
  \A b \in Addr \ {SUPERBLOCK_DISKLOC} :
    d[b].type \in {"INODE", "FILEEX"} /\ b \notin hand =>
      \E x \in Addr, i \in 1 .. Slots :
        Counts(d, given, x, i) /\ d[x].ptr[i] = b

(* A free block is on the list.                                            *)
AllListed(d, hand, list) ==
  \A b \in Addr \ {SUPERBLOCK_DISKLOC} :
    d[b].type = "FREE" /\ b \notin hand => \E i \in 1 .. Len(list) : list[i] = b

Owns(d, given, hand, list) ==
  /\ Shaped(d)
  /\ Chain(d, list)
  /\ \A i \in 1 .. Len(list) : list[i] \notin hand
  /\ Apart(d, given, hand)
  /\ Held(d, given, hand)
  /\ LosesNone => AllListed(d, hand, list)

IsDirOn(d, x) == x = SUPERBLOCK_DISKLOC \/ d[x].kind = "dir"

(* No directory has two directories of the same name.                      *)
DirNames(d) ==
  \A x \in Addr, i, j \in 1 .. Slots :
    /\ IsDirOn(d, x)
    /\ d[x].ptr[i] # 0 /\ d[d[x].ptr[i]].kind = "dir"
    /\ d[x].ptr[j] # 0 /\ d[d[x].ptr[j]].kind = "dir"
    /\ d[d[x].ptr[i]].name = d[d[x].ptr[j]].name
    => i = j

(* Descriptors are of files, but for those of a file that is on its way.   *)
OnFiles(d, fds, coming) ==
  \A fd \in FDs : fds[fd] \in {0} \cup coming \/ d[fds[fd]].kind = "file"

Sound(given, hand, coming, list) ==
  /\ Owns(disk, given, hand, list)
  /\ DirNames(disk)
  /\ OnFiles(disk, fd_table, coming)

AtRest(list) == Sound({}, {}, {}, list)

---------------------------------------------------------------------------
(* Where a path leads, through directories only, by its first k names.     *)

Named(d, dir, name) ==
  {i \in 1 .. Slots : d[dir].ptr[i] # 0 /\ d[d[dir].ptr[i]].name = name}

Hop(d, dir, name, n) ==
  /\ \E i \in 1 .. Slots : First(Named(d, dir, name), i) /\ n = d[dir].ptr[i]
  /\ d[n].kind = "dir"

Trail(d, path, k, t) ==
  /\ t \in [0 .. k -> Addr]
  /\ t[0] = SUPERBLOCK_DISKLOC
  /\ \A i \in 1 .. k : Hop(d, t[i - 1], path[i], t[i])

Leads(d, path, k, n) == \E t \in [0 .. k -> Addr] : Trail(d, path, k, t) /\ t[k] = n

---------------------------------------------------------------------------
(* The calls of tfs_removeAll that wait, innermost first.  Each has a copy *)
(* of its directory that differs from the disk in the entry at work only,  *)
(* the root's also in where the free list started.                         *)

Stacks == Seq({s \in ScanSteps : s.op = "rewrite"})

(* The entry n of the directory of r is a directory, at path.              *)
Pending(d, r, n, path) ==
  /\ n # 0
  /\ r.copy.ptr[r.at] = n
  /\ d[r.dir].ptr[r.at] = n
  /\ d[n].kind = "dir"
  /\ path = Append(r.path, d[n].name)

Alike(copy, blk) ==
  /\ copy.type = blk.type /\ copy.kind = blk.kind /\ copy.name = blk.name
  /\ copy.size = blk.size /\ copy.off = blk.off /\ copy.data = blk.data

WaitsFor(d, r, list) ==
  /\ r.at \in 1 .. Slots
  /\ Leads(d, r.path, Len(r.path), r.dir)
  /\ Alike(r.copy, d[r.dir])
  /\ \A i \in 1 .. Slots : i # r.at => r.copy.ptr[i] = d[r.dir].ptr[i]
  /\ r.dir # SUPERBLOCK_DISKLOC => r.copy.next = d[r.dir].next
  /\ r.dir = SUPERBLOCK_DISKLOC =>
       /\ "rootStays" \notin Promises
       /\ r.copy.next = 0 \/ \E i \in 1 .. Len(list) : list[i] = r.copy.next

Waiting(d, stack, list) ==
  \A j \in 1 .. Len(stack) :
    /\ WaitsFor(d, stack[j], list)
    /\ \A l \in 1 .. Len(stack) : Len(stack[l].path) + l = Len(stack[j].path) + j
    /\ j < Len(stack) => Pending(d, stack[j + 1], stack[j].dir, stack[j].path)

---------------------------------------------------------------------------
(* The points a call can be at. *)

AtFormat ==
  \E i \in 1 .. NumBlocks :
    /\ todo = <<FormatAt(i)>>
    /\ ~ mounted
    /\ fd_table = NoFds
    /\ \A b \in Addr : disk[b] = IF b \in 1 .. i - 1 THEN FormatBlk(b) ELSE Blank

LooksUp(w, list, stack) ==
  /\ todo = <<w>> \o stack
  /\ AtRest(list)
  /\ Leads(disk, w.path, w.at - 1, w.dir)
  /\ w.call = "openFile" =>
       /\ Keeps("fdsRoom", ~ FdsFull)
       /\ Keeps("filesOnly", ~ NamesADir(w.path))
  /\ stack # <<>> =>
       /\ w.call \in {"removeDir", "removeAll"}
       /\ \E n \in Addr : Pending(disk, stack[1], n, w.path)

AtWalk(list, stack) == \E w \in WalkSteps : LooksUp(w, list, stack)

Scans(s, list, stack) ==
  /\ s.op = "scan"
  /\ todo = <<s>> \o stack
  /\ AtRest(list)
  /\ s.copy = disk[s.dir]
  /\ Leads(disk, s.path, Len(s.path), s.dir)
  /\ s.dir = SUPERBLOCK_DISKLOC =>
       Keeps("rootStays", \A i \in 1 .. Slots : s.copy.ptr[i] = 0)
  /\ stack # <<>> => Pending(disk, stack[1], s.dir, s.path)

AtScan(list, stack) == \E s \in ScanSteps : Scans(s, list, stack)

AtRewrite(list, stack) ==
  /\ stack # <<>>
  /\ todo = stack
  /\ AtRest(list)
  /\ disk[stack[1].dir].ptr[stack[1].at] = 0

InDir(x) == x \in Addr /\ IsDirOn(disk, x)

Creates(c, list) ==
  /\ c.op = "create"
  /\ AtRest(list)
  /\ Named(disk, c.dir, c.name) = {}
  /\ c.kind = "file" => Keeps("fdsRoom", ~ FdsFull)

(* The block is in hand; a file's descriptor leads to it already.          *)
WritesInode(c, list) ==
  /\ c.op = "newInode"
  /\ c.blk \notin {SUPERBLOCK_DISKLOC, c.dir}
  /\ Sound({}, {c.blk}, IF c.kind = "file" THEN {c.blk} ELSE {}, list)
  /\ disk[c.blk].type = "FREE"
  /\ Named(disk, c.dir, c.name) = {}

Links(c, list) ==
  /\ c.op = "link"
  /\ c.blk \notin {SUPERBLOCK_DISKLOC, c.dir}
  /\ Sound({}, {c.blk}, {}, list)
  /\ disk[c.blk].type = "INODE"
  /\ \A i \in 1 .. Slots : disk[c.blk].ptr[i] = 0
  /\ Named(disk, c.dir, disk[c.blk].name) = {}

AtCreate(list) ==
  \E c \in NewSteps :
    /\ todo = <<c>>
    /\ InDir(c.dir)
    /\ Creates(c, list) \/ WritesInode(c, list) \/ Links(c, list)

(* A block that was freed, and a pointer that is left to it.               *)
Freeing(b) == b # 0 /\ disk[b].type = "FREE" /\ disk[b].next = FreePtr

(* The entry k of directory p is removed, for the call that waits.         *)
Removes(n, p, k, stack) ==
  /\ n # 0
  /\ InDir(p)
  /\ disk[p].ptr[k] = n
  /\ stack # <<>> => p = stack[1].dir /\ k = stack[1].at

(* The empty directory n is freed, then its pointer cleared.               *)
DirBody(n, p, list, stack) ==
  /\ todo = <<FreeBody(n), UnlinkDir(n, p)>> \o stack
  /\ AtRest(list)
  /\ disk[n].kind = "dir"
  /\ \A i \in 1 .. Slots : disk[n].ptr[i] = 0

DirHead(n, p, k, list, stack) ==
  /\ todo = <<FreeHead(n), UnlinkDir(n, p)>> \o stack
  /\ Sound({<<p, k>>}, {n}, {}, list)
  /\ Freeing(n)

DirGone(n, p, k, list, stack) ==
  /\ todo = <<UnlinkDir(n, p)>> \o stack
  /\ Sound({<<p, k>>}, {}, {}, list)
  /\ disk[n].type = "FREE"

AtRemoveDir(list, stack) ==
  \E n, p \in Addr, k \in 1 .. Slots :
    /\ Removes(n, p, k, stack)
    /\ DirBody(n, p, list, stack) \/ DirHead(n, p, k, list, stack)
         \/ DirGone(n, p, k, list, stack)

(* The file n gives up its blocks, the first i - 1 are freed; then it is   *)
(* freed itself, its pointer cleared and its descriptors closed.           *)
FileBlocks(n, p, i, list, stack) ==
  /\ todo = <<Release(disk[n].ptr, i), FreeBody(n), Unlink(n, p)>> \o stack
  /\ Sound({n} \X (1 .. i - 1), {}, {}, list)
  /\ disk[n].kind = "file"

FileBlockHead(n, p, i, b, list, stack) ==
  /\ todo = <<FreeHead(b), Release(disk[n].ptr, i), FreeBody(n), Unlink(n, p)>> \o stack
  /\ Sound({n} \X (1 .. i - 1), {b}, {}, list)
  /\ Freeing(b)
  /\ disk[n].kind = "file"

FileBody(n, p, list, stack) ==
  /\ todo = <<FreeBody(n), Unlink(n, p)>> \o stack
  /\ Sound({n} \X (1 .. Slots), {}, {}, list)
  /\ disk[n].kind = "file"

FileHead(n, p, k, list, stack) ==
  /\ todo = <<FreeHead(n), Unlink(n, p)>> \o stack
  /\ Sound({<<p, k>>}, {n}, {n}, list)
  /\ Freeing(n)

FileGone(n, p, k, list, stack) ==
  /\ todo = <<Unlink(n, p)>> \o stack
  /\ Sound({<<p, k>>}, {}, {n}, list)
  /\ disk[n].type = "FREE"

AtRemoveFile(list, stack) ==
  \E n, p \in Addr, k \in 1 .. Slots :
    /\ Removes(n, p, k, stack)
    /\ \/ \E i \in 1 .. Slots + 1 :
            \/ FileBlocks(n, p, i, list, stack)
            \/ \E b \in Addr : FileBlockHead(n, p, i, b, list, stack)
       \/ FileBody(n, p, list, stack)
       \/ FileHead(n, p, k, list, stack)
       \/ FileGone(n, p, k, list, stack)

(* tfs_writeFile gives the blocks held by the inode n back, then takes as  *)
(* many or more.  Its copy g.inode of n is the one on the disk once it was *)
(* written.                                                                *)
WritesTo(g, n) ==
  /\ n # 0
  /\ fd_table[g.fd] = n
  /\ disk[n].kind = "file"
  /\ g.inode.type = "INODE" /\ g.inode.kind = "file"
  /\ g.inode.ptr = disk[n].ptr

(* Of the held blocks of n the first i - 1 are freed. *)
GaveBack(g, n, i, held) ==
  /\ g.op = "grab" /\ g.at = 0
  /\ \A j \in 1 .. Slots : disk[n].ptr[j] # 0 <=> j <= held
  /\ i <= held + 1
  /\ held <= BlocksFor(g.inode.size)

GivesBlock(g, n, i, held, list) ==
  /\ todo = <<Release(disk[n].ptr, i), g>>
  /\ Sound({n} \X (1 .. i - 1), {}, {}, list)
  /\ BlocksFor(g.inode.size) <= Len(list) + held - (i - 1)

GivesHead(g, n, i, held, b, list) ==
  /\ todo = <<FreeHead(b), Release(disk[n].ptr, i), g>>
  /\ Sound({n} \X (1 .. i - 1), {b}, {}, list)
  /\ Freeing(b)
  /\ BlocksFor(g.inode.size) <= Len(list) + 1 + held - (i - 1)

GivesBack(g, n, list) ==
  \E i \in 1 .. Slots + 1, held \in 0 .. Slots :
    /\ GaveBack(g, n, i, held)
    /\ \/ GivesBlock(g, n, i, held, list)
       \/ \E b \in Addr : GivesHead(g, n, i, held, b, list)

(* The first g.at pointers lead to new blocks, the others to freed ones.   *)
Took(g, n) ==
  /\ g.at <= BlocksFor(g.inode.size)
  /\ \A j \in 1 .. Slots : disk[n].ptr[j] # 0 => j <= BlocksFor(g.inode.size)
  /\ \A j \in 1 .. g.at : j <= Slots /\ disk[n].ptr[j] # 0

Grabs(g, n, list) ==
  /\ g.op = "grab"
  /\ Sound({n} \X (g.at + 1 .. Slots), {}, {}, list)
  /\ BlocksFor(g.inode.size) <= Len(list) + g.at

Places(g, n, list) ==
  /\ g.op \in {"fill", "point"}
  /\ g.at < BlocksFor(g.inode.size)
  /\ g.blk # 0
  /\ Sound({n} \X (g.at + 1 .. Slots), {g.blk}, {}, list)
  /\ BlocksFor(g.inode.size) <= Len(list) + g.at + 1
  /\ disk[g.blk].type = IF g.op = "fill" THEN "FREE" ELSE "FILEEX"

Takes(g, n, list) ==
  /\ todo = <<g>>
  /\ Took(g, n)
  /\ Grabs(g, n, list) \/ Places(g, n, list)

AtWrite(list) ==
  \E g \in WriteSteps, n \in Addr :
    /\ WritesTo(g, n)
    /\ GivesBack(g, n, list) \/ Takes(g, n, list)

At(list, stack) ==
  /\ Waiting(disk, stack, list)
  /\ \/ AtWalk(list, stack) \/ AtScan(list, stack) \/ AtRewrite(list, stack)
     \/ AtRemoveDir(list, stack) \/ AtRemoveFile(list, stack)
     \/ stack = <<>> /\ (AtCreate(list) \/ AtWrite(list))
     \/ stack = <<>> /\ Idle /\ AtRest(list)

Ownership == AtFormat \/ \E list \in Lists, stack \in Stacks : At(list, stack)

---------------------------------------------------------------------------
(* What the process leaves when it dies in a call, of a program that       *)
(* rewrites files of one block at most.  The first pointer of a file is    *)
(* the first that leads to a freed block, and the last to be replaced.     *)

FreedFirst(ptr) ==
  \A j \in 1 .. Slots : j = 1 /\ ptr[j] # 0 => disk[ptr[j]].type = "FREE"
OnlyFirst(ptr) == \A j \in 1 .. Slots : ptr[j] # 0 => j = 1

(* The blocks before r.at are freed; when the file is to take others, its  *)
(* only one is the first it will get.                                      *)
GaveUp(r, next, free) ==
  /\ r.at > 1 => FreedFirst(r.ptr)
  /\ next.op = "grab" =>
       /\ OnlyFirst(r.ptr)
       /\ r.at > 1 => \A j \in 1 .. Slots : r.ptr[j] \in {0, free}

Second == Head(Tail(todo))
Third == Head(Tail(Tail(todo)))

LeftRelease == Doing("release") => GaveUp(Head(todo), Second, FreePtr)
LeftHead ==
  Doing("freeHead") /\ Second.op = "release" =>
    Second.at > 1 /\ GaveUp(Second, Third, Head(todo).blk)
LeftBody ==
  Doing("freeBody") /\ disk[Head(todo).blk].kind = "file" =>
    FreedFirst(disk[Head(todo).blk].ptr)

(* A pointer behind the new blocks is the first, to the next new block.    *)
LeftWrite ==
  \A op \in {"grab", "fill", "point"} : Doing(op) =>
    LET g   == Head(todo)
        ptr == disk[fd_table[g.fd]].ptr
    IN  \A j \in 1 .. Slots : j > g.at /\ ptr[j] # 0 =>
          j = 1 /\ ptr[j] = IF op = "grab" THEN FreePtr ELSE g.blk

Leftovers == LeftRelease /\ LeftHead /\ LeftBody /\ LeftWrite

(* The process died: the disk is sound, or tfs_mount will not have it.     *)
Crashed ==
  /\ Idle
  /\ ~ mounted
  /\ fd_table = NoFds
  /\ MountCheck(disk) = "ok" =>
       \E list \in Lists : Owns(disk, {}, {}, list) /\ DirNames(disk)

Recovers == (Ownership /\ Leftovers) \/ Crashed

=============================================================================
