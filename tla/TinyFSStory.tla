----------------------------- MODULE TinyFSStory -----------------------------
(***************************************************************************)
(* What a running call has done so far: what the disk and the descriptors  *)
(* have in common with the tree and the descriptors there were when it     *)
(* began, and what the work it has left is for.  It is what the proof that *)
(* TinyFSClient implements FileSystem rests on, next to TinyFSOwners.      *)
(***************************************************************************)
EXTENDS TinyFSOwners

(* The tree before the call, but for the nodes that are gone and those the *)
(* call is busy with.                                                      *)
Kept(gone, busy) ==
  /\ Inodes(disk) \ busy = DOMAIN settled.tree \ (gone \cup busy)
  /\ \A n \in Inodes(disk) \ busy : Node(disk, n) = settled.tree[n]

Unopened(gone) ==
  \A fd \in FDs : fd_table[fd] = IF settled.fds[fd] \in gone THEN 0
                                 ELSE settled.fds[fd]

Untouched == Kept({}, {}) /\ Unopened({})

(* What there was is a tree of blocks and a table of descriptors. *)
Readout ==
  /\ DOMAIN settled.tree \subseteq Addr
  /\ settled.tree = [n \in DOMAIN settled.tree |-> settled.tree[n]]
  /\ settled.fds \in [FDs -> Addr]
  /\ \A n \in DOMAIN settled.tree :
       LET node == settled.tree[n]
       IN  node = [kind |-> node.kind, name |-> node.name, dir |-> node.dir,
                   off |-> node.off, bytes |-> node.bytes]

(* Of a disk at any point.  Directories are not renamed, and only files    *)
(* with a block have bytes.                                                *)
DirsReadable(d) == \A b \in Addr : d[b].kind = "dir" => d[b].name \notin Unreadable
Bytes(d) ==
  \A b \in Addr :
    d[b].size # 0 => d[b].kind = "file" /\ \E i \in 1 .. Slots : d[b].ptr[i] # 0

---------------------------------------------------------------------------
(* Between calls, while the disk is formatted, and on the way to what a    *)
(* path leads to.                                                          *)
Rests ==
  /\ Idle
  /\ asked = Promised!NoCall
  /\ settled = [tree |-> Tree(disk), fds |-> fd_table, code |-> ret.code]

Erases ==
  /\ Formatting
  /\ asked = Promised!FormatRequest
  /\ settled.fds = fd_table

LooksFor(w) ==
  /\ w.op = "walk"
  /\ todo = <<w>>
  /\ asked = Promised!PathRequest(w.call, w.path)
  /\ w.path \in Paths
  /\ \A i \in 1 .. w.at - 1 : w.path[i] \notin Unreadable
  /\ Untouched

---------------------------------------------------------------------------
(* tfs_openFile and tfs_createDir make what the path does not lead to.     *)
KindOf(call) == IF call = "openFile" THEN "file" ELSE "dir"

Opened(code, b) ==
  IF asked.op = "openFile"
  THEN /\ code \in FDs /\ settled.fds[code] = 0
       /\ fd_table = [settled.fds EXCEPT ![code] = b]
  ELSE code = TFS_SUCCESS /\ fd_table = settled.fds

Makes(c) ==
  /\ todo = <<c>>
  /\ asked.op \in {"openFile", "createDir"}
  /\ asked = Promised!PathRequest(asked.op, asked.path)
  /\ asked.path \in Paths
  /\ Promised!Readable(asked.path)
  /\ Kept({}, {})
  /\ LET kind == KindOf(asked.op)
         name == Promised!Last(asked.path)
     IN  \/ /\ c.op = "create" /\ c.kind = kind /\ c.name = name
            /\ Leads(disk, asked.path, Len(asked.path) - 1, c.dir)
            /\ Unopened({})
         \/ /\ c.op = "newInode" /\ c.kind = kind /\ c.name = name
            /\ c.dir \in Promised!Dirs(Promised!Above(asked.path))
            /\ Opened(c.code, c.blk)
         \/ /\ c.op = "link" /\ disk[c.blk] = Inode(kind, name)
            /\ c.dir \in Promised!Dirs(Promised!Above(asked.path))
            /\ Opened(c.code, c.blk)

---------------------------------------------------------------------------
(* tfs_writeFile; g is what it does last.                                  *)
Fills(g, n) ==
  /\ g.op \in {"grab", "fill", "point"}
  /\ asked = Promised!WriteRequest(asked.fd, asked.tag, asked.size)
  /\ asked.fd \in FDs /\ asked.tag \in Tags /\ asked.size \in Sizes
  /\ g.fd = asked.fd /\ g.tag = asked.tag /\ g.inode.size = asked.size
  /\ n = settled.fds[asked.fd] /\ n # 0
  /\ n \in DOMAIN settled.tree /\ n \in Inodes(disk)
  /\ Kept({}, {n})
  /\ Unopened({})
  /\ settled.tree[n].kind = "file"
  /\ g.inode.name = settled.tree[n].name /\ disk[n].name = settled.tree[n].name
  /\ MinOf(DirOf(disk, n)) = settled.tree[n].dir
  /\ g.at > 0 => disk[n].size = asked.size
  /\ \A j \in 1 .. g.at :
       disk[disk[n].ptr[j]].data = [tag |-> asked.tag, idx |-> j - 1]
  /\ g.op = "point" => disk[g.blk].data = [tag |-> asked.tag, idx |-> g.at]

---------------------------------------------------------------------------
(* tfs_deleteFile, tfs_removeDir and tfs_removeAll remove d, or what is    *)
(* below it; gone is what they have removed, and what they are about to    *)
(* remove is on its way.                                                   *)
WorkOf(steps) == {steps[j] : j \in 1 .. Len(steps)}
Unlinks(x) == x.op \in {"unlink", "unlinkDir"}
Leaving(steps) == {x.blk : x \in {y \in WorkOf(steps) : Unlinks(y)}}

(* What is left of the call is about what is below d, and it went through  *)
(* the directories in their order.                                         *)
Within(x, d) ==
  /\ Unlinks(x) => x.blk \in Promised!Below(d) /\ x.blk # 0
  /\ x.op \in {"scan", "rewrite"} =>
       /\ x.dir \in Promised!Below(d)
       /\ \A i \in 1 .. Slots : i < x.at => x.copy.ptr[i] = 0

(* A path that tfs_removeAll made leads to a directory below d, which is   *)
(* empty when it is to be removed.                                         *)
Finds(w, d) ==
  /\ w.call \in {"removeDir", "removeAll"}
  /\ \E n \in Promised!Below(d) :
       /\ Leads(disk, w.path, Len(w.path), n)
       /\ n # 0
       /\ w.call = "removeDir" => \A i \in 1 .. Slots : disk[n].ptr[i] = 0
       /\ Tail(todo) = <<>> => n = d

(* What the call does last. *)
Aim(z, d) ==
  \/ /\ asked.op = "deleteFile"
     /\ asked = Promised!DeleteRequest(asked.fd) /\ asked.fd \in FDs
     /\ z.op = "unlink" /\ z.blk = d /\ settled.fds[asked.fd] = d
  \/ /\ asked.op = "removeDir"
     /\ asked = Promised!PathRequest(asked.op, asked.path)
     /\ d \in Promised!Dirs(asked.path) /\ Promised!Children(d) = {}
     /\ z.op = "unlinkDir" /\ z.blk = d
  \/ /\ asked.op = "removeAll"
     /\ asked = Promised!PathRequest(asked.op, asked.path)
     /\ d \in Promised!Dirs(asked.path)
     /\ \/ z.op = "unlinkDir" /\ z.blk = d
        \/ z.op \in {"scan", "rewrite"} /\ z.dir = d
        \/ z.op = "walk" /\ z.call = "removeDir"

Clears(gone, d) ==
  /\ Kept(gone, Leaving(todo))
  /\ Unopened(gone)
  /\ gone \subseteq Promised!Below(d) \ {0}
  /\ gone # {} => asked.op = "removeAll"
  /\ \A x \in WorkOf(todo) : Within(x, d)
  /\ Head(todo).op = "walk" => Finds(Head(todo), d)
  /\ Aim(todo[Len(todo)], d)

---------------------------------------------------------------------------
Runs ==
  /\ todo # <<>>
  /\ mounted
  /\ \/ LooksFor(Head(todo))
     \/ Head(todo).op \in {"create", "newInode", "link"} /\ Makes(Head(todo))
     \/ asked.op = "writeFile" /\ \E n \in Addr : Fills(todo[Len(todo)], n)
     \/ \E gone \in SUBSET Addr, d \in Addr : Clears(gone, d)

(* At every write of every call, the disk and the descriptors are the tree *)
(* and the descriptors there were when the call began, but for the nodes   *)
(* it removed and the one it makes, writes or is about to remove; and what *)
(* the call has left to do completes what was asked for, and nothing else. *)
Story ==
  /\ Readout
  /\ DirsReadable(disk)
  /\ Bytes(disk)
  /\ Rests \/ Erases \/ Runs

=============================================================================
