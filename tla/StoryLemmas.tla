---------------------------- MODULE StoryLemmas ----------------------------
(***************************************************************************)
(* What each kind of write does to the tree on the disk, and what paths    *)
(* lead to in that tree; and of the calls that return at once, of a        *)
(* formatting, of the removals and of tfs_writeFile: their story goes on,  *)
(* and what they do last is what FileSystem promises.  For StoryProofs.    *)
(***************************************************************************)
EXTENDS TinyFSStory, OwnersProofs

USE Bounds

---------------------------------------------------------------------------
(* The tree on a disk. *)

LEMMA MinIs ==
  ASSUME NEW S \in SUBSET Nat, S # {}
  PROVE  MinOf(S) \in S /\ \A m \in S : MinOf(S) <= m
BY LeastNumber DEF MinOf

LEMMA InodeIs ==
  ASSUME NEW d \in Disks, NEW n
  PROVE  /\ DirOf(d, n) \in SUBSET Addr /\ DirOf(d, n) \in SUBSET Nat
         /\ n \in Inodes(d) <=> n \in Addr /\ d[n].type = "INODE" /\ DirOf(d, n) # {}
         /\ n \in Inodes(d) => MinOf(DirOf(d, n)) \in DirOf(d, n)
<1>1. DirOf(d, n) \in SUBSET Addr /\ DirOf(d, n) \in SUBSET Nat
  BY DEF DirOf, Addr
<1>2. n \in Inodes(d) <=> n \in Addr /\ d[n].type = "INODE" /\ DirOf(d, n) # {}
  BY DEF Inodes
<1> QED BY <1>1, <1>2, MinIs

LEMMA Division ==
  ASSUME NEW a \in Nat, NEW m \in Nat, m >= 1
  PROVE  \E q \in Nat, r \in Nat : q = a \div m /\ r = a % m /\ q * m + r = a
<1>1. a \div m \in Nat /\ a % m \in Nat
  OBVIOUS
<1>2. PICK q \in Nat : q = a \div m
  BY <1>1
<1>3. PICK r \in Nat : r = a % m
  BY <1>1
<1>4. a = m * q + r
  BY <1>2, <1>3, SMT
<1>5. a = q * m + r
  BY <1>4
<1> QED BY <1>2, <1>3, <1>5

LEMMA OffsetIs ==
  ASSUME NEW size \in Sizes, NEW o \in 0 .. size - 1
  PROVE  /\ o \in Nat
         /\ \E q \in 0 .. Slots - 1, r \in Nat :
              /\ q = o \div MAX_DATA_SPACE /\ r = o % MAX_DATA_SPACE
              /\ q * MAX_DATA_SPACE + r = o
<1>1. o \in Nat
  OBVIOUS
<1>2. o \div MAX_DATA_SPACE < Slots
  BY CallsAssumption
<1>3. PICK q \in Nat, r \in Nat : /\ q = o \div MAX_DATA_SPACE /\ r = o % MAX_DATA_SPACE
                                /\ q * MAX_DATA_SPACE + r = o
  BY <1>1, Division
<1>4. q \in 0 .. Slots - 1
  BY <1>2, <1>3
<1> QED BY <1>1, <1>3, <1>4

(* The bytes of a file do not change while its blocks do not.              *)
LEMMA BytesStay ==
  ASSUME NEW d \in Disks, NEW e \in Disks, NEW n \in Addr,
         e[n].size = d[n].size,
         d[n].size # 0 =>
           /\ e[n].ptr = d[n].ptr
           /\ \A i \in 1 .. Slots : e[d[n].ptr[i]].data = d[d[n].ptr[i]].data
  PROVE  Node(e, n).bytes = Node(d, n).bytes
<1>1. d[n].size \in Sizes \cup {0}
  BY DEF Disks, Sized
<1>2. ASSUME NEW o \in 1 .. d[n].size
      PROVE  ByteAt(e, e[n], o - 1) = ByteAt(d, d[n], o - 1)
  <2>1. PICK p, s : p = o - 1 /\ s = d[n].size
    OBVIOUS
  <2>2. s \in Sizes \cup {0} /\ s \in Nat
    <3>1. s \in Sizes \cup {0}
      BY <1>1, <2>1
    <3> QED BY <3>1
  <2>9. o \in 1 .. s
    BY <2>1
  <2>3. s # 0 /\ p \in 0 .. s - 1
    BY <2>1, <2>2, <2>9
  <2>4. s \in Sizes
    BY <1>1, <2>1, <2>3
  <2>5. PICK q \in 0 .. Slots - 1 : q = p \div MAX_DATA_SPACE
    BY <2>3, <2>4, OffsetIs
  <2>6. q + 1 \in 1 .. Slots
    OBVIOUS
  <2>7. e[e[n].ptr[q + 1]].data = d[d[n].ptr[q + 1]].data
    BY <2>1, <2>3, <2>6
  <2>8. /\ ByteAt(e, e[n], p) =
             LET data == e[e[n].ptr[q + 1]].data
             IN  <<data.tag, data.idx * MAX_DATA_SPACE + (p % MAX_DATA_SPACE)>>
        /\ ByteAt(d, d[n], p) =
             LET data == d[d[n].ptr[q + 1]].data
             IN  <<data.tag, data.idx * MAX_DATA_SPACE + (p % MAX_DATA_SPACE)>>
    BY <2>5 DEF ByteAt
  <2> QED BY <2>1, <2>7, <2>8
<1>3. [o \in 1 .. d[n].size |-> ByteAt(e, e[n], o - 1)] =
        [o \in 1 .. d[n].size |-> ByteAt(d, d[n], o - 1)]
  BY <1>2
<1> QED BY <1>3 DEF Node

LEMMA NodeStays ==
  ASSUME NEW d \in Disks, NEW e \in Disks, NEW n \in Addr,
         DirOf(e, n) = DirOf(d, n),
         e[n].kind = d[n].kind, e[n].name = d[n].name, e[n].off = d[n].off,
         e[n].size = d[n].size,
         d[n].size # 0 =>
           /\ e[n].ptr = d[n].ptr
           /\ \A i \in 1 .. Slots : e[d[n].ptr[i]].data = d[d[n].ptr[i]].data
  PROVE  Node(e, n) = Node(d, n)
<1>1. Node(e, n).bytes = Node(d, n).bytes
  BY BytesStay
<1>2. \A f : Node(f, n) = [kind |-> f[n].kind, name |-> f[n].name, dir |-> MinOf(DirOf(f, n)),
                          off |-> f[n].off, bytes |-> Node(f, n).bytes]
  BY DEF Node
<1> QED BY <1>1, <1>2

(* Two disks that show the same nodes, but for those in busy.              *)
Shows(d, e, busy) ==
  /\ Inodes(e) \ busy = Inodes(d) \ busy
  /\ \A n \in Inodes(d) \ busy : Node(e, n) = Node(d, n)

LEMMA KeptStays ==
  ASSUME NEW gone, NEW busy, Kept(gone, busy), settled' = settled,
         Shows(disk, disk', busy)
  PROVE  Kept(gone, busy)'
BY DEF Kept, Shows

---------------------------------------------------------------------------
(* Writes, and the nodes they do not show in. *)

Same(d, e, n) ==
  /\ DirOf(e, n) = DirOf(d, n)
  /\ e[n].type = d[n].type /\ e[n].kind = d[n].kind /\ e[n].name = d[n].name
  /\ e[n].off = d[n].off /\ e[n].size = d[n].size
  /\ d[n].size # 0 =>
       /\ e[n].ptr = d[n].ptr
       /\ \A i \in 1 .. Slots : e[d[n].ptr[i]].data = d[d[n].ptr[i]].data

LEMMA Shown ==
  ASSUME NEW d \in Disks, NEW e \in Disks, NEW busy,
         \A n \in Addr \ busy : n \in Inodes(d) \/ n \in Inodes(e) => Same(d, e, n)
  PROVE  Shows(d, e, busy)
<1>1. ASSUME NEW n \in Addr \ busy, Same(d, e, n)
      PROVE  (n \in Inodes(d) <=> n \in Inodes(e)) /\ Node(e, n) = Node(d, n)
  <2>1. n \in Inodes(d) <=> n \in Inodes(e)
    BY <1>1 DEF Same, Inodes
  <2>2. Node(e, n) = Node(d, n)
    BY <1>1, NodeStays DEF Same
  <2> QED BY <2>1, <2>2
<1>2. Inodes(d) \subseteq Addr /\ Inodes(e) \subseteq Addr
  BY DEF Inodes
<1> QED BY <1>1, <1>2 DEF Shows

LEMMA ShowsMore ==
  ASSUME NEW d, NEW e, NEW busy, NEW more, Shows(d, e, busy), busy \subseteq more
  PROVE  Shows(d, e, more)
BY DEF Shows

LEMMA ShowsAll ==
  ASSUME NEW d, NEW e, Shows(d, e, {}) PROVE Tree(e) = Tree(d)
BY DEF Shows, Tree

LEMMA NextShows ==
  ASSUME NEW d \in Disks, NEW e \in Disks,
         \A b \in Addr : Alike(d[b], e[b]) /\ e[b].ptr = d[b].ptr
  PROVE  Shows(d, e, {})
<1>1. ASSUME NEW n \in Addr PROVE Same(d, e, n)
  <2>1. DirOf(e, n) = DirOf(d, n)
    BY DEF DirOf, Alike
  <2>2. \A i \in 1 .. Slots : e[d[n].ptr[i]].data = d[d[n].ptr[i]].data
    BY DiskFields DEF Alike
  <2> QED BY <2>1, <2>2 DEF Same, Alike
<1> QED BY <1>1, Shown

LEMMA BlockShows ==
  ASSUME NEW d \in Disks, NEW e \in Disks, NEW b \in Addr, NEW busy,
         \A c \in Addr \ {b} : e[c] = d[c],
         \A n \in Addr \ busy : n \in Inodes(d) \/ n \in Inodes(e) =>
           /\ n # b /\ b \notin DirOf(d, n) /\ b \notin DirOf(e, n)
           /\ d[n].size # 0 => \A i \in 1 .. Slots : d[n].ptr[i] # b
  PROVE  Shows(d, e, busy)
<1>1. ASSUME NEW n \in Addr \ busy, n \in Inodes(d) \/ n \in Inodes(e)
      PROVE  Same(d, e, n)
  <2>1. n # b /\ b \notin DirOf(d, n) /\ b \notin DirOf(e, n) /\ e[n] = d[n]
    BY <1>1
  <2>2. DirOf(e, n) = DirOf(d, n)
    BY <2>1 DEF DirOf
  <2>3. ASSUME d[n].size # 0, NEW i \in 1 .. Slots
        PROVE  e[d[n].ptr[i]].data = d[d[n].ptr[i]].data
    <3>1. d[n].ptr[i] # b /\ d[n].ptr[i] \in Addr
      BY <1>1, <2>3, DiskFields
    <3> QED BY <3>1
  <2> QED BY <2>1, <2>2, <2>3 DEF Same
<1> QED BY <1>1, Shown

LEMMA PtrShows ==
  ASSUME NEW d \in Disks, NEW e \in Disks, NEW p \in Addr, NEW busy, d[p].size = 0,
         \A b \in Addr : Alike(d[b], e[b]),
         \A b \in Addr \ {p} : e[b].ptr = d[b].ptr,
         \A n \in Addr \ busy : n \in Inodes(d) \/ n \in Inodes(e) =>
           \A i \in 1 .. Slots : d[p].ptr[i] = n <=> e[p].ptr[i] = n
  PROVE  Shows(d, e, busy)
<1>1. ASSUME NEW n \in Addr \ busy, n \in Inodes(d) \/ n \in Inodes(e)
      PROVE  Same(d, e, n)
  <2>1. \A b \in Addr, i \in 1 .. Slots : d[b].ptr[i] = n <=> e[b].ptr[i] = n
    BY <1>1
  <2>2. DirOf(e, n) = DirOf(d, n)
    BY <2>1 DEF DirOf, Alike
  <2>3. \A i \in 1 .. Slots : e[d[n].ptr[i]].data = d[d[n].ptr[i]].data
    BY DiskFields DEF Alike
  <2>4. d[n].size # 0 => e[n].ptr = d[n].ptr
    OBVIOUS
  <2> QED BY <2>2, <2>3, <2>4 DEF Same, Alike
<1> QED BY <1>1, Shown

---------------------------------------------------------------------------
(* Nodes and entries of directories, where no pointer was given up.        *)

LEMMA DirsAre ==
  ASSUME NEW d, Shaped(d), NEW x \in Addr
  PROVE  /\ IsDirOn(d, x) <=>
              d[x].type = "SUPERBLOCK" \/ (d[x].type = "INODE" /\ d[x].kind = "dir")
         /\ IsDirOn(d, x) => d[x].kind # "file"
BY Ends DEF Shaped, IsDirOn

LEMMA EntryNode ==
  ASSUME NEW d \in Disks, NEW hand, NEW list, Owns(d, {}, hand, list),
         NEW x \in Addr, IsDirOn(d, x), NEW i \in 1 .. Slots,
         NEW n, d[x].ptr[i] = n, n # 0
  PROVE  /\ n \in Inodes(d) /\ n \notin hand /\ d[n].kind \in {"file", "dir"}
         /\ Node(d, n).dir = x /\ Node(d, n).name = d[n].name
         /\ Node(d, n).kind = d[n].kind
<1>1. Shaped(d)
  BY DEF Owns
<1>2. n \in Addr
  BY DiskFields
<1>3. Counts(d, {}, x, i)
  BY AllCount
<1>4. n \notin hand /\ d[n].type = "INODE"
  BY <1>1, <1>3, OneOwnerOf, DirsAre
<1>5. x \in DirOf(d, n)
  BY <1>1, DirsAre DEF DirOf
<1>6. ASSUME NEW y \in DirOf(d, n) PROVE y = x
  <2>1. PICK j \in 1 .. Slots : y \in Addr /\ d[y].ptr[j] = n
    BY DEF DirOf
  <2>2. Counts(d, {}, y, j)
    BY <2>1, AllCount
  <2> QED BY <1>3, <2>1, <2>2, OneOwnerOf
<1>7. n \in Inodes(d) /\ MinOf(DirOf(d, n)) = x
  BY <1>2, <1>4, <1>5, <1>6, InodeIs
<1>8. d[n].kind \in {"file", "dir"}
  <2>1. d[n].kind \in Kinds
    BY <1>2, DiskFields, Fields
  <2>2. n # SUPERBLOCK_DISKLOC
    BY Ends
  <2> QED BY <1>1, <1>2, <1>4, <2>1, <2>2 DEF Shaped, Kinds
<1> QED BY <1>4, <1>7, <1>8 DEF Node

LEMMA NodeEntry ==
  ASSUME NEW d \in Disks, NEW hand, NEW list, Owns(d, {}, hand, list),
         NEW n \in Inodes(d)
  PROVE  /\ n \in Addr /\ n # 0 /\ d[n].type = "INODE" /\ d[n].kind \in {"file", "dir"}
         /\ Node(d, n).dir \in Addr /\ IsDirOn(d, Node(d, n).dir)
         /\ \E i \in 1 .. Slots : d[Node(d, n).dir].ptr[i] = n
<1>1. Shaped(d)
  BY DEF Owns
<1>2. n \in Addr /\ d[n].type = "INODE" /\ MinOf(DirOf(d, n)) \in DirOf(d, n)
  BY InodeIs
<1>3. n # 0
  BY <1>1, <1>2, Ends DEF Shaped
<1>4. PICK x : x = Node(d, n).dir
  OBVIOUS
<1>5. x \in DirOf(d, n)
  BY <1>2, <1>4 DEF Node
<1>6. x \in Addr /\ IsDirOn(d, x) /\ \E i \in 1 .. Slots : d[x].ptr[i] = n
  BY <1>1, <1>5, DirsAre DEF DirOf
<1>7. d[n].kind \in {"file", "dir"}
  BY <1>2, <1>3, <1>4, <1>6, EntryNode
<1> QED BY <1>2, <1>3, <1>4, <1>6, <1>7

LEMMA NodesAre ==
  ASSUME NEW d \in Disks, NEW list, Owns(d, {}, {}, list), NEW n \in Addr
  PROVE  n \in Inodes(d) <=> d[n].type = "INODE"
<1>1. Shaped(d) /\ Held(d, {}, {})
  BY DEF Owns
<1>2. ASSUME d[n].type = "INODE" PROVE n \in Inodes(d)
  <2>1. n # 0 /\ n # SUPERBLOCK_DISKLOC
    BY <1>1, <1>2, Ends DEF Shaped
  <2>2. PICK x \in Addr, i \in 1 .. Slots : Counts(d, {}, x, i) /\ d[x].ptr[i] = n
    BY <1>1, <1>2, <2>1 DEF Held
  <2>3. d[x].kind # "file" /\ d[x].ptr[i] # 0
    BY <1>2, <2>2, OneOwnerOf DEF Counts
  <2>4. d[x].kind \in Kinds
    BY DiskFields, Fields
  <2>5. IsDirOn(d, x)
    BY <1>1, <2>3, <2>4, Ends DEF Shaped, IsDirOn, Kinds
  <2> QED BY <2>1, <2>2, <2>5, EntryNode
<1> QED BY <1>2, InodeIs

---------------------------------------------------------------------------
(* The tree before the call, and what the disk has of it at rest. *)

LEMMA KeptTree ==
  ASSUME Kept({}, {}), settled.tree = [n \in DOMAIN settled.tree |-> settled.tree[n]]
  PROVE  settled.tree = Tree(disk)
BY DEF Kept, Tree

LEMMA TreeKept ==
  ASSUME settled.tree = Tree(disk) PROVE Kept({}, {})
BY DEF Kept, Tree

LEMMA KeptMore ==
  ASSUME NEW gone, NEW busy, NEW more, Kept(gone, busy), busy \subseteq more
  PROVE  Kept(gone, more)
BY DEF Kept

LEMMA KeptGone ==
  ASSUME NEW gone, NEW n, Kept(gone, {n}), n \notin Inodes(disk)
  PROVE  Kept(gone \cup {n}, {})
BY DEF Kept

LEMMA RestOf ==
  ASSUME TypeOK, NEW given, NEW hand, NEW coming, NEW list, Sound(given, hand, coming, list)
  PROVE  disk \in Disks /\ Owns(disk, given, hand, list) /\ Shaped(disk)
         /\ DirNames(disk) /\ OnFiles(disk, fd_table, coming)
BY DEF Sound, Owns, TypeOK, Disks

(* An entry of a directory on the disk is a child in the tree, and a child *)
(* that is not gone is an entry.                                           *)
LEMMA ChildIs ==
  ASSUME TypeOK, NEW list, AtRest(list), NEW gone, Kept(gone, {}),
         NEW x \in Addr, IsDirOn(disk, x), NEW i \in 1 .. Slots,
         NEW n, disk[x].ptr[i] = n, n # 0
  PROVE  /\ n \in Addr /\ n \in DOMAIN settled.tree /\ n \notin gone
         /\ settled.tree[n] = Node(disk, n)
         /\ settled.tree[n].dir = x
         /\ settled.tree[n].name = disk[n].name /\ settled.tree[n].kind = disk[n].kind
         /\ disk[n].kind \in {"file", "dir"}
<1>1. disk \in Disks /\ Owns(disk, {}, {}, list)
  BY RestOf DEF AtRest
<1>2. n \in Inodes(disk) /\ Node(disk, n).dir = x /\ Node(disk, n).name = disk[n].name
      /\ Node(disk, n).kind = disk[n].kind /\ disk[n].kind \in {"file", "dir"}
  BY <1>1, EntryNode
<1>3. n \in DOMAIN settled.tree /\ n \notin gone /\ settled.tree[n] = Node(disk, n)
  BY <1>2 DEF Kept
<1> QED BY <1>2, <1>3 DEF Inodes

LEMMA ChildHas ==
  ASSUME TypeOK, NEW list, AtRest(list), NEW gone, Kept(gone, {}),
         NEW n \in DOMAIN settled.tree, n \notin gone, NEW x, x = settled.tree[n].dir
  PROVE  /\ n \in Addr /\ n # 0 /\ x \in Addr /\ IsDirOn(disk, x)
         /\ \E i \in 1 .. Slots : disk[x].ptr[i] = n
         /\ settled.tree[n].name = disk[n].name /\ settled.tree[n].kind = disk[n].kind
         /\ disk[n].kind \in {"file", "dir"}
<1>1. disk \in Disks /\ Owns(disk, {}, {}, list)
  BY RestOf DEF AtRest
<1>2. n \in Inodes(disk) /\ settled.tree[n] = Node(disk, n)
  BY DEF Kept
<1>3. settled.tree[n].name = disk[n].name /\ settled.tree[n].kind = disk[n].kind
  BY <1>2 DEF Node
<1> QED BY <1>1, <1>2, <1>3, NodeEntry

LEMMA DirIs ==
  ASSUME TypeOK, NEW list, AtRest(list), Kept({}, {}), NEW x
  PROVE  Promised!IsDir(x) <=> x \in Addr /\ IsDirOn(disk, x)
<1>1. disk \in Disks /\ Owns(disk, {}, {}, list) /\ Shaped(disk)
  BY RestOf DEF AtRest
<1>2. Promised!IsDir(x) <=> x = 0 \/ (x \in DOMAIN settled.tree /\ settled.tree[x].kind = "dir")
  BY Ends DEF Promised!IsDir
<1>3. ASSUME x \in Addr, disk[x].kind = "dir" PROVE x \in Inodes(disk)
  <2>1. x = 0 \/ disk[x].type = "INODE"
    BY <1>1, <1>3, Ends DEF Shaped
  <2>2. x # 0
    BY <1>1, <1>3, Ends DEF Shaped
  <2> QED BY <1>1, <1>3, <2>1, <2>2, NodesAre
<1>4. x \in Inodes(disk) => x \in DOMAIN settled.tree /\ settled.tree[x] = Node(disk, x)
  BY DEF Kept
<1>5. x \in DOMAIN settled.tree => x \in Addr /\ settled.tree[x].kind = disk[x].kind
  BY ChildHas
<1> QED BY <1>2, <1>3, <1>4, <1>5, Ends DEF IsDirOn

---------------------------------------------------------------------------
(* What paths lead to in that tree. *)

Reaches(path, k, n) ==
  \E t \in [0 .. k -> Addr] :
    /\ t[0] = 0 /\ t[k] = n
    /\ \A i \in 1 .. k : /\ t[i] \in DOMAIN settled.tree
                         /\ settled.tree[t[i]].dir = t[i - 1]
                         /\ settled.tree[t[i]].name = path[i]

LEMMA Prefix ==
  ASSUME NEW path \in AnyPath, NEW k \in 0 .. Len(path)
  PROVE  /\ Len(Promised!Upto(path, k)) = k
         /\ \A i \in 1 .. k : Promised!Upto(path, k)[i] = path[i]
         /\ Promised!Upto(path, Len(path)) = path
BY DEF Promised!Upto, AnyPath

LEMMA ReachesAt ==
  ASSUME DOMAIN settled.tree \subseteq Addr, NEW path \in AnyPath,
         NEW k \in 0 .. Len(path), NEW n
  PROVE  n \in Promised!At(Promised!Upto(path, k)) <=> Reaches(path, k, n)
<1> DEFINE p == Promised!Upto(path, k)
           nodes == DOMAIN settled.tree \cup {0}
<1>1. Len(p) = k /\ k \in Nat /\ \A i \in 1 .. k : p[i] = path[i]
  BY Prefix DEF AnyPath
<1> HIDE DEF p
<1>2. n \in Promised!At(p) <=>
        /\ n \in nodes
        /\ \E t \in [0 .. k -> nodes] :
             /\ t[0] = 0
             /\ \A i \in 1 .. k : /\ t[i] \in DOMAIN settled.tree
                                  /\ settled.tree[t[i]].dir = t[i - 1]
                                  /\ settled.tree[t[i]].name = p[i]
             /\ t[k] = n
  BY <1>1, Ends DEF Promised!At, Promised!Nodes, Promised!Way
<1>3. ASSUME n \in Promised!At(p) PROVE Reaches(path, k, n)
  <2>1. PICK t \in [0 .. k -> nodes] :
             /\ t[0] = 0
             /\ \A i \in 1 .. k : /\ t[i] \in DOMAIN settled.tree
                                  /\ settled.tree[t[i]].dir = t[i - 1]
                                  /\ settled.tree[t[i]].name = p[i]
             /\ t[k] = n
    BY <1>2, <1>3
  <2>2. t \in [0 .. k -> Addr]
    BY Ends
  <2> QED BY <1>1, <2>1, <2>2 DEF Reaches
<1>4. ASSUME Reaches(path, k, n) PROVE n \in Promised!At(p)
  <2>1. PICK t \in [0 .. k -> Addr] :
             /\ t[0] = 0 /\ t[k] = n
             /\ \A i \in 1 .. k : /\ t[i] \in DOMAIN settled.tree
                                  /\ settled.tree[t[i]].dir = t[i - 1]
                                  /\ settled.tree[t[i]].name = path[i]
    BY <1>4 DEF Reaches
  <2>2. \A i \in 0 .. k : t[i] \in nodes
    BY <2>1
  <2>3. t \in [0 .. k -> nodes] /\ k \in 0 .. k
    BY <1>1, <2>2
  <2>4. n \in nodes
    BY <2>1, <2>2, <2>3
  <2> QED BY <1>1, <1>2, <2>1, <2>3, <2>4
<1> QED BY <1>3, <1>4 DEF p

(* Where a path leads through the disk is a directory in the tree.         *)
LEMMA LeadsReaches ==
  ASSUME TypeOK, NEW list, AtRest(list), Kept({}, {}),
         NEW path, NEW k \in Nat, NEW n, Leads(disk, path, k, n)
  PROVE  Reaches(path, k, n) /\ Promised!IsDir(n) /\ n \in Addr
<1>1. PICK t \in [0 .. k -> Addr] : Trail(disk, path, k, t) /\ t[k] = n
  BY DEF Leads
<1>2. t[0] = 0 /\ \A i \in 1 .. k : Hop(disk, t[i - 1], path[i], t[i])
  BY <1>1, Ends DEF Trail
<1>3. \A i \in 0 .. k : t[i] \in Addr /\ IsDirOn(disk, t[i])
  <2>1. TAKE i \in 0 .. k
  <2>2. t[i] \in Addr /\ Leads(disk, path, i, t[i])
    BY <1>1, LeadsPrefix
  <2> QED BY <2>2, LeadsToDir
<1>4. ASSUME NEW i \in 1 .. k
      PROVE  /\ t[i] \in DOMAIN settled.tree
             /\ settled.tree[t[i]].dir = t[i - 1]
             /\ settled.tree[t[i]].name = path[i]
  <2>1. i - 1 \in 0 .. k /\ i \in 0 .. k
    OBVIOUS
  <2>2. PICK j \in 1 .. Slots : First(Named(disk, t[i - 1], path[i]), j) /\ t[i] = disk[t[i - 1]].ptr[j]
    BY <1>2 DEF Hop
  <2>3. t[i] # 0 /\ disk[t[i]].name = path[i]
    BY <2>2 DEF First, Named
  <2> QED BY <1>3, <2>1, <2>2, <2>3, ChildIs
<1>5. Reaches(path, k, n)
  BY <1>1, <1>2, <1>4 DEF Reaches
<1>6. n \in Addr /\ IsDirOn(disk, n)
  BY LeadsToDir
<1> QED BY <1>5, <1>6, DirIs

LEMMA LeadsDirs ==
  ASSUME TypeOK, NEW list, AtRest(list), Kept({}, {}),
         NEW path \in AnyPath, NEW k \in 0 .. Len(path), NEW n, Leads(disk, path, k, n)
  PROVE  n \in Promised!Dirs(Promised!Upto(path, k))
<1>1. k \in Nat
  BY DEF AnyPath
<1>2. Reaches(path, k, n) /\ Promised!IsDir(n)
  BY <1>1, LeadsReaches
<1>3. DOMAIN settled.tree \subseteq Addr
  BY ChildHas
<1> QED BY <1>2, <1>3, ReachesAt DEF Promised!Dirs

(* The last name may be that of a file. *)
LEMMA ReachesOn ==
  ASSUME NEW path, NEW k \in Nat, NEW x, Reaches(path, k, x),
         NEW n \in Addr, n \in DOMAIN settled.tree, settled.tree[n].dir = x,
         settled.tree[n].name = path[k + 1]
  PROVE  Reaches(path, k + 1, n)
<1>1. PICK t \in [0 .. k -> Addr] :
             /\ t[0] = 0 /\ t[k] = x
             /\ \A i \in 1 .. k : /\ t[i] \in DOMAIN settled.tree
                                  /\ settled.tree[t[i]].dir = t[i - 1]
                                  /\ settled.tree[t[i]].name = path[i]
  BY DEF Reaches
<1> DEFINE u == [i \in 0 .. k + 1 |-> IF i = k + 1 THEN n ELSE t[i]]
<1>2. u \in [0 .. k + 1 -> Addr] /\ u[0] = 0 /\ u[k + 1] = n
      /\ \A i \in 0 .. k : u[i] = t[i]
  BY <1>1
<1> HIDE DEF u
<1>3. ASSUME NEW i \in 1 .. k + 1
      PROVE  /\ u[i] \in DOMAIN settled.tree
             /\ settled.tree[u[i]].dir = u[i - 1]
             /\ settled.tree[u[i]].name = path[i]
  <2>1. CASE i \in 1 .. k
    <3>1. u[i] = t[i] /\ u[i - 1] = t[i - 1]
      BY <1>2, <2>1
    <3> QED BY <1>1, <2>1, <3>1
  <2>2. CASE i = k + 1
    <3>1. u[i] = n /\ u[i - 1] = x
      BY <1>1, <1>2, <2>2
    <3> QED BY <2>2, <3>1
  <2> QED BY <2>1, <2>2
<1> QED BY <1>2, <1>3 DEF Reaches

Route(path, k, t) ==
  /\ t \in [0 .. k -> Addr]
  /\ t[0] = 0
  /\ \A i \in 0 .. k : Reaches(path, i, t[i])
  /\ \A i \in 1 .. k : /\ t[i] \in DOMAIN settled.tree
                       /\ settled.tree[t[i]].dir = t[i - 1]
                       /\ settled.tree[t[i]].name = path[i]

LEMMA ReachesBack ==
  ASSUME NEW path, NEW k \in Nat, NEW n, Reaches(path, k, n)
  PROVE  \E t : Route(path, k, t) /\ t[k] = n
<1>1. PICK t \in [0 .. k -> Addr] :
             /\ t[0] = 0 /\ t[k] = n
             /\ \A i \in 1 .. k : /\ t[i] \in DOMAIN settled.tree
                                  /\ settled.tree[t[i]].dir = t[i - 1]
                                  /\ settled.tree[t[i]].name = path[i]
  BY DEF Reaches
<1>2. ASSUME NEW i \in 0 .. k PROVE Reaches(path, i, t[i])
  <2> DEFINE u == [j \in 0 .. i |-> t[j]]
  <2>1. u \in [0 .. i -> Addr] /\ \A j \in 0 .. i : u[j] = t[j]
    BY <1>1
  <2> HIDE DEF u
  <2>2. \A j \in 1 .. i : u[j] = t[j] /\ u[j - 1] = t[j - 1]
    BY <2>1
  <2>3. u[0] = 0 /\ u[i] = t[i]
    BY <1>1, <2>1
  <2>4. \A j \in 1 .. i : j \in 1 .. k
    OBVIOUS
  <2>5. \A j \in 1 .. i : /\ u[j] \in DOMAIN settled.tree
                         /\ settled.tree[u[j]].dir = u[j - 1]
                         /\ settled.tree[u[j]].name = path[j]
    BY <1>1, <2>2, <2>4
  <2> QED BY <2>1, <2>3, <2>5 DEF Reaches
<1> QED BY <1>1, <1>2 DEF Route

LEMMA HiddenMore ==
  ASSUME NEW path, NEW j \in Nat, NEW k \in Nat, j <= k, Promised!Hidden(path, j)
  PROVE  Promised!Hidden(path, k)
<1>1. \A i \in 1 .. j : i \in 1 .. k
  OBVIOUS
<1> QED BY <1>1 DEF Promised!Hidden

LEMMA FileHides ==
  ASSUME TypeOK, NEW list, AtRest(list), Kept({}, {}),
         NEW path \in AnyPath, NEW k \in 0 .. Len(path), NEW j \in 1 .. k,
         NEW n, n # 0, disk[n].kind = "file", Reaches(path, j, n)
  PROVE  Promised!Hidden(path, k)
<1>1. j \in 0 .. Len(path) /\ Len(path) \in Nat
  BY DEF AnyPath
<1>2. DOMAIN settled.tree \subseteq Addr
  BY ChildHas
<1>3. n \in Promised!At(Promised!Upto(path, j))
  BY <1>1, <1>2, ReachesAt
<1>4. ~ Promised!IsDir(n)
  BY DirIs, Ends DEF IsDirOn
<1> QED BY <1>3, <1>4 DEF Promised!Hidden, Promised!Files

LEMMA FirstIs ==
  ASSUME NEW S \in SUBSET (1 .. Slots), S # {}
  PROVE  \E i \in 1 .. Slots : First(S, i)
<1>1. S \subseteq Nat
  OBVIOUS
<1> QED BY <1>1, LeastNumber DEF First

(* Where a path leads in the tree it leads on the disk, if it is not       *)
(* hidden.                                                                 *)
LEMMA ReachesLeads ==
  ASSUME TypeOK, NEW list, AtRest(list), Kept({}, {}),
         NEW path \in AnyPath, NEW k \in 0 .. Len(path), NEW n,
         Reaches(path, k, n), Promised!IsDir(n), ~ Promised!Hidden(path, k)
  PROVE  Leads(disk, path, k, n)
<1>1. k \in Nat /\ Len(path) \in Nat
  BY DEF AnyPath
<1>0. PICK t : Route(path, k, t) /\ t[k] = n
  BY <1>1, ReachesBack
<1>2. /\ t \in [0 .. k -> Addr] /\ t[0] = 0 /\ t[k] = n
      /\ \A i \in 0 .. k : Reaches(path, i, t[i])
      /\ \A i \in 1 .. k : /\ t[i] \in DOMAIN settled.tree
                           /\ settled.tree[t[i]].dir = t[i - 1]
                           /\ settled.tree[t[i]].name = path[i]
  BY <1>0 DEF Route
<1>3. \A i \in 1 .. k :
        /\ t[i] \in Addr /\ t[i] # 0 /\ t[i - 1] \in Addr /\ IsDirOn(disk, t[i - 1])
        /\ \E j \in 1 .. Slots : disk[t[i - 1]].ptr[j] = t[i]
        /\ disk[t[i]].name = path[i]
  <2>1. TAKE i \in 1 .. k
  <2>2. PICK x, m : x = t[i - 1] /\ m = t[i]
    OBVIOUS
  <2>3. m \in DOMAIN settled.tree /\ settled.tree[m].dir = x /\ settled.tree[m].name = path[i]
    BY <1>2, <2>2
  <2>4. m \in Addr /\ m # 0 /\ x \in Addr /\ IsDirOn(disk, x)
        /\ (\E j \in 1 .. Slots : disk[x].ptr[j] = m) /\ disk[m].name = path[i]
    BY <2>3, ChildHas
  <2> QED BY <2>2, <2>4
<1>4. \A i \in 0 .. k : IsDirOn(disk, t[i])
  <2>1. TAKE i \in 0 .. k
  <2>2. CASE i = k
    BY <1>2, <2>2, DirIs
  <2>3. CASE i # k
    <3>1. i + 1 \in 1 .. k /\ (i + 1) - 1 = i
      BY <1>1, <2>3
    <3> QED BY <1>3, <3>1
  <2> QED BY <2>2, <2>3
<1>5. ASSUME NEW i \in 1 .. k PROVE Hop(disk, t[i - 1], path[i], t[i])
  <2>1. PICK j \in 1 .. Slots : disk[t[i - 1]].ptr[j] = t[i]
    BY <1>3
  <2>2. i - 1 \in Nat /\ i - 1 \in 0 .. k /\ i \in 0 .. k /\ (i - 1) + 1 = i
    BY <1>1
  <2>3. disk[t[i]].kind = "dir"
    BY <1>3, <1>4, <2>2, Ends DEF IsDirOn
  <2>4. j \in Named(disk, t[i - 1], path[i])
    BY <1>3, <2>1 DEF Named
  <2>5. Named(disk, t[i - 1], path[i]) \subseteq 1 .. Slots
    BY DEF Named
  <2>6. PICK f \in 1 .. Slots : First(Named(disk, t[i - 1], path[i]), f)
    BY <2>4, <2>5, FirstIs
  <2>7. PICK m : m = disk[t[i - 1]].ptr[f]
    OBVIOUS
  <2>8. m # 0 /\ disk[m].name = path[i]
    BY <2>6, <2>7 DEF First, Named
  <2>9. m \in Addr /\ m \in DOMAIN settled.tree /\ settled.tree[m].dir = t[i - 1]
        /\ settled.tree[m].name = path[i] /\ disk[m].kind \in {"file", "dir"}
    <3>1. PICK x : x = t[i - 1]
      OBVIOUS
    <3>2. x \in Addr /\ IsDirOn(disk, x) /\ disk[x].ptr[f] = m
      BY <1>3, <2>7, <3>1
    <3>3. m \in Addr /\ m \in DOMAIN settled.tree /\ settled.tree[m].dir = x
          /\ settled.tree[m].name = disk[m].name /\ disk[m].kind \in {"file", "dir"}
      BY <2>8, <3>2, ChildIs
    <3> QED BY <2>8, <3>1, <3>3
  <2>10. Reaches(path, i - 1, t[i - 1])
    BY <1>2, <2>2
  <2>11. Reaches(path, i, m)
    BY <2>2, <2>9, <2>10, ReachesOn
  <2>12. disk[m].kind = "dir"
    BY <2>8, <2>9, <2>11, FileHides
  <2>13. f = j
    <3>1. DirNames(disk)
      BY RestOf DEF AtRest
    <3>2. PICK x, y : x = t[i - 1] /\ y = t[i]
      OBVIOUS
    <3>3. x \in Addr /\ IsDirOn(disk, x) /\ disk[x].ptr[j] = y /\ disk[x].ptr[f] = m
          /\ y # 0 /\ disk[y].kind = "dir" /\ disk[y].name = disk[m].name
      BY <1>3, <2>1, <2>3, <2>7, <2>8, <3>2
    <3> QED BY <2>8, <2>12, <3>1, <3>3 DEF DirNames
  <2> QED BY <2>1, <2>3, <2>6, <2>13 DEF Hop
<1>6. Trail(disk, path, k, t)
  BY <1>2, <1>5, Ends DEF Trail
<1> QED BY <1>2, <1>6 DEF Leads

(* A path that reaches a node goes on from where it has led to so far.     *)
LEMMA OnTheWay ==
  ASSUME TypeOK, NEW list, AtRest(list), Kept({}, {}),
         NEW path \in AnyPath, NEW n, Reaches(path, Len(path), n),
         ~ Promised!Hidden(path, Len(path) - 1),
         NEW j \in 1 .. Len(path), NEW x, Leads(disk, path, j - 1, x)
  PROVE  \E m \in Addr :
           /\ m # 0 /\ disk[m].name = path[j] /\ Reaches(path, j, m)
           /\ \E i \in 1 .. Slots : disk[x].ptr[i] = m
           /\ j = Len(path) => m = n
<1>1. Len(path) \in Nat /\ j - 1 \in Nat /\ j - 1 \in 0 .. Len(path)
      /\ Len(path) - 1 \in Nat /\ j - 1 <= Len(path) - 1
  BY DEF AnyPath
<1>0. PICK k : k = Len(path)
  OBVIOUS
<1>9. PICK t : Route(path, k, t) /\ t[k] = n
  BY <1>0, <1>1, ReachesBack
<1>2. /\ t \in [0 .. Len(path) -> Addr] /\ t[0] = 0 /\ t[Len(path)] = n
      /\ \A i \in 0 .. Len(path) : Reaches(path, i, t[i])
      /\ \A i \in 1 .. Len(path) : /\ t[i] \in DOMAIN settled.tree
                                   /\ settled.tree[t[i]].dir = t[i - 1]
                                   /\ settled.tree[t[i]].name = path[i]
  BY <1>0, <1>9 DEF Route
<1>3. /\ t[j] \in Addr /\ t[j] # 0 /\ t[j - 1] \in Addr /\ IsDirOn(disk, t[j - 1])
      /\ \E i \in 1 .. Slots : disk[t[j - 1]].ptr[i] = t[j]
      /\ disk[t[j]].name = path[j]
  <2>1. PICK x0, m : x0 = t[j - 1] /\ m = t[j]
    OBVIOUS
  <2>2. m \in DOMAIN settled.tree /\ settled.tree[m].dir = x0 /\ settled.tree[m].name = path[j]
    BY <1>2, <2>1
  <2>3. m \in Addr /\ m # 0 /\ x0 \in Addr /\ IsDirOn(disk, x0)
        /\ (\E i \in 1 .. Slots : disk[x0].ptr[i] = m) /\ disk[m].name = path[j]
    BY <2>2, ChildHas
  <2> QED BY <2>1, <2>3
<1>4. Reaches(path, j - 1, t[j - 1]) /\ Reaches(path, j, t[j])
  BY <1>1, <1>2
<1>5. ~ Promised!Hidden(path, j - 1)
  BY <1>1, HiddenMore
<1>6. Leads(disk, path, j - 1, t[j - 1])
  BY <1>1, <1>3, <1>4, <1>5, DirIs, ReachesLeads
<1>7. t[j - 1] = x
  BY <1>1, <1>6, LeadsOne
<1> QED BY <1>2, <1>3, <1>4, <1>7

---------------------------------------------------------------------------
(* What a call that may not refuse finds on its way. *)

LEMMA HitReaches ==
  ASSUME TypeOK, NEW list \in Lists, AtRest(list), Kept({}, {}), NEW w \in WalkSteps,
         Leads(disk, w.path, w.at - 1, w.dir), NEW child, Hit(w, child)
  PROVE  Reaches(w.path, w.at, child)
<1>1. w.path \in AnyPath /\ w.at - 1 \in Nat /\ w.dir \in Addr /\ w.at \in 1 .. Len(w.path)
      /\ (w.at - 1) + 1 = w.at
  BY WalkIs
<1>2. PICK k, x, path : k = w.at - 1 /\ x = w.dir /\ path = w.path
  OBVIOUS
<1>3. Reaches(path, k, x)
  BY <1>1, <1>2, LeadsReaches
<1>4. child \in Addr /\ child # 0 /\ disk[child].name = path[w.at] /\ IsDirOn(disk, x)
      /\ \E i \in 1 .. Slots : disk[x].ptr[i] = child
  BY <1>2, HitDir
<1>5. child \in DOMAIN settled.tree /\ settled.tree[child].dir = x
      /\ settled.tree[child].name = disk[child].name
  BY <1>1, <1>2, <1>4, ChildIs
<1>6. Reaches(path, k + 1, child)
  BY <1>1, <1>2, <1>3, <1>4, <1>5, ReachesOn
<1> QED BY <1>1, <1>2, <1>6

LEMMA CertainFinds ==
  ASSUME DOMAIN settled.tree \subseteq Addr, Promised!Certain,
         NEW call \in Lookups, NEW path \in AnyPath, path # <<>>,
         asked = Promised!PathRequest(call, path)
  PROVE  /\ \A i \in 1 .. Len(path) : path[i] \notin Unreadable
         /\ call # "createDir"
         /\ call = "openFile" => \E fd \in FDs : settled.fds[fd] = 0
         /\ ~ Promised!Hidden(path, Len(path) - 1)
         /\ call # "openFile" => ~ Promised!Hidden(path, Len(path))
         /\ \E n : /\ Reaches(path, Len(path), n)
                   /\ call # "openFile" => Promised!IsDir(n)
                   /\ call = "removeDir" => Promised!Children(n) = {}
<1>1. asked.op = call /\ asked.path = path
  BY DEF Promised!PathRequest
<1>2. Promised!Finds(path)
  BY <1>1 DEF Promised!Certain, Lookups
<1>3. Len(path) \in 0 .. Len(path) /\ Len(path) \in Nat
  BY DEF AnyPath
<1>4. \A i \in 1 .. Len(path) : path[i] \notin Unreadable
  BY <1>2 DEF Promised!Finds, Promised!Readable
<1>5. \A n : n \in Promised!At(path) <=> Reaches(path, Len(path), n)
  <2>1. Promised!Upto(path, Len(path)) = path
    BY <1>3, Prefix
  <2> QED BY <1>3, <2>1, ReachesAt
<1>6. CASE call = "openFile"
  <2>1. Promised!Files(path) # {} /\ Promised!HandleLeft /\ ~ Promised!Hidden(path, Len(path) - 1)
    BY <1>1, <1>2, <1>6 DEF Promised!Finds
  <2>2. \E fd \in FDs : settled.fds[fd] = 0
    BY <2>1, Ends DEF Promised!HandleLeft
  <2> QED BY <1>4, <1>5, <1>6, <2>1, <2>2 DEF Promised!Files
<1>7. CASE call # "openFile"
  <2>1. call \in {"removeDir", "removeAll"} /\ ~ Promised!Hidden(path, Len(path))
        /\ \E n \in Promised!Dirs(path) : call = "removeDir" => Promised!Children(n) = {}
    BY <1>1, <1>2, <1>7 DEF Promised!Finds
  <2>2. ~ Promised!Hidden(path, Len(path) - 1)
    <3>1. CASE Len(path) = 0
      BY <3>1, EmptyHasNone DEF AnyPath
    <3>2. CASE Len(path) # 0
      <4>1. Len(path) - 1 \in Nat /\ Len(path) - 1 <= Len(path)
        BY <1>3, <3>2
      <4> QED BY <1>3, <2>1, <4>1, HiddenMore
    <3> QED BY <3>1, <3>2
  <2> QED BY <1>4, <1>5, <1>7, <2>1, <2>2 DEF Promised!Dirs
<1> QED BY <1>6, <1>7

(* It is not refused. *)
LEMMA NoRefusal ==
  ASSUME TypeOK, NEW list \in Lists, AtRest(list), Kept({}, {}), NEW w \in WalkSteps,
         Leads(disk, w.path, w.at - 1, w.dir), Promised!Certain,
         asked = Promised!PathRequest(w.call, w.path)
  PROVE  /\ Name(w) \notin Unreadable
         /\ ~ NoHit(w)
         /\ \A child : Hit(w, child) /\ disk[child].kind = "file" =>
              Last(w) /\ w.call = "openFile"
<1>1. w.path \in AnyPath /\ w.at - 1 \in Nat /\ w.dir \in Addr /\ w.at \in 1 .. Len(w.path)
      /\ Len(w.path) \in Nat /\ w.path # <<>> /\ w.call \in Lookups
  BY WalkIs
<1>2. DOMAIN settled.tree \subseteq Addr
  BY ChildHas
<1>3. /\ \A i \in 1 .. Len(w.path) : w.path[i] \notin Unreadable
      /\ ~ Promised!Hidden(w.path, Len(w.path) - 1)
      /\ w.call # "openFile" => ~ Promised!Hidden(w.path, Len(w.path))
      /\ \E n : Reaches(w.path, Len(w.path), n)
  <2>1. PICK call, path : call = w.call /\ path = w.path
    OBVIOUS
  <2>2. call \in Lookups /\ path \in AnyPath /\ path # <<>>
        /\ asked = Promised!PathRequest(call, path)
    BY <1>1, <2>1
  <2>3. /\ \A i \in 1 .. Len(path) : path[i] \notin Unreadable
        /\ ~ Promised!Hidden(path, Len(path) - 1)
        /\ call # "openFile" => ~ Promised!Hidden(path, Len(path))
        /\ \E n : Reaches(path, Len(path), n)
    BY <1>2, <2>2, CertainFinds
  <2> QED BY <2>1, <2>3
<1>4. Name(w) \notin Unreadable
  BY <1>1, <1>3 DEF Name
<1>5. ~ NoHit(w)
  <2>1. PICK n : Reaches(w.path, Len(w.path), n)
    BY <1>3
  <2>2. PICK path, j, x : path = w.path /\ j = w.at /\ x = w.dir
    OBVIOUS
  <2>3. path \in AnyPath /\ Reaches(path, Len(path), n) /\ j \in 1 .. Len(path)
        /\ ~ Promised!Hidden(path, Len(path) - 1) /\ Leads(disk, path, j - 1, x)
    BY <1>1, <1>3, <2>1, <2>2
  <2>4. PICK m \in Addr : /\ m # 0 /\ disk[m].name = path[j] /\ Reaches(path, j, m)
                          /\ \E i \in 1 .. Slots : disk[x].ptr[i] = m
                          /\ j = Len(path) => m = n
    BY <2>3, OnTheWay, Z3T(30)
  <2>5. PICK i \in 1 .. Slots : disk[x].ptr[i] = m
    BY <2>4
  <2> QED BY <2>2, <2>4, <2>5 DEF NoHit, Matches, Name
<1>6. ASSUME NEW child, Hit(w, child), disk[child].kind = "file"
      PROVE  Last(w) /\ w.call = "openFile"
  <2>1. Reaches(w.path, w.at, child)
    BY <1>6, HitReaches
  <2>2. child # 0
    BY <1>6, HitDir
  <2>3. PICK path, j : path = w.path /\ j = w.at
    OBVIOUS
  <2>4. ASSUME NEW k \in 0 .. Len(path), j <= k PROVE Promised!Hidden(path, k)
    <3>1. j \in 1 .. k /\ path \in AnyPath
      BY <1>1, <2>3, <2>4
    <3> QED BY <1>6, <2>1, <2>2, <2>3, <3>1, FileHides
  <2>5. Len(path) \in 0 .. Len(path) /\ (j # Len(path) => Len(path) - 1 \in 0 .. Len(path) /\ j <= Len(path) - 1)
    BY <1>1, <2>3
  <2>6. j = Len(path)
    BY <1>3, <2>3, <2>4, <2>5
  <2>7. Promised!Hidden(path, Len(path))
    BY <2>4, <2>5, <2>6
  <2> QED BY <1>3, <2>3, <2>6, <2>7 DEF Last
<1> QED BY <1>4, <1>5, <1>6

(* A path that leads to a directory goes on from where it has led so far.  *)
LEMMA OnLeads ==
  ASSUME NEW d, NEW path, NEW k \in Nat, NEW n, Leads(d, path, k, n),
         NEW j \in 1 .. k, NEW x, Leads(d, path, j - 1, x)
  PROVE  \E m \in Addr : Hop(d, x, path[j], m) /\ (j = k => m = n)
<1>1. PICK t \in [0 .. k -> Addr] : Trail(d, path, k, t) /\ t[k] = n
  BY DEF Leads
<1>2. j - 1 \in 0 .. k /\ j - 1 \in Nat /\ j \in 0 .. k
  OBVIOUS
<1>3. Leads(d, path, j - 1, t[j - 1])
  BY <1>1, <1>2, LeadsPrefix
<1>4. t[j - 1] = x
  BY <1>2, <1>3, LeadsOne
<1>5. Hop(d, t[j - 1], path[j], t[j]) /\ t[j] \in Addr
  BY <1>1, <1>2 DEF Trail
<1> QED BY <1>1, <1>4, <1>5

---------------------------------------------------------------------------
(* What is below a directory. *)

LEMMA BelowSelf ==
  ASSUME NEW d, d = 0 \/ d \in DOMAIN settled.tree PROVE d \in Promised!Below(d)
BY Ends DEF Promised!Below, Promised!Nodes

LEMMA BelowChild ==
  ASSUME NEW d, NEW x \in Promised!Below(d),
         NEW n \in DOMAIN settled.tree, settled.tree[n].dir = x
  PROVE  n \in Promised!Below(d)
BY DEF Promised!Below, Promised!Nodes

LEMMA BelowLeast ==
  ASSUME NEW d, NEW S, S \subseteq DOMAIN settled.tree \cup {0}, d \in S,
         \A n \in DOMAIN settled.tree : settled.tree[n].dir \in S => n \in S
  PROVE  Promised!Below(d) \subseteq S
BY Ends DEF Promised!Below, Promised!Nodes

---------------------------------------------------------------------------
(* The steps a call has left. *)

LEMMA WorkOn ==
  ASSUME NEW S, NEW s \in Seq(S), NEW a
  PROVE  /\ WorkOf(<<a>> \o s) = {a} \cup WorkOf(s)
         /\ s = <<>> => (<<a>> \o s)[Len(<<a>> \o s)] = a
         /\ s # <<>> => (<<a>> \o s)[Len(<<a>> \o s)] = s[Len(s)]
<1> DEFINE t == <<a>> \o s
<1>1. Len(t) = Len(s) + 1 /\ Len(s) \in Nat /\ t[1] = a
      /\ (\A j \in 1 .. Len(s) : t[j + 1] = s[j])
  BY OnTop
<1>2. s = <<>> <=> Len(s) = 0
  BY EmptyHasNone
<1> HIDE DEF t
<1>3. ASSUME NEW j \in 1 .. Len(t) PROVE t[j] \in {a} \cup WorkOf(s)
  <2>1. CASE j = 1
    BY <1>1, <2>1
  <2>2. CASE j # 1
    <3>1. j - 1 \in 1 .. Len(s) /\ (j - 1) + 1 = j
      BY <1>1, <2>2
    <3>2. t[j] = s[j - 1]
      BY <1>1, <3>1
    <3> QED BY <3>1, <3>2 DEF WorkOf
  <2> QED BY <2>1, <2>2
<1>4. ASSUME NEW x \in {a} \cup WorkOf(s) PROVE x \in WorkOf(t)
  <2>1. CASE x = a
    <3>1. 1 \in 1 .. Len(t)
      BY <1>1
    <3> QED BY <1>1, <2>1, <3>1 DEF WorkOf
  <2>2. CASE x \in WorkOf(s)
    <3>1. PICK j \in 1 .. Len(s) : x = s[j]
      BY <2>2 DEF WorkOf
    <3>2. j + 1 \in 1 .. Len(t) /\ t[j + 1] = x
      BY <1>1, <3>1
    <3> QED BY <3>2 DEF WorkOf
  <2> QED BY <2>1, <2>2
<1>5. WorkOf(t) = {a} \cup WorkOf(s)
  BY <1>3, <1>4 DEF WorkOf
<1>6. s = <<>> => t[Len(t)] = a
  BY <1>1, <1>2
<1>7. s # <<>> => t[Len(t)] = s[Len(s)]
  BY <1>1, <1>2
<1> QED BY <1>5, <1>6, <1>7 DEF t

---------------------------------------------------------------------------
(* Paths are no longer than there are directories. *)

LEMMA PathsEnd ==
  ASSUME NEW d, OneParent(d), NEW path, NEW k \in Nat, NEW n, Leads(d, path, k, n)
  PROVE  k < NumBlocks
<1>1. PICK t \in [0 .. k -> Addr] : Trail(d, path, k, t)
  BY DEF Leads
<1>2. \A i, j \in 0 .. k : t[i] = t[j] => i = j
  <2>1. SUFFICES ASSUME NEW i \in 0 .. k, NEW j \in 0 .. k, t[i] = t[j] PROVE i = j
    OBVIOUS
  <2>2. Leads(d, path, i, t[i]) /\ Leads(d, path, j, t[j])
    BY <1>1, LeadsPrefix
  <2>3. i \in Nat /\ j \in Nat
    OBVIOUS
  <2> QED BY <2>1, <2>2, <2>3, Depth
<1>3. SUFFICES ASSUME NumBlocks <= k PROVE FALSE
  OBVIOUS
<1>4. IsFiniteSet(0 .. k) /\ Cardinality(0 .. k) = k + 1
  BY FS_Interval
<1>5. IsFiniteSet(Addr) /\ Cardinality(Addr) = NumBlocks
  BY FS_Interval DEF Addr
<1> QED BY <1>1, <1>2, <1>3, <1>4, <1>5, FS_PigeonHole

(* The path of an entry of a directory, the first that is left. *)
LEMMA EntryLeads ==
  ASSUME NEW d, NEW path, Len(path) \in Nat, NEW x, Leads(d, path, Len(path), x),
         NEW i \in 1 .. Slots, \A j \in 1 .. Slots : j < i => d[x].ptr[j] = 0,
         NEW n \in Addr, d[x].ptr[i] = n, n # 0, d[n].kind = "dir",
         NEW longer, Len(longer) = Len(path) + 1, longer[Len(path) + 1] = d[n].name,
         \A j \in 1 .. Len(path) : longer[j] = path[j]
  PROVE  Leads(d, longer, Len(longer), n)
<1>1. PICK t \in [0 .. Len(path) -> Addr] : Trail(d, path, Len(path), t) /\ t[Len(path)] = x
  BY DEF Leads
<1>2. Trail(d, longer, Len(path), t)
  BY <1>1 DEF Trail
<1>3. Leads(d, longer, Len(path), x)
  BY <1>1, <1>2 DEF Leads
<1>4. PICK name : name = d[n].name
  OBVIOUS
<1>5. First(Named(d, x, name), i)
  BY <1>4 DEF First, Named
<1>6. Hop(d, x, longer[Len(path) + 1], n)
  BY <1>4, <1>5 DEF Hop
<1> QED BY <1>3, <1>6, LeadsOn

---------------------------------------------------------------------------
(* Disks stay readable. *)

LEMMA ReadableAs ==
  ASSUME NEW d, NEW e, DirsReadable(d), Bytes(d),
         \A b \in Addr :
           /\ e[b].kind = "dir" =>
                e[b].name \notin Unreadable \/ (d[b].kind = "dir" /\ e[b].name = d[b].name)
           /\ e[b].size # 0 => /\ e[b].size = d[b].size /\ e[b].kind = d[b].kind
                               /\ e[b].ptr = d[b].ptr
  PROVE  DirsReadable(e) /\ Bytes(e)
<1>1. DirsReadable(e)
  BY DEF DirsReadable
<1>2. Bytes(e)
  BY DEF Bytes
<1> QED BY <1>1, <1>2

LEMMA ReadableNext ==
  ASSUME NEW d, NEW e, DirsReadable(d), Bytes(d),
         \A b \in Addr : Alike(d[b], e[b]) /\ e[b].ptr = d[b].ptr
  PROVE  DirsReadable(e) /\ Bytes(e)
BY ReadableAs DEF Alike

LEMMA ReadableFreed ==
  ASSUME NEW d \in Disks, NEW e, DirsReadable(d), Bytes(d), NEW b \in Addr,
         e = FreedOn(d, b)
  PROVE  DirsReadable(e) /\ Bytes(e)
<1>1. \A c \in Addr \ {b} : e[c] = d[c]
  BY DEF FreedOn, Disks
<1>2. e[b].kind = "none" /\ e[b].size = 0
  BY DEF FreedOn, Disks, FreeBlk, Blank
<1>3. \A c \in Addr :
           /\ e[c].kind = "dir" =>
                e[c].name \notin Unreadable \/ (d[c].kind = "dir" /\ e[c].name = d[c].name)
           /\ e[c].size # 0 => /\ e[c].size = d[c].size /\ e[c].kind = d[c].kind
                               /\ e[c].ptr = d[c].ptr
  BY <1>1, <1>2
<1> QED BY <1>3, ReadableAs

(* A block that is freed is no file's any more, and no directory's. *)
LEMMA FreedShows ==
  ASSUME NEW d \in Disks, NEW e \in Disks, Shaped(d), Bytes(d), NEW b \in Addr, b # 0,
         e = FreedOn(d, b), NEW busy, b \in busy \/ d[b].type # "INODE",
         d[b].kind = "dir" => \A i \in 1 .. Slots : d[b].ptr[i] = 0,
         \A n \in Addr \ busy : d[n].kind = "file" => \A i \in 1 .. Slots : d[n].ptr[i] # b
  PROVE  Shows(d, e, busy)
<1>1. \A c \in Addr \ {b} : e[c] = d[c]
  BY DEF FreedOn, Disks
<1>2. e[b].kind = "none" /\ e[b].type = "FREE"
  BY DEF FreedOn, Disks, FreeBlk, Blank
<1>3. ASSUME NEW n \in Addr \ busy, n \in Inodes(d) \/ n \in Inodes(e)
      PROVE  /\ n # b /\ b \notin DirOf(d, n) /\ b \notin DirOf(e, n)
             /\ d[n].size # 0 => \A i \in 1 .. Slots : d[n].ptr[i] # b
  <2>1. n # b
    BY <1>2, <1>3 DEF Inodes
  <2>2. n # 0
    BY <1>1, <1>3, Ends DEF Shaped, Inodes
  <2>3. b \notin DirOf(d, n)
    BY <2>2, Ends DEF Shaped, DirOf
  <2>4. b \notin DirOf(e, n)
    BY <1>2 DEF DirOf
  <2>5. d[n].size # 0 => \A i \in 1 .. Slots : d[n].ptr[i] # b
    BY DEF Bytes
  <2> QED BY <2>1, <2>3, <2>4, <2>5
<1> QED BY <1>1, <1>3, BlockShows

---------------------------------------------------------------------------
HIDE Bounds

---------------------------------------------------------------------------
(* What each lemma about an action shows. *)

Good == Story' /\ [Promised!FSNext]_(Promised!fsVars)

(* A step that is not the last. *)
LEMMA Ongoing ==
  ASSUME Settle(asked), todo' # <<>>
  PROVE  settled' = settled /\ asked' = asked
BY DEF Settle

LEMMA StoryGoes ==
  ASSUME Story, Settle(asked), todo' # <<>>, mounted' = mounted,
         DirsReadable(disk'), Bytes(disk'), Erases' \/ Runs'
  PROVE  Good
<1>1. settled' = settled /\ asked' = asked
  BY Ongoing
<1>2. Readout'
  BY <1>1 DEF Story, Readout
<1>3. Story'
  BY <1>2 DEF Story, DirsReadable, Bytes
<1>4. UNCHANGED Promised!fsVars
  BY <1>1 DEF Promised!fsVars
<1> QED BY <1>3, <1>4 DEF Good

(* What is there when a call is over. *)
LEMMA TreeIs ==
  ASSUME NEW d
  PROVE  /\ DOMAIN Tree(d) = Inodes(d) /\ Inodes(d) \subseteq Addr
         /\ Tree(d) = [n \in DOMAIN Tree(d) |-> Tree(d)[n]]
         /\ \A n \in Inodes(d) : Tree(d)[n] = Node(d, n)
BY DEF Tree, Inodes

LEMMA Ended ==
  ASSUME NEW call, Settle(call), todo' = <<>>
  PROVE  /\ asked' = Promised!NoCall /\ Rests'
         /\ settled'.tree = Tree(disk') /\ settled'.fds = fd_table'
         /\ settled'.code = ret'.code
BY DEF Settle, Rests, Idle, Tree, Inodes, DirOf, Node, ByteAt

LEMMA StoryEnds ==
  ASSUME NEW call, Settle(call), todo' = <<>>, TypeOK', DirsReadable(disk'), Bytes(disk')
  PROVE  Story'
<1>1. Rests' /\ settled'.tree = Tree(disk') /\ settled'.fds = fd_table'
  BY Ended
<1>2. Readout'
  <2>1. DOMAIN Tree(disk') \subseteq Addr
        /\ Tree(disk') = [n \in DOMAIN Tree(disk') |-> Tree(disk')[n]]
    BY TreeIs
  <2>2. fd_table' \in [FDs -> Addr]
    BY DEF TypeOK
  <2>3. ASSUME NEW n \in DOMAIN Tree(disk')
        PROVE  LET node == Tree(disk')[n]
               IN  node = [kind |-> node.kind, name |-> node.name, dir |-> node.dir,
                           off |-> node.off, bytes |-> node.bytes]
    <3>1. PICK node : node = Node(disk', n)
      OBVIOUS
    <3>2. Tree(disk')[n] = node
      BY <3>1, TreeIs
    <3>3. node = [kind |-> node.kind, name |-> node.name, dir |-> node.dir,
                  off |-> node.off, bytes |-> node.bytes]
      BY <3>1 DEF Node
    <3> QED BY <3>2, <3>3
  <2> QED BY <1>1, <2>1, <2>2, <2>3 DEF Readout
<1> QED BY <1>1, <1>2 DEF Story, DirsReadable, Bytes

(* The three ways a step of FileSystem comes about. *)
LEMMA Asks ==
  ASSUME Story, Rests, NEW call, call \in Promised!Requests, Settle(call), todo' # <<>>,
         mounted' = mounted, DirsReadable(disk'), Bytes(disk'), Erases' \/ Runs'
  PROVE  Good
<1>1. settled' = settled /\ asked' = call
  BY DEF Settle
<1>2. Readout'
  BY <1>1 DEF Story, Readout
<1>3. Story'
  BY <1>2 DEF Story, DirsReadable, Bytes
<1>4. Promised!Ask
  BY <1>1 DEF Promised!Ask, Promised!state, Rests
<1> QED BY <1>3, <1>4 DEF Good, Promised!FSNext

LEMMA Returns ==
  ASSUME Story, Rests, NEW call, Settle(call), todo' = <<>>, TypeOK',
         DirsReadable(disk'), Bytes(disk'), asked' = asked => Promised!AtOnce
  PROVE  Good
<1>1. asked' = asked
  BY Ended DEF Rests
<1>2. Story'
  BY StoryEnds
<1> QED BY <1>1, <1>2 DEF Good, Promised!FSNext

LEMMA Answers ==
  ASSUME Story, asked # Promised!NoCall, NEW call, Settle(call), todo' = <<>>, TypeOK',
         DirsReadable(disk'), Bytes(disk'),
         asked' = Promised!NoCall => Promised!Answer
  PROVE  Good
<1>1. asked' = Promised!NoCall
  BY Ended
<1>2. Story'
  BY StoryEnds
<1> QED BY <1>1, <1>2 DEF Good, Promised!FSNext

LEMMA AnswersNow ==
  ASSUME Story, asked # Promised!NoCall, Settle(asked), todo' = <<>>, TypeOK',
         DirsReadable(disk'), Bytes(disk'), Promised!Answer
  PROVE  Good
<1>1. PICK call : call = asked
  OBVIOUS
<1>2. asked' = Promised!NoCall => Promised!Answer
  OBVIOUS
<1>3. Settle(call)
  BY <1>1
<1> QED BY <1>2, <1>3, Answers

LEMMA Refused ==
  ASSUME NEW call, Settle(call), todo' = <<>>, settled.tree = Tree(disk'),
         settled.fds = fd_table', mounted' = mounted, ret'.code < 0
  PROVE  Promised!Refuse
BY Ended DEF Promised!Refuse

(* At rest the disk is as it was settled. *)
LEMMA RestIs ==
  ASSUME Story, Ownership, Idle
  PROVE  /\ Rests /\ asked = Promised!NoCall /\ DirsReadable(disk) /\ Bytes(disk)
         /\ settled.tree = Tree(disk) /\ settled.fds = fd_table /\ Readout
         /\ Kept({}, {}) /\ Unopened({})
<1>1. Rests /\ DirsReadable(disk) /\ Bytes(disk) /\ Readout
  BY DEF Story, Idle, Erases, Formatting, Runs
<1>2. settled.tree = Tree(disk) /\ settled.fds = fd_table
  BY <1>1 DEF Rests
<1> QED BY <1>1, <1>2, TreeKept DEF Rests, Unopened

LEMMA ReturnedIs == ASSUME NEW code PROVE Returned(code).code = code
BY DEF Returned

---------------------------------------------------------------------------
(* The calls that return at once. *)

LEMMA StoryRefuse ==
  ASSUME Story, Ownership, TypeOK', NEW code, code < 0, Refuse(code),
         NEW call, Settle(call)
  PROVE  Good
<1>1. Idle /\ todo' = <<>> /\ disk' = disk /\ fd_table' = fd_table /\ mounted' = mounted
      /\ ret' = Returned(code)
  BY DEF Refuse, Return, process, Idle
<1>2. Rests /\ settled.tree = Tree(disk) /\ settled.fds = fd_table
      /\ asked = Promised!NoCall /\ DirsReadable(disk) /\ Bytes(disk)
  BY <1>1, RestIs
<1>3. Promised!Refuse
  BY <1>1, <1>2, Refused, ReturnedIs
<1>4. asked' = asked => Promised!AtOnce
  BY <1>2, <1>3 DEF Promised!AtOnce
<1> QED BY <1>1, <1>2, <1>4, Returns

LEMMA StoryMount ==
  ASSUME Story, Ownership, Inv, TypeOK', Mounts PROVE Good
<1>1. Idle /\ todo' = <<>> /\ disk' = disk /\ Settle(Promised!NoCall)
  BY DEF Mounts, Mount, MountOverflows, Die, Return, Idle, AtOnce
<1>2. Rests /\ settled.tree = Tree(disk) /\ settled.fds = fd_table
      /\ asked = Promised!NoCall /\ DirsReadable(disk) /\ Bytes(disk)
  BY <1>1, RestIs
<1>3. settled'.tree = settled.tree /\ settled'.fds = fd_table' /\ settled'.code = ret'.code
  BY <1>1, <1>2, Ended
<1>4. ~ mounted => fd_table = NoFds
  BY DEF Inv, UnmountedIsQuiet
<1>5. NoFds = Promised!NoHandles
  BY Ends DEF NoFds, Promised!NoHandles
<1>6. \/ mounted' = TRUE /\ fd_table' = NoFds /\ ret'.code = 0
      \/ mounted' = FALSE /\ fd_table' = NoFds /\ ret'.code <= 0
  <2>1. CASE Mount
    <3>1. PICK ok \in BOOLEAN : ok = (MountCheck(disk) = "ok")
      OBVIOUS
    <3>2. /\ mounted' = ok
          /\ fd_table' = IF mounted \/ ok THEN NoFds ELSE fd_table
          /\ ret' = Returned(IF ok THEN TFS_SUCCESS ELSE ERR_BAD_DISK)
      BY <2>1, <3>1 DEF Mount, Return
    <3> QED BY <1>4, <3>1, <3>2, ReturnedIs DEF TFS_SUCCESS, ERR_BAD_DISK
  <2>2. CASE MountOverflows
    BY <2>2, ReturnedIs DEF MountOverflows, Die, PENDING
  <2> QED BY <2>1, <2>2 DEF Mounts
<1>7. Promised!Attach \/ Promised!Detach
  BY <1>3, <1>5, <1>6 DEF Promised!Attach, Promised!Detach
<1>8. asked' = asked => Promised!AtOnce
  BY <1>2, <1>7 DEF Promised!AtOnce
<1> QED BY <1>1, <1>2, <1>8, Returns

LEMMA StoryUnmount ==
  ASSUME Story, Ownership, TypeOK', Unmounts PROVE Good
<1>0. Settle(Promised!NoCall)
  BY DEF Unmounts, AtOnce
<1>1. CASE Refuse(ERR_NO_DISK_MOUNTED)
  BY <1>0, <1>1, StoryRefuse DEF ERR_NO_DISK_MOUNTED
<1>2. CASE ~ Refuse(ERR_NO_DISK_MOUNTED)
  <2>1. Idle /\ todo' = <<>> /\ disk' = disk /\ mounted' = FALSE /\ fd_table' = NoFds
        /\ ret' = Returned(TFS_SUCCESS)
    BY <1>2 DEF Unmounts, Unmount, Return, Idle
  <2>2. Rests /\ settled.tree = Tree(disk) /\ settled.fds = fd_table
        /\ asked = Promised!NoCall /\ DirsReadable(disk) /\ Bytes(disk)
    BY <2>1, RestIs
  <2>3. settled'.tree = settled.tree /\ settled'.fds = NoFds /\ settled'.code = 0
    BY <1>0, <2>1, <2>2, Ended, ReturnedIs DEF TFS_SUCCESS
  <2>4. Promised!Detach
    BY <2>1, <2>3, Ends DEF Promised!Detach, Promised!NoHandles, NoFds
  <2>5. asked' = asked => Promised!AtOnce
    BY <2>2, <2>4 DEF Promised!AtOnce
  <2> QED BY <1>0, <2>1, <2>2, <2>5, Returns
<1> QED BY <1>1, <1>2

LEMMA StoryClose ==
  ASSUME Story, Ownership, TypeOK', NEW fd \in FDs, Closes(fd) PROVE Good
<1>0. Settle(Promised!NoCall)
  BY DEF Closes, AtOnce
<1>1. CASE Refuse(ERR_INVALID_FD)
  BY <1>0, <1>1, StoryRefuse DEF ERR_INVALID_FD
<1>2. CASE ~ Refuse(ERR_INVALID_FD)
  <2>1. Idle /\ todo' = <<>> /\ disk' = disk /\ mounted' = mounted /\ fd_table[fd] # 0
        /\ fd_table' = [fd_table EXCEPT ![fd] = 0] /\ ret' = Returned(TFS_SUCCESS)
    BY <1>2 DEF Closes, CloseFile, Return, Idle
  <2>2. Rests /\ settled.tree = Tree(disk) /\ settled.fds = fd_table
        /\ asked = Promised!NoCall /\ DirsReadable(disk) /\ Bytes(disk)
    BY <2>1, RestIs
  <2>3. settled'.tree = settled.tree /\ settled'.fds = fd_table' /\ settled'.code = 0
    BY <1>0, <2>1, <2>2, Ended, ReturnedIs DEF TFS_SUCCESS
  <2>4. Promised!Close(fd)
    BY <2>1, <2>2, <2>3, Ends DEF Promised!Close, Promised!Succeeds
  <2>5. asked' = asked => Promised!AtOnce
    BY <2>2, <2>4 DEF Promised!AtOnce
  <2> QED BY <1>0, <2>1, <2>2, <2>5, Returns
<1> QED BY <1>1, <1>2

---------------------------------------------------------------------------
(* The calls that change the inode of an open file. *)

WithThese(node, name, off) ==
  [kind |-> node.kind, name |-> name, dir |-> node.dir, off |-> off, bytes |-> node.bytes]

LEMMA NodeWith ==
  ASSUME NEW d, NEW n, NEW node, node = Node(d, n)
  PROVE  /\ \A off : [node EXCEPT !.off = off] = WithThese(node, node.name, off)
         /\ \A name : [node EXCEPT !.name = name] = WithThese(node, name, node.off)
<1>1. PICK a, b, c, x, y : node = [kind |-> a, name |-> x, dir |-> b, off |-> y, bytes |-> c]
  BY DEF Node
<1>2. ASSUME NEW off PROVE [node EXCEPT !.off = off] = WithThese(node, node.name, off)
  BY <1>1 DEF WithThese
<1>3. ASSUME NEW name PROVE [node EXCEPT !.name = name] = WithThese(node, name, node.off)
  BY <1>1 DEF WithThese
<1> QED BY <1>2, <1>3

(* The call changes no more than the name and the offset of the file.      *)
Touches(fd, n) ==
  /\ Idle /\ todo' = <<>>
  /\ mounted /\ mounted' = mounted
  /\ n = fd_table[fd] /\ n # 0 /\ fd_table' = fd_table
  /\ ret'.code = 0
  /\ \A b \in Addr \ {n} : disk'[b] = disk[b]
  /\ disk'[n].type = disk[n].type /\ disk'[n].kind = disk[n].kind
  /\ disk'[n].size = disk[n].size /\ disk'[n].ptr = disk[n].ptr
  /\ disk'[n].data = disk[n].data

Touching(fd, n) ==
  /\ Promised!OnFile(fd) /\ n \in DOMAIN settled.tree
  /\ settled.tree[n] = Node(disk, n) /\ disk[n].kind = "file"
  /\ DirsReadable(disk') /\ Bytes(disk')
  /\ Promised!Change(fd, WithThese(settled.tree[n], disk'[n].name, disk'[n].off))

LEMMA Touched ==
  ASSUME Story, Ownership, Inv, TypeOK', NEW fd \in FDs, NEW n, Touches(fd, n),
         NEW call, Settle(call)
  PROVE  Touching(fd, n)
<1>0. /\ Idle /\ todo' = <<>> /\ mounted /\ mounted' = mounted
      /\ n = fd_table[fd] /\ n # 0 /\ fd_table' = fd_table /\ ret'.code = 0
      /\ \A b \in Addr \ {n} : disk'[b] = disk[b]
      /\ disk'[n].type = disk[n].type /\ disk'[n].kind = disk[n].kind
      /\ disk'[n].size = disk[n].size /\ disk'[n].ptr = disk[n].ptr
      /\ disk'[n].data = disk[n].data
  BY DEF Touches
<1>1. PICK list \in Lists : AtRest(list)
  BY <1>0, WhereIdle
<1>2. /\ Rests /\ settled.tree = Tree(disk) /\ settled.fds = fd_table
      /\ DirsReadable(disk) /\ Bytes(disk) /\ Kept({}, {}) /\ Readout
  BY <1>0, RestIs
<1>3. TypeOK
  BY DEF Inv
<1>4. disk \in Disks /\ Owns(disk, {}, {}, list) /\ Shaped(disk)
      /\ OnFiles(disk, fd_table, {})
  BY <1>1, <1>3, RestOf DEF AtRest
<1>5. disk' \in Disks
  BY DEF TypeOK, Disks
<1>6. n \in Addr /\ disk[n].kind = "file"
  BY <1>0, <1>3, <1>4 DEF OnFiles, TypeOK
<1>7. disk[n].type = "INODE"
  BY <1>0, <1>4, <1>6, Ends DEF Shaped
<1>8. n \in Inodes(disk)
  BY <1>4, <1>6, <1>7, NodesAre
<1>9. n \in DOMAIN settled.tree /\ settled.tree[n] = Node(disk, n)
  BY <1>8 , <1>2, TreeIs
<1>10. \A b \in Addr : /\ disk'[b].type = disk[b].type /\ disk'[b].kind = disk[b].kind
                       /\ disk'[b].size = disk[b].size /\ disk'[b].ptr = disk[b].ptr
                       /\ disk'[b].data = disk[b].data
  BY <1>0, <1>6
<1>11. \A m : DirOf(disk', m) = DirOf(disk, m)
  BY <1>10 DEF DirOf
<1>12. Inodes(disk') = Inodes(disk)
  BY <1>10, <1>11 DEF Inodes
<1>13. ASSUME NEW m \in Addr PROVE Node(disk', m).bytes = Node(disk, m).bytes
  <2>1. \A i \in 1 .. Slots : disk[m].ptr[i] \in Addr
    BY <1>4, DiskFields
  <2> QED BY <1>4, <1>5, <1>10, <2>1, BytesStay
<1>14. \A m \in Addr \ {n} : Node(disk', m) = Node(disk, m)
  <2>1. TAKE m \in Addr \ {n}
  <2>2. \A f : Node(f, m) = [kind |-> f[m].kind, name |-> f[m].name, dir |-> MinOf(DirOf(f, m)),
                             off |-> f[m].off, bytes |-> Node(f, m).bytes]
    BY DEF Node
  <2> QED BY <1>0, <1>11, <1>13, <2>2
<1>15. Node(disk', n) = WithThese(Node(disk, n), disk'[n].name, disk'[n].off)
  <2>1. \A f : Node(f, n) = [kind |-> f[n].kind, name |-> f[n].name, dir |-> MinOf(DirOf(f, n)),
                             off |-> f[n].off, bytes |-> Node(f, n).bytes]
    BY DEF Node
  <2>2. Node(disk', n).bytes = Node(disk, n).bytes /\ DirOf(disk', n) = DirOf(disk, n)
        /\ disk'[n].kind = disk[n].kind
    BY <1>6, <1>10, <1>11, <1>13
  <2>3. Node(disk, n).kind = disk[n].kind /\ Node(disk, n).dir = MinOf(DirOf(disk, n))
    BY DEF Node
  <2> QED BY <2>1, <2>2, <2>3 DEF WithThese
<1>16. DirsReadable(disk') /\ Bytes(disk')
  <2>1. \A b \in Addr : disk'[b].kind = "dir" => disk'[b].name = disk[b].name
    BY <1>0, <1>6, <1>10
  <2> QED BY <1>2, <1>10, <2>1, ReadableAs
<1>17. settled'.tree = Tree(disk') /\ settled'.fds = fd_table' /\ settled'.code = 0
  BY <1>0, Ended
<1>18. Promised!OnFile(fd)
  BY <1>0, <1>2, Ends DEF Promised!OnFile
<1>19. Promised!Change(fd, WithThese(settled.tree[n], disk'[n].name, disk'[n].off))
  <2> DEFINE node == WithThese(settled.tree[n], disk'[n].name, disk'[n].off)
  <2>0. Node(disk', n) = node
    BY <1>9, <1>15
  <2> HIDE DEF node
  <2>1. Tree(disk') = [settled.tree EXCEPT ![n] = node]
    <3>1. \A m \in Inodes(disk) : Tree(disk')[m] = IF m = n THEN node ELSE settled.tree[m]
      <4>1. TAKE m \in Inodes(disk)
      <4>2. m \in Addr /\ Tree(disk')[m] = Node(disk', m) /\ settled.tree[m] = Node(disk, m)
        BY <1>2, <1>12, TreeIs
      <4> QED BY <1>0, <1>14, <2>0, <4>2
    <3>2. Tree(disk') = [m \in Inodes(disk) |-> Tree(disk')[m]]
      BY <1>12, TreeIs
    <3>3. DOMAIN settled.tree = Inodes(disk)
      BY <1>2, TreeIs
    <3>4. [settled.tree EXCEPT ![n] = node] =
            [m \in DOMAIN settled.tree |-> IF m = n THEN node ELSE settled.tree[m]]
      OBVIOUS
    <3> QED BY <3>1, <3>2, <3>3, <3>4
  <2>2. settled.fds[fd] = n
    BY <1>0, <1>2
  <2>3. Promised!Change(fd, node)
    BY <1>0, <1>2, <1>17, <1>18, <2>1, <2>2 DEF Promised!Change, Promised!Succeeds
  <2> QED BY <2>3 DEF node
<1> QED BY <1>6, <1>9, <1>16, <1>18, <1>19 DEF Touching

LEMMA StoryOffset ==
  ASSUME Story, Ownership, Inv, TypeOK', Idle, NEW fd \in FDs, NEW n, n = fd_table[fd],
         n # 0, mounted, todo' = <<>>, mounted' = mounted, fd_table' = fd_table,
         ret'.code = 0, NEW call, Settle(call),
         NEW o \in 0 .. disk[n].size, disk' = [disk EXCEPT ![n].off = o]
  PROVE  Good
<1>1. TypeOK /\ n \in Addr /\ disk \in Disks
  BY DEF Inv, TypeOK, Disks
<1>2. disk[n] \in Sized
  BY <1>1, DiskFields
<1>3. PICK blk : blk = disk[n]
  OBVIOUS
<1>4. (\A b \in Addr \ {n} : disk'[b] = disk[b]) /\ disk'[n] = [blk EXCEPT !.off = o]
  BY <1>1, <1>3 DEF Disks
<1>5. disk'[n].type = disk[n].type /\ disk'[n].kind = disk[n].kind
      /\ disk'[n].name = disk[n].name /\ disk'[n].size = disk[n].size
      /\ disk'[n].ptr = disk[n].ptr /\ disk'[n].data = disk[n].data /\ disk'[n].off = o
  BY <1>2, <1>3, <1>4 DEF Sized, Block
<1>6. /\ Promised!OnFile(fd) /\ n \in DOMAIN settled.tree
      /\ settled.tree[n] = Node(disk, n) /\ disk[n].kind = "file"
      /\ DirsReadable(disk') /\ Bytes(disk')
      /\ Promised!Change(fd, WithThese(settled.tree[n], disk'[n].name, disk'[n].off))
  <2>1. Touches(fd, n)
    BY <1>4, <1>5 DEF Touches
  <2>2. Touching(fd, n)
    BY <2>1, Touched
  <2> QED BY <2>2 DEF Touching
<1>7. PICK node : node = settled.tree[n]
  OBVIOUS
<1>8. Promised!File(fd) = node
  BY <1>7, RestIs DEF Promised!File
<1>9. [node EXCEPT !.off = o] = WithThese(settled.tree[n], disk'[n].name, disk'[n].off)
  <2>1. node.name = disk[n].name
    BY <1>6, <1>7 DEF Node
  <2>2. [node EXCEPT !.off = o] = WithThese(node, node.name, o)
    BY <1>6, <1>7, NodeWith
  <2> QED BY <1>5, <1>7, <2>1, <2>2
<1>10. Promised!Change(fd, [node EXCEPT !.off = o])
  BY <1>6, <1>9
<1>11. Promised!MoveTo(fd, o)
  BY <1>8, <1>10 DEF Promised!MoveTo
<1>12. o \in 0 .. Len(Promised!File(fd).bytes)
  <2>1. disk[n].size \in Nat
    BY <1>2 DEF Sized, Block
  <2>2. PICK size, f : size = disk[n].size /\ f = [p \in 1 .. size |-> ByteAt(disk, disk[n], p - 1)]
    OBVIOUS
  <2>3. node.bytes = f
    BY <1>6, <1>7, <2>2 DEF Node
  <2>4. Len(f) = size
    BY <2>1, <2>2
  <2> QED BY <1>8, <2>2, <2>3, <2>4
<1>13. Rests /\ asked = Promised!NoCall
  BY RestIs
<1>14. asked' = asked => Promised!AtOnce
  BY <1>6, <1>11, <1>12, <1>13 DEF Promised!AtOnce
<1> QED BY <1>6, <1>13, <1>14, Returns

LEMMA StoryNotReady ==
  ASSUME Story, Ownership, TypeOK', NEW fd, NotReady(fd), NEW call, Settle(call)
  PROVE  Good
BY StoryRefuse DEF NotReady, ERR_NO_DISK_MOUNTED, ERR_INVALID_FD

LEMMA StorySeek ==
  ASSUME Story, Ownership, Inv, TypeOK', NEW fd \in FDs, NEW offset, offset \in Int,
         Seeks(fd, offset)
  PROVE  Good
<1>1. Seek(fd, offset) /\ Settle(Promised!NoCall)
  BY DEF Seeks, AtOnce
<1>2. CASE NotReady(fd)
  BY <1>1, <1>2, StoryNotReady
<1>3. CASE Refuse(ERR_INVALID_INPUT) \/ Refuse(ERR_FILE_PNTR_OUT_OF_BOUNDS)
  BY <1>1, <1>3, StoryRefuse DEF ERR_INVALID_INPUT, ERR_FILE_PNTR_OUT_OF_BOUNDS
<1>4. CASE ~ (NotReady(fd) \/ Refuse(ERR_INVALID_INPUT) \/ Refuse(ERR_FILE_PNTR_OUT_OF_BOUNDS))
  <2>1. PICK n : n = fd_table[fd]
    OBVIOUS
  <2>2. /\ mounted /\ n # 0 /\ offset >= 0 /\ offset <= disk[n].size
        /\ disk' = [disk EXCEPT ![n].off = offset]
        /\ Idle /\ ret' = Returned(TFS_SUCCESS) /\ todo' = <<>>
        /\ mounted' = mounted /\ fd_table' = fd_table
    BY <1>1, <1>4, <2>1 DEF Seek, Ready, Return, process, Idle
  <2>3. ret'.code = 0
    BY <2>2, ReturnedIs DEF TFS_SUCCESS
  <2>4. n \in Addr /\ disk \in Disks
    BY <2>1 DEF Inv, TypeOK, Disks
  <2>5. offset \in 0 .. disk[n].size
    <3>1. disk[n].size \in Nat
      BY <2>4 DEF Disks, Sized, Block
    <3> QED BY <2>2, <3>1
  <2> QED BY <1>1, <2>1, <2>2, <2>3, <2>5, StoryOffset
<1> QED BY <1>2, <1>3, <1>4

LEMMA StoryRead ==
  ASSUME Story, Ownership, Inv, TypeOK', NEW fd \in FDs, Reads(fd)
  PROVE  Good
<1>1. ReadByte(fd) /\ Settle(Promised!NoCall)
  BY DEF Reads, AtOnce
<1>2. CASE NotReady(fd)
  BY <1>1, <1>2, StoryNotReady
<1>3. CASE Refuse(ERR_FILE_PNTR_OUT_OF_BOUNDS)
  BY <1>1, <1>3, StoryRefuse DEF ERR_FILE_PNTR_OUT_OF_BOUNDS
<1>4. CASE ~ (NotReady(fd) \/ Refuse(ERR_FILE_PNTR_OUT_OF_BOUNDS))
  <2>1. PICK n, o : n = fd_table[fd] /\ o = disk[n].off + 1
    OBVIOUS
  <2>2. /\ mounted /\ n # 0 /\ disk[n].off < disk[n].size
        /\ disk' = [disk EXCEPT ![n].off = o]
        /\ Idle /\ todo' = <<>> /\ ret'.code = 0
        /\ mounted' = mounted /\ fd_table' = fd_table
    BY <1>1, <1>4, <2>1 DEF ReadByte, Ready, process, Idle, TFS_SUCCESS
  <2>4. n \in Addr /\ disk \in Disks
    BY <2>1 DEF Inv, TypeOK, Disks
  <2>5. o \in 0 .. disk[n].size
    <3>1. disk[n].size \in Nat /\ disk[n].off \in Nat
      BY <2>4 DEF Disks, Sized, Block
    <3> QED BY <2>1, <2>2, <3>1
  <2> QED BY <1>1, <2>1, <2>2, <2>5, StoryOffset
<1> QED BY <1>2, <1>3, <1>4

LEMMA StoryRename ==
  ASSUME Story, Ownership, Inv, TypeOK', NEW fd \in FDs, NEW name \in Names,
         Renames(fd, name)
  PROVE  Good
<1>1. Rename(fd, name) /\ Settle(Promised!NoCall)
  BY DEF Renames, AtOnce
<1>2. CASE NotReady(fd)
  BY <1>1, <1>2, StoryNotReady
<1>3. CASE Refuse(ERR_INVALID_INPUT)
  BY <1>1, <1>3, StoryRefuse DEF ERR_INVALID_INPUT
<1>4. CASE ~ (NotReady(fd) \/ Refuse(ERR_INVALID_INPUT))
  <2>1. PICK n : n = fd_table[fd]
    OBVIOUS
  <2>2. /\ mounted /\ n # 0
        /\ disk' = [disk EXCEPT ![n].name = name]
        /\ Idle /\ ret' = Returned(TFS_SUCCESS) /\ todo' = <<>>
        /\ mounted' = mounted /\ fd_table' = fd_table
    BY <1>1, <1>4, <2>1 DEF Rename, Ready, Return, process, Idle
  <2>3. ret'.code = 0
    BY <2>2, ReturnedIs DEF TFS_SUCCESS
  <2>4. n \in Addr /\ disk \in Disks
    BY <2>1 DEF Inv, TypeOK, Disks
  <2>5. disk[n] \in Sized
    BY <2>4, DiskFields
  <2>6. PICK blk : blk = disk[n]
    OBVIOUS
  <2>7. (\A b \in Addr \ {n} : disk'[b] = disk[b]) /\ disk'[n] = [blk EXCEPT !.name = name]
    BY <2>2, <2>4, <2>6 DEF Disks
  <2>8. disk'[n].type = disk[n].type /\ disk'[n].kind = disk[n].kind
        /\ disk'[n].name = name /\ disk'[n].size = disk[n].size
        /\ disk'[n].ptr = disk[n].ptr /\ disk'[n].data = disk[n].data
        /\ disk'[n].off = disk[n].off
    BY <2>5, <2>6, <2>7 DEF Sized, Block
  <2>9. /\ n \in DOMAIN settled.tree
        /\ settled.tree[n] = Node(disk, n)
        /\ DirsReadable(disk') /\ Bytes(disk')
        /\ Promised!Change(fd, WithThese(settled.tree[n], disk'[n].name, disk'[n].off))
    <3>1. Touches(fd, n)
      BY <2>1, <2>2, <2>3, <2>7, <2>8 DEF Touches
    <3>2. Touching(fd, n)
      BY <1>1, <3>1, Touched
    <3> QED BY <3>2 DEF Touching
  <2>10. PICK node : node = settled.tree[n]
    OBVIOUS
  <2>11. Promised!File(fd) = node
    BY <2>1, <2>2, <2>10, RestIs DEF Promised!File
  <2>12. [node EXCEPT !.name = name] = WithThese(settled.tree[n], disk'[n].name, disk'[n].off)
    <3>1. node.off = disk[n].off
      BY <2>9, <2>10 DEF Node
    <3> QED BY <2>8, <2>9, <2>10, <3>1, NodeWith
  <2>13. Promised!Change(fd, [node EXCEPT !.name = name])
    BY <2>9, <2>12
  <2>14. Promised!SetName(fd, name)
    BY <2>11, <2>13 DEF Promised!SetName
  <2>15. Rests /\ asked = Promised!NoCall
    BY <2>2, RestIs
  <2>16. asked' = asked => Promised!AtOnce
    BY <2>14, <2>15 DEF Promised!AtOnce
  <2> QED BY <1>1, <2>2, <2>9, <2>15, <2>16, Returns
<1> QED BY <1>2, <1>3, <1>4

---------------------------------------------------------------------------
(* Formatting. *)

LEMMA StoryMkfs ==
  ASSUME Story, Ownership, TypeOK', Formats PROVE Good
<1>1. Mkfs /\ Settle(Promised!FormatRequest)
  BY DEF Formats
<1>2. Idle /\ todo' = <<FormatAt(1)>> /\ disk' = [b \in Addr |-> Blank]
      /\ mounted' = mounted /\ fd_table' = fd_table
  BY <1>1 DEF Mkfs, Begin, process
<1>3. Rests /\ settled.fds = fd_table
  BY <1>2, RestIs
<1>4. todo' # <<>> /\ Head(todo').op = "format"
  BY <1>2 DEF FormatAt
<1>5. settled' = settled /\ asked' = Promised!FormatRequest
  BY <1>1, <1>4 DEF Settle
<1>6. Erases'
  BY <1>2, <1>3, <1>4, <1>5 DEF Erases, Formatting, Promised!FormatRequest
<1>7. DirsReadable(disk') /\ Bytes(disk')
  BY <1>2 DEF DirsReadable, Bytes, Blank
<1>8. Promised!FormatRequest \in Promised!Requests
  BY DEF Promised!Requests
<1> QED BY <1>1, <1>2, <1>3, <1>4, <1>6, <1>7, <1>8, Asks

LEMMA Unformatted ==
  ASSUME NEW b, b = Blank \/ (\E i : b = FormatBlk(i)) \/ b = FormatSuper
  PROVE  b.kind = "none" /\ b.size = 0 /\ b.type # "INODE"
<1>1. CASE b = Blank
  BY <1>1 DEF Blank
<1>2. CASE \E i : b = FormatBlk(i)
  <2>1. PICK n : b = FreeBlk(n)
    BY <1>2 DEF FormatBlk
  <2> QED BY <2>1 DEF FreeBlk, Blank
<1>3. CASE b = FormatSuper
  <2>1. PICK n : b = SuperBlk(n)
    BY <1>3 DEF FormatSuper
  <2> QED BY <2>1 DEF SuperBlk, Blank
<1> QED BY <1>1, <1>2, <1>3

LEMMA StoryFormat ==
  ASSUME Story, Ownership, TypeOK', Format, Settle(asked) PROVE Good
<1>1. AtFormat
  BY WhereFormat DEF Format
<1>2. PICK i \in 1 .. NumBlocks :
        /\ todo = <<FormatAt(i)>>
        /\ ~ mounted
        /\ \A b \in Addr : disk[b] = IF b \in 1 .. i - 1 THEN FormatBlk(b) ELSE Blank
  BY <1>1 DEF AtFormat
<1>3. Head(todo) = FormatAt(i) /\ Tail(todo) = <<>> /\ todo # <<>>
  BY <1>2
<1>4. Erases
  BY <1>2, <1>3 DEF Story, Rests, Idle, Runs
<1>5. mounted' = mounted /\ fd_table' = fd_table
  BY DEF Format, process
<1>6. \A b \in Addr : disk'[b] = Blank \/ (\E j : disk'[b] = FormatBlk(j)) \/ disk'[b] = FormatSuper
  <2>1. PICK c, blk : /\ blk = FormatSuper \/ (\E j : blk = FormatBlk(j))
                      /\ disk' = [disk EXCEPT ![c] = blk]
    BY <1>3 DEF Format, FormatAt
  <2>2. DOMAIN disk' = Addr
    BY DEF TypeOK
  <2>3. DOMAIN disk = Addr
    BY <2>1, <2>2
  <2>4. \A b \in Addr : disk'[b] = disk[b] \/ disk'[b] = blk
    BY <2>1, <2>3
  <2> QED BY <1>2, <2>1, <2>4
<1>7. \A b \in Addr : disk'[b].kind = "none" /\ disk'[b].size = 0 /\ disk'[b].type # "INODE"
  BY <1>6, Unformatted
<1>8. DirsReadable(disk') /\ Bytes(disk')
  BY <1>7 DEF DirsReadable, Bytes
<1>9. CASE i < NumBlocks
  <2>0. Head(todo).at = i
    BY <1>3 DEF FormatAt
  <2>1. todo' = <<FormatAt(i + 1)>> \o <<>>
    <3>1. Resume(<<FormatAt(i + 1)>>)
      BY <1>9, <2>0 DEF Format
    <3> QED BY <1>3, <3>1 DEF Resume
  <2>2. todo' = <<FormatAt(i + 1)>>
    BY <2>1, Alone
  <2>3. todo' # <<>> /\ Head(todo').op = "format"
    BY <2>2 DEF FormatAt
  <2>4. settled' = settled /\ asked' = asked
    BY <2>3, Ongoing
  <2>5. Erases'
    BY <1>4, <1>5, <2>3, <2>4 DEF Erases, Formatting
  <2> QED BY <1>5, <1>8, <2>3, <2>5, StoryGoes
<1>10. CASE i = NumBlocks
  <2>1. Resume(<<>>)
    BY <1>3, <1>10 DEF Format, FormatAt
  <2>2. todo' = <<>> /\ ret' = Returned(TFS_SUCCESS)
    BY <1>3, <2>1 DEF Resume
  <2>3. Inodes(disk') = {}
    BY <1>7 DEF Inodes
  <2>4. settled'.tree = Tree(disk') /\ settled'.fds = fd_table' /\ settled'.code = 0
        /\ asked' = Promised!NoCall
    BY <2>2, Ended, ReturnedIs DEF TFS_SUCCESS
  <2>5. Tree(disk') = Promised!NoTree
    BY <2>3 DEF Tree, Promised!NoTree
  <2>6. Promised!Clear
    BY <1>2, <1>4, <1>5, <2>4, <2>5 DEF Promised!Clear, Promised!Succeeds, Erases
  <2>7. asked # Promised!NoCall /\ asked.op = "mkfs"
    BY <1>4 DEF Erases, Promised!FormatRequest, Promised!NoCall
  <2>8. Promised!Answer
    BY <2>4, <2>6, <2>7 DEF Promised!Answer
  <2> QED BY <1>8, <2>2, <2>7, <2>8, AnswersNow
<1> QED BY <1>9, <1>10, Bounds

---------------------------------------------------------------------------
(* Work on work: what is left, and what comes last. *)

EndOf(steps) == steps[Len(steps)]

LEMMA PushWork ==
  ASSUME NEW T, NEW t \in Seq(T), NEW x \in T, NEW u, u = <<x>> \o t
  PROVE  /\ u \in Seq(T) /\ u # <<>>
         /\ WorkOf(u) = {x} \cup WorkOf(t)
         /\ EndOf(u) = IF t = <<>> THEN x ELSE EndOf(t)
<1>1. /\ WorkOf(<<x>> \o t) = {x} \cup WorkOf(t)
      /\ t = <<>> => (<<x>> \o t)[Len(<<x>> \o t)] = x
      /\ t # <<>> => (<<x>> \o t)[Len(<<x>> \o t)] = t[Len(t)]
  BY WorkOn
<1>2. <<x>> \o t \in Seq(T) /\ <<x>> \o t # <<>>
  BY OnTop
<1> QED BY <1>1, <1>2 DEF EndOf

Tellings(s, a, b, c, f) ==
  /\ WorkOf(<<a>> \o s) = {a} \cup WorkOf(s)
  /\ WorkOf(<<a, b>> \o s) = {a, b} \cup WorkOf(s)
  /\ WorkOf(<<a, b, c>> \o s) = {a, b, c} \cup WorkOf(s)
  /\ WorkOf(<<a, b, c, f>> \o s) = {a, b, c, f} \cup WorkOf(s)
  /\ EndOf(<<a>> \o s) = IF s = <<>> THEN a ELSE EndOf(s)
  /\ EndOf(<<a, b>> \o s) = IF s = <<>> THEN b ELSE EndOf(s)
  /\ EndOf(<<a, b, c>> \o s) = IF s = <<>> THEN c ELSE EndOf(s)
  /\ EndOf(<<a, b, c, f>> \o s) = IF s = <<>> THEN f ELSE EndOf(s)

LEMMA Works ==
  ASSUME NEW s \in Stacks, NEW a, NEW b, NEW c, NEW f
  PROVE  Tellings(s, a, b, c, f)
<1> DEFINE S == {r \in ScanSteps : r.op = "rewrite"}
           T == S \cup {a, b, c, f}
<1>1. s \in Seq(S)
  BY DEF Stacks
<1>2. s \in Seq(T)
  <2>1. S \subseteq T
    OBVIOUS
  <2> HIDE DEF S, T
  <2> QED BY <1>1, <2>1
<1>3. a \in T /\ b \in T /\ c \in T /\ f \in T
  OBVIOUS
<1> HIDE DEF S, T
<1> DEFINE Tells(u, W, z) == /\ u \in Seq(T) /\ u # <<>> /\ WorkOf(u) = W \cup WorkOf(s)
                             /\ EndOf(u) = IF s = <<>> THEN z ELSE EndOf(s)
<1>4. ASSUME NEW x \in T PROVE Tells(<<x>> \o s, {x}, x)
  <2>1. PICK u : u = <<x>> \o s
    OBVIOUS
  <2> QED BY <1>2, <2>1, PushWork
<1>5. ASSUME NEW x \in T, NEW t, NEW W, NEW z, Tells(t, W, z), NEW u, u = <<x>> \o t
      PROVE  Tells(u, {x} \cup W, z)
  <2>1. t \in Seq(T) /\ t # <<>>
    BY <1>5
  <2>2. u \in Seq(T) /\ u # <<>> /\ WorkOf(u) = {x} \cup WorkOf(t) /\ EndOf(u) = EndOf(t)
    <3> HIDE DEF Tells
    <3> QED BY <1>5, <2>1, PushWork
  <2> QED BY <1>5, <2>2
<1> HIDE DEF Tells
<1>6. ASSUME NEW x, NEW y PROVE <<x, y>> \o s = <<x>> \o (<<y>> \o s)
  BY <1>1, TwoOnTop
<1>7. ASSUME NEW x, NEW y, NEW z PROVE <<x, y, z>> \o s = <<x>> \o (<<y, z>> \o s)
  BY <1>1, ThreeOnTop
<1>8. ASSUME NEW x, NEW y, NEW z, NEW v
      PROVE  <<x, y, z, v>> \o s = <<x>> \o (<<y, z, v>> \o s)
  BY <1>1, FourOnTop
<1>9. ASSUME NEW x \in T, NEW y \in T PROVE Tells(<<x, y>> \o s, {x} \cup {y}, y)
  <2>1. PICK t, u : t = <<y>> \o s /\ u = <<x, y>> \o s
    OBVIOUS
  <2>2. Tells(t, {y}, y) /\ u = <<x>> \o t
    BY <1>4, <1>6, <2>1
  <2> QED BY <1>5, <2>1, <2>2
<1>10. ASSUME NEW x \in T, NEW y \in T, NEW z \in T
       PROVE  Tells(<<x, y, z>> \o s, {x} \cup ({y} \cup {z}), z)
  <2>1. PICK t, u : t = <<y, z>> \o s /\ u = <<x, y, z>> \o s
    OBVIOUS
  <2>2. Tells(t, {y} \cup {z}, z) /\ u = <<x>> \o t
    BY <1>7, <1>9, <2>1
  <2> QED BY <1>5, <2>1, <2>2
<1>11. Tells(<<a, b, c, f>> \o s, {a} \cup ({b} \cup ({c} \cup {f})), f)
  <2>1. PICK t, u : t = <<b, c, f>> \o s /\ u = <<a, b, c, f>> \o s
    OBVIOUS
  <2>2. Tells(t, {b} \cup ({c} \cup {f}), f) /\ u = <<a>> \o t
    BY <1>3, <1>8, <1>10, <2>1
  <2> QED BY <1>3, <1>5, <2>1, <2>2
<1>12. Tells(<<a>> \o s, {a}, a)
  BY <1>3, <1>4
<1>13. Tells(<<a, b>> \o s, {a} \cup {b}, b) /\ Tells(<<a, b, c>> \o s, {a} \cup ({b} \cup {c}), c)
  BY <1>3, <1>9, <1>10
<1>14. /\ {a} \cup {b} = {a, b} /\ {a} \cup ({b} \cup {c}) = {a, b, c}
       /\ {a} \cup ({b} \cup ({c} \cup {f})) = {a, b, c, f}
  OBVIOUS
<1>15. Tells(<<a, b>> \o s, {a, b}, b)
  BY <1>13, <1>14
<1>16. Tells(<<a, b, c>> \o s, {a, b, c}, c)
  BY <1>13, <1>14
<1>17. Tells(<<a, b, c, f>> \o s, {a, b, c, f}, f)
  BY <1>11, <1>14
<1> QED BY <1>12, <1>15, <1>16, <1>17 DEF Tells, Tellings

LEMMA WorkOfOne ==
  ASSUME NEW s \in Stacks, NEW a
  PROVE  /\ WorkOf(<<a>> \o s) = {a} \cup WorkOf(s)
         /\ EndOf(<<a>> \o s) = IF s = <<>> THEN a ELSE EndOf(s)
<1>1. Tellings(s, a, a, a, a)
  BY Works
<1> QED BY <1>1 DEF Tellings

LEMMA WorkOfTwo ==
  ASSUME NEW s \in Stacks, NEW a, NEW b
  PROVE  /\ WorkOf(<<a, b>> \o s) = {a, b} \cup WorkOf(s)
         /\ EndOf(<<a, b>> \o s) = IF s = <<>> THEN b ELSE EndOf(s)
<1>1. Tellings(s, a, b, b, b)
  BY Works
<1> QED BY <1>1 DEF Tellings

LEMMA WorkOfThree ==
  ASSUME NEW s \in Stacks, NEW a, NEW b, NEW c
  PROVE  /\ WorkOf(<<a, b, c>> \o s) = {a, b, c} \cup WorkOf(s)
         /\ EndOf(<<a, b, c>> \o s) = IF s = <<>> THEN c ELSE EndOf(s)
<1>1. Tellings(s, a, b, c, c)
  BY Works
<1> QED BY <1>1 DEF Tellings

LEMMA WorkOfFour ==
  ASSUME NEW s \in Stacks, NEW a, NEW b, NEW c, NEW f
  PROVE  /\ WorkOf(<<a, b, c, f>> \o s) = {a, b, c, f} \cup WorkOf(s)
         /\ EndOf(<<a, b, c, f>> \o s) = IF s = <<>> THEN f ELSE EndOf(s)
<1>1. Tellings(s, a, b, c, f)
  BY Works
<1> QED BY <1>1 DEF Tellings

(* The calls that wait are all rewrites. *)
LEMMA StackWork ==
  ASSUME NEW s \in Stacks
  PROVE  /\ \A x \in WorkOf(s) : x \in ScanSteps /\ x.op = "rewrite"
         /\ s = <<>> => WorkOf(s) = {}
         /\ s # <<>> => EndOf(s) \in WorkOf(s) /\ s[1] \in WorkOf(s)
<1>1. Len(s) \in Nat /\ (s # <<>> => Len(s) \in 1 .. Len(s) /\ 1 \in 1 .. Len(s))
  BY EmptyHasNone DEF Stacks
<1>2. \A j \in 1 .. Len(s) : s[j] \in ScanSteps /\ s[j].op = "rewrite"
  BY StackFacts
<1> QED BY <1>1, <1>2 DEF WorkOf, EndOf

(* What a call is for shows in what it does last. *)
LEMMA LastOps ==
  ASSUME NEW list, NEW stack \in Stacks
  PROVE  /\ AtWalk(list, stack) => EndOf(todo).op \in {"walk", "rewrite"}
         /\ AtScan(list, stack) => EndOf(todo).op \in {"scan", "rewrite"}
         /\ AtRewrite(list, stack) => EndOf(todo).op = "rewrite"
         /\ AtRemoveDir(list, stack) => EndOf(todo).op \in {"unlinkDir", "rewrite"}
         /\ AtRemoveFile(list, stack) => EndOf(todo).op \in {"unlink", "rewrite"}
         /\ AtCreate(list) => EndOf(todo).op \in {"create", "newInode", "link"}
         /\ AtWrite(list) => EndOf(todo).op \in {"grab", "fill", "point"}
<1>0. stack # <<>> => EndOf(stack).op = "rewrite"
  BY StackWork
<1>1. ASSUME AtWalk(list, stack) PROVE EndOf(todo).op \in {"walk", "rewrite"}
  <2>1. PICK w : todo = <<w>> \o stack /\ w.op = "walk"
    BY <1>1 DEF AtWalk, LooksUp, WalkSteps
  <2> QED BY <1>0, <2>1, WorkOfOne
<1>2. ASSUME AtScan(list, stack) PROVE EndOf(todo).op \in {"scan", "rewrite"}
  <2>1. PICK w : todo = <<w>> \o stack /\ w.op = "scan"
    BY <1>2 DEF AtScan, Scans
  <2> QED BY <1>0, <2>1, WorkOfOne
<1>3. ASSUME AtRewrite(list, stack) PROVE EndOf(todo).op = "rewrite"
  BY <1>0, <1>3 DEF AtRewrite
<1>4. ASSUME AtRemoveDir(list, stack) PROVE EndOf(todo).op \in {"unlinkDir", "rewrite"}
  <2>1. PICK n, p, k : DirBody(n, p, list, stack) \/ DirHead(n, p, k, list, stack)
                         \/ DirGone(n, p, k, list, stack)
    BY <1>4 DEF AtRemoveDir
  <2>2. UnlinkDir(n, p).op = "unlinkDir"
    BY DEF UnlinkDir
  <2>3. EndOf(todo) = IF stack = <<>> THEN UnlinkDir(n, p) ELSE EndOf(stack)
    <3> DEFINE a == FreeBody(n)
               c == FreeHead(n)
               z == UnlinkDir(n, p)
    <3>1. todo = <<a, z>> \o stack \/ todo = <<c, z>> \o stack \/ todo = <<z>> \o stack
      BY <2>1 DEF DirBody, DirHead, DirGone
    <3> HIDE DEF a, c, z
    <3>2. EndOf(todo) = IF stack = <<>> THEN z ELSE EndOf(stack)
      <4>1. /\ EndOf(<<a, z>> \o stack) = IF stack = <<>> THEN z ELSE EndOf(stack)
            /\ EndOf(<<c, z>> \o stack) = IF stack = <<>> THEN z ELSE EndOf(stack)
        BY WorkOfTwo
      <4>2. EndOf(<<z>> \o stack) = IF stack = <<>> THEN z ELSE EndOf(stack)
        BY WorkOfOne
      <4> QED BY <3>1, <4>1, <4>2
    <3> QED BY <3>2 DEF z
  <2> QED BY <1>0, <2>2, <2>3
<1>5. ASSUME AtRemoveFile(list, stack) PROVE EndOf(todo).op \in {"unlink", "rewrite"}
  <2>1. PICK n, p, k, i, b :
          \/ FileBlocks(n, p, i, list, stack) \/ FileBlockHead(n, p, i, b, list, stack)
          \/ FileBody(n, p, list, stack) \/ FileHead(n, p, k, list, stack)
          \/ FileGone(n, p, k, list, stack)
    BY <1>5 DEF AtRemoveFile
  <2>2. Unlink(n, p).op = "unlink"
    BY DEF Unlink
  <2>3. EndOf(todo) = IF stack = <<>> THEN Unlink(n, p) ELSE EndOf(stack)
    <3> DEFINE r == Release(disk[n].ptr, i)
               h == FreeHead(b)
               a == FreeBody(n)
               c == FreeHead(n)
               z == Unlink(n, p)
    <3>1. \/ todo = <<r, a, z>> \o stack \/ todo = <<h, r, a, z>> \o stack
          \/ todo = <<a, z>> \o stack \/ todo = <<c, z>> \o stack \/ todo = <<z>> \o stack
      BY <2>1 DEF FileBlocks, FileBlockHead, FileBody, FileHead, FileGone
    <3> HIDE DEF r, h, a, c, z
    <3>2. EndOf(todo) = IF stack = <<>> THEN z ELSE EndOf(stack)
      <4>1. /\ EndOf(<<a, z>> \o stack) = IF stack = <<>> THEN z ELSE EndOf(stack)
            /\ EndOf(<<c, z>> \o stack) = IF stack = <<>> THEN z ELSE EndOf(stack)
        BY WorkOfTwo
      <4>2. EndOf(<<z>> \o stack) = IF stack = <<>> THEN z ELSE EndOf(stack)
        BY WorkOfOne
      <4>3. EndOf(<<r, a, z>> \o stack) = IF stack = <<>> THEN z ELSE EndOf(stack)
        BY WorkOfThree
      <4>4. EndOf(<<h, r, a, z>> \o stack) = IF stack = <<>> THEN z ELSE EndOf(stack)
        BY WorkOfFour
      <4> QED BY <3>1, <4>1, <4>2, <4>3, <4>4
    <3> QED BY <3>2 DEF z
  <2> QED BY <1>0, <2>2, <2>3
<1>6. ASSUME AtCreate(list) PROVE EndOf(todo).op \in {"create", "newInode", "link"}
  <2>1. PICK c : todo = <<c>> /\ c.op \in {"create", "newInode", "link"}
    BY <1>6 DEF AtCreate, Creates, WritesInode, Links
  <2> QED BY <2>1 DEF EndOf
<1>7. ASSUME AtWrite(list) PROVE EndOf(todo).op \in {"grab", "fill", "point"}
  <2>1. PICK g, a, b : /\ todo = <<g>> \/ todo = <<a, g>> \/ todo = <<a, b, g>>
                       /\ g.op \in {"grab", "fill", "point"}
    <3>1. PICK g \in WriteSteps, n \in Addr : GivesBack(g, n, list) \/ Takes(g, n, list)
      BY <1>7 DEF AtWrite
    <3>2. CASE GivesBack(g, n, list)
      BY <3>2 DEF GivesBack, GaveBack, GivesBlock, GivesHead
    <3>3. CASE Takes(g, n, list)
      BY <3>3 DEF Takes, Grabs, Places
    <3> QED BY <3>1, <3>2, <3>3
  <2>2. /\ EndOf(<<g>>) = g /\ EndOf(<<a, g>>) = g /\ EndOf(<<a, b, g>>) = g
    BY DEF EndOf
  <2> QED BY <2>1, <2>2
<1> QED BY <1>1, <1>2, <1>3, <1>4, <1>5, <1>6, <1>7

LEMMA StoryAt ==
  ASSUME TypeOK, Story, NEW list, NEW stack \in Stacks
  PROVE  /\ AtWalk(list, stack) =>
              LooksFor(Head(todo)) \/ \E gone \in SUBSET Addr, d \in Addr : Clears(gone, d)
         /\ AtCreate(list) => Makes(Head(todo))
         /\ AtWrite(list) => asked.op = "writeFile" /\ \E n \in Addr : Fills(EndOf(todo), n)
         /\ AtScan(list, stack) \/ AtRewrite(list, stack) \/ AtRemoveDir(list, stack)
              \/ AtRemoveFile(list, stack) =>
              \E gone \in SUBSET Addr, d \in Addr : Clears(gone, d)
         /\ AtWalk(list, stack) \/ AtScan(list, stack) \/ AtRewrite(list, stack)
              \/ AtRemoveDir(list, stack) \/ AtRemoveFile(list, stack)
              \/ AtCreate(list) \/ AtWrite(list) => mounted /\ asked # Promised!NoCall
<1> SUFFICES ASSUME AtWalk(list, stack) \/ AtScan(list, stack) \/ AtRewrite(list, stack)
                      \/ AtRemoveDir(list, stack) \/ AtRemoveFile(list, stack)
                      \/ AtCreate(list) \/ AtWrite(list)
             PROVE  /\ AtWalk(list, stack) =>
                         LooksFor(Head(todo)) \/ \E gone \in SUBSET Addr, d \in Addr : Clears(gone, d)
                    /\ AtCreate(list) => Makes(Head(todo))
                    /\ AtWrite(list) => asked.op = "writeFile" /\ \E n \in Addr : Fills(EndOf(todo), n)
                    /\ AtScan(list, stack) \/ AtRewrite(list, stack) \/ AtRemoveDir(list, stack)
                         \/ AtRemoveFile(list, stack) =>
                         \E gone \in SUBSET Addr, d \in Addr : Clears(gone, d)
                    /\ mounted /\ asked # Promised!NoCall
  OBVIOUS
<1>1. todo # <<>> /\ Head(todo).op # "format"
  BY OpOf
<1>2. Runs
  BY <1>1 DEF Story, Rests, Idle, Erases, Formatting
<1>3. ASSUME LooksFor(Head(todo)) PROVE EndOf(todo).op = "walk" /\ asked # Promised!NoCall
  <2>1. PICK w : w.op = "walk" /\ todo = <<w>> /\ asked = Promised!PathRequest(w.call, w.path)
    BY <1>3 DEF LooksFor
  <2> QED BY <2>1 DEF EndOf, Promised!PathRequest, Promised!NoCall
<1>4. ASSUME Makes(Head(todo)) PROVE asked # Promised!NoCall
  BY <1>4 DEF Makes, Promised!PathRequest, Promised!NoCall
<1>5. ASSUME NEW n, Fills(EndOf(todo), n)
      PROVE  EndOf(todo).op \in {"grab", "fill", "point"} /\ asked # Promised!NoCall
  BY <1>5 DEF Fills, Promised!WriteRequest, Promised!NoCall
<1>6. ASSUME NEW gone, NEW d, Clears(gone, d)
      PROVE  EndOf(todo).op \in {"unlink", "unlinkDir", "scan", "rewrite", "walk"}
             /\ asked # Promised!NoCall
  <2>1. Aim(EndOf(todo), d)
    BY <1>6 DEF Clears, EndOf
  <2> QED BY <2>1 DEF Aim, Promised!PathRequest, Promised!DeleteRequest, Promised!NoCall
<1>7. \/ LooksFor(Head(todo))
      \/ Head(todo).op \in {"create", "newInode", "link"} /\ Makes(Head(todo))
      \/ asked.op = "writeFile" /\ \E n \in Addr : Fills(EndOf(todo), n)
      \/ \E gone \in SUBSET Addr, d \in Addr : Clears(gone, d)
  BY <1>2 DEF Runs, EndOf
<1>8. mounted /\ asked # Promised!NoCall
  BY <1>2, <1>3, <1>4, <1>5, <1>6, <1>7 DEF Runs
<1>9. LooksFor(Head(todo)) => Head(todo).op = "walk"
  BY DEF LooksFor
<1>10. AtWalk(list, stack) =>
         LooksFor(Head(todo)) \/ \E gone \in SUBSET Addr, d \in Addr : Clears(gone, d)
  BY <1>5, <1>7, LastOps, OpOf
<1>11. AtCreate(list) => Makes(Head(todo))
  BY <1>3, <1>5, <1>6, <1>7, LastOps
<1>12. AtWrite(list) => asked.op = "writeFile" /\ \E n \in Addr : Fills(EndOf(todo), n)
  BY <1>3, <1>6, <1>7, LastOps, OpOf
<1>13. AtScan(list, stack) \/ AtRewrite(list, stack) \/ AtRemoveDir(list, stack)
         \/ AtRemoveFile(list, stack) =>
         \E gone \in SUBSET Addr, d \in Addr : Clears(gone, d)
  BY <1>5, <1>7, <1>9, LastOps, OpOf
<1> QED BY <1>8, <1>10, <1>11, <1>12, <1>13

---------------------------------------------------------------------------
(* The calls that remove. *)

(* What there was stays what it was while a call is running. *)
LEMMA AsBefore ==
  ASSUME settled' = settled, asked' = asked, NEW d, NEW x, NEW path
  PROVE  /\ Promised!Below(d)' = Promised!Below(d)
         /\ Promised!Children(d)' = Promised!Children(d)
         /\ Promised!Dirs(path)' = Promised!Dirs(path)
         /\ Promised!Dirs(asked.path)' = Promised!Dirs(asked.path)
         /\ Within(x, d)' <=> Within(x, d)
         /\ Aim(x, d)' <=> Aim(x, d)
<1>1. Promised!Below(d)' = Promised!Below(d)
  BY DEF Promised!Below, Promised!Nodes
<1>2. Promised!Children(d)' = Promised!Children(d)
  BY DEF Promised!Children
<1>3. ASSUME NEW p PROVE Promised!Dirs(p)' = Promised!Dirs(p)
  BY DEF Promised!Dirs, Promised!At, Promised!Way, Promised!IsDir, Promised!Nodes
<1>4. Promised!Dirs(asked.path)' = Promised!Dirs(asked.path)
  BY DEF Promised!Dirs, Promised!At, Promised!Way, Promised!IsDir, Promised!Nodes
<1>5. Within(x, d)' <=> Within(x, d)
  BY <1>1 DEF Within, Unlinks
<1>6. Aim(x, d)' <=> Aim(x, d)
  BY <1>2, <1>4 DEF Aim, Promised!DeleteRequest, Promised!PathRequest
<1> QED BY <1>1, <1>2, <1>3, <1>4, <1>5, <1>6

(* A step of a removal that does not end it. *)
LEMMA ClearsOn ==
  ASSUME Story, Settle(asked), todo' # <<>>, mounted, mounted' = mounted,
         DirsReadable(disk'), Bytes(disk'),
         NEW gone \in SUBSET Addr, NEW d \in Addr,
         Kept(gone, Leaving(todo))', Unopened(gone)',
         gone \subseteq Promised!Below(d) \ {0}, gone # {} => asked.op = "removeAll",
         \A x \in WorkOf(todo') : Within(x, d),
         NEW h, h = Head(todo'), h.op = "walk" => Finds(h, d)',
         NEW z, z = EndOf(todo'), Aim(z, d)
  PROVE  Good
<1>1. settled' = settled /\ asked' = asked
  BY Ongoing
<1>2. Aim(z, d)' /\ Promised!Below(d)' = Promised!Below(d)
  BY <1>1, AsBefore
<1>3. \A x \in WorkOf(todo') : Within(x, d)'
  BY <1>1, AsBefore
<1>4. (\A x \in WorkOf(todo) : Within(x, d))'
  BY <1>3
<1>5. Aim(todo[Len(todo)], d)'
  BY <1>2 DEF EndOf
<1>6. (Head(todo).op = "walk" => Finds(Head(todo), d))'
  OBVIOUS
<1>7. Clears(gone, d)'
  BY <1>1, <1>2, <1>4, <1>5, <1>6 DEF Clears
<1>8. Runs'
  BY <1>7 DEF Runs
<1> QED BY <1>8, StoryGoes

(* What is about to be removed, by the one step that says so. *)
LEMMA LeavesOf ==
  ASSUME NEW s \in Stacks, NEW u, NEW W, WorkOf(u) = W \cup WorkOf(s)
  PROVE  Leaving(u) = {x.blk : x \in {y \in W : Unlinks(y)}}
<1>1. \A y \in WorkOf(s) : ~ Unlinks(y)
  BY StackWork DEF Unlinks
<1> QED BY <1>1 DEF Leaving

Frees(x) == x.op \in {"release", "freeBody", "freeHead"}

LEMMA LeavesOne ==
  ASSUME NEW s \in Stacks, NEW z, Unlinks(z)
  PROVE  Leaving(<<z>> \o s) = {z.blk}
<1>1. PICK u, W : u = <<z>> \o s /\ W = {z}
  OBVIOUS
<1>2. WorkOf(u) = W \cup WorkOf(s)
  BY <1>1, WorkOfOne
<1>3. Leaving(u) = {x.blk : x \in {y \in W : Unlinks(y)}}
  BY <1>2, LeavesOf
<1> QED BY <1>1, <1>3

LEMMA LeavesTwo ==
  ASSUME NEW s \in Stacks, NEW a, NEW z, Frees(a), Unlinks(z)
  PROVE  Leaving(<<a, z>> \o s) = {z.blk}
<1>1. PICK u, W : u = <<a, z>> \o s /\ W = {a, z}
  OBVIOUS
<1>2. WorkOf(u) = W \cup WorkOf(s)
  BY <1>1, WorkOfTwo
<1>3. Leaving(u) = {x.blk : x \in {y \in W : Unlinks(y)}}
  BY <1>2, LeavesOf
<1>4. ~ Unlinks(a)
  BY DEF Unlinks, Frees
<1> QED BY <1>1, <1>3, <1>4

LEMMA LeavesThree ==
  ASSUME NEW s \in Stacks, NEW a, NEW b, NEW z, Frees(a), Frees(b), Unlinks(z)
  PROVE  Leaving(<<a, b, z>> \o s) = {z.blk}
<1>1. PICK u, W : u = <<a, b, z>> \o s /\ W = {a, b, z}
  OBVIOUS
<1>2. WorkOf(u) = W \cup WorkOf(s)
  BY <1>1, WorkOfThree
<1>3. Leaving(u) = {x.blk : x \in {y \in W : Unlinks(y)}}
  BY <1>2, LeavesOf
<1>4. ~ Unlinks(a) /\ ~ Unlinks(b)
  BY DEF Unlinks, Frees
<1> QED BY <1>1, <1>3, <1>4

LEMMA LeavesFour ==
  ASSUME NEW s \in Stacks, NEW a, NEW b, NEW c, NEW z,
         Frees(a), Frees(b), Frees(c), Unlinks(z)
  PROVE  Leaving(<<a, b, c, z>> \o s) = {z.blk}
<1>1. PICK u, W : u = <<a, b, c, z>> \o s /\ W = {a, b, c, z}
  OBVIOUS
<1>2. WorkOf(u) = W \cup WorkOf(s)
  BY <1>1, WorkOfFour
<1>3. Leaving(u) = {x.blk : x \in {y \in W : Unlinks(y)}}
  BY <1>2, LeavesOf
<1>4. ~ Unlinks(a) /\ ~ Unlinks(b) /\ ~ Unlinks(c)
  BY DEF Unlinks, Frees
<1> QED BY <1>1, <1>3, <1>4

(* The stack u is t with c on top. *)
Pushed(u, c, t) == u = <<c>> \o t

LEMMA PushedIs ==
  ASSUME NEW S, NEW t \in Seq(S), t # <<>>, NEW c, NEW u, Pushed(u, c, t)
  PROVE  /\ u \in Seq(S \cup {c}) /\ u # <<>> /\ Head(u) = c
         /\ WorkOf(u) = {c} \cup WorkOf(t) /\ EndOf(u) = EndOf(t)
<1>1. u = <<c>> \o t
  BY DEF Pushed
<1>2. PICK T : T = S \cup {c}
  OBVIOUS
<1>3. c \in T /\ t \in Seq(T)
  <2>1. S \subseteq T
    BY <1>2
  <2>2. t \in Seq(T)
    BY <2>1
  <2> QED BY <1>2, <2>2
<1>4. u \in Seq(T) /\ u # <<>> /\ WorkOf(u) = {c} \cup WorkOf(t) /\ EndOf(u) = EndOf(t)
  BY <1>1, <1>3, PushWork
<1>5. Head(u) = c
  BY <1>1, OnTop
<1> QED BY <1>2, <1>4, <1>5

(* A stack that holds something. *)
Stacked(t) == t # <<>> /\ \E S : t \in Seq(S)

LEMMA PushedStack ==
  ASSUME NEW t, Stacked(t), NEW c, NEW u, Pushed(u, c, t)
  PROVE  /\ Stacked(u) /\ u # <<>> /\ Head(u) = c
         /\ WorkOf(u) = {c} \cup WorkOf(t) /\ EndOf(u) = EndOf(t)
<1>1. PICK S : t \in Seq(S)
  BY DEF Stacked
<1>2. t # <<>>
  BY DEF Stacked
<1>3. /\ u \in Seq(S \cup {c}) /\ u # <<>> /\ Head(u) = c
      /\ WorkOf(u) = {c} \cup WorkOf(t) /\ EndOf(u) = EndOf(t)
  BY <1>1, <1>2, PushedIs, Zenon
<1> QED BY <1>3 DEF Stacked

LEMMA PushedOver ==
  ASSUME NEW S, NEW t \in Seq(S), t # <<>>, NEW c, NEW e,
         NEW one, Pushed(one, e, t), NEW all, Pushed(all, c, one)
  PROVE  /\ all # <<>> /\ Head(all) = c /\ EndOf(all) = EndOf(t)
         /\ WorkOf(all) = {c, e} \cup WorkOf(t)
<1>1. Stacked(one) /\ WorkOf(one) = {e} \cup WorkOf(t) /\ EndOf(one) = EndOf(t)
  BY PushedStack DEF Stacked
<1>2. Stacked(one)
  BY <1>1
<1>3. all # <<>> /\ Head(all) = c /\ WorkOf(all) = {c} \cup WorkOf(one) /\ EndOf(all) = EndOf(one)
  BY <1>2, PushedStack, Zenon
<1> QED BY <1>1, <1>3

LEMMA PushedTwo ==
  ASSUME NEW S, NEW t \in Seq(S), t # <<>>, NEW c, NEW e,
         NEW two, two = <<c, e>> \o t
  PROVE  /\ two # <<>> /\ Head(two) = c /\ EndOf(two) = EndOf(t)
         /\ WorkOf(two) = {c, e} \cup WorkOf(t)
<1>1. PICK one, all : one = <<e>> \o t /\ all = <<c>> \o one
  OBVIOUS
<1>2. Pushed(one, e, t) /\ Pushed(all, c, one)
  BY <1>1 DEF Pushed
<1>3. /\ all # <<>> /\ Head(all) = c /\ EndOf(all) = EndOf(t)
      /\ WorkOf(all) = {c, e} \cup WorkOf(t)
  BY <1>2, PushedOver, Zenon
<1>4. two = all
  <2>1. <<c, e>> \o t = <<c>> \o (<<e>> \o t)
    BY TwoOnTop
  <2> QED BY <1>1, <2>1, Zenon
<1> QED BY <1>3, <1>4

(* A step of a removal that frees blocks of what it removes. *)
LEMMA ClearsFrees ==
  ASSUME Story, Settle(asked), mounted, mounted' = mounted, fd_table' = fd_table,
         DirsReadable(disk'), Bytes(disk'),
         NEW gone \in SUBSET Addr, NEW d \in Addr, Clears(gone, d),
         NEW a, NEW t \in Seq(Steps), t # <<>>, todo = <<a>> \o t, a \in Steps,
         Head(t).op # "walk", Frees(a),
         NEW c, NEW e, Frees(c), Frees(e),
         todo' = t \/ todo' = <<c>> \o t \/ todo' = <<c, e>> \o t,
         Shows(disk, disk', Leaving(todo))
  PROVE  Good
<1>1. PICK un, two : Pushed(un, c, t) /\ two = <<c, e>> \o t
  BY DEF Pushed
<1>2. /\ un # <<>> /\ Head(un) = c /\ EndOf(un) = EndOf(t)
      /\ WorkOf(un) = {c} \cup WorkOf(t)
  <2>1. Pushed(un, c, t)
    BY <1>1
  <2>2. Stacked(t)
    BY DEF Stacked
  <2> QED BY <2>1, <2>2, PushedStack, Zenon
<1>3. /\ two # <<>> /\ Head(two) = c /\ EndOf(two) = EndOf(t)
      /\ WorkOf(two) = {c, e} \cup WorkOf(t)
  BY <1>1, PushedTwo
<1>4. /\ two # <<>> /\ Head(two) = c /\ EndOf(two) = EndOf(t)
      /\ WorkOf(two) = {c, e} \cup WorkOf(t)
      /\ un # <<>> /\ Head(un) = c /\ EndOf(un) = EndOf(t)
      /\ WorkOf(un) = {c} \cup WorkOf(t)
  BY <1>2, <1>3
<1>8. WorkOf(todo) = {a} \cup WorkOf(t) /\ EndOf(todo) = EndOf(t)
  <2>1. PICK now : now = todo
    OBVIOUS
  <2>2. Pushed(now, a, t)
    BY <2>1 DEF Pushed
  <2>3. WorkOf(now) = {a} \cup WorkOf(t) /\ EndOf(now) = EndOf(t)
    BY <2>2, PushedIs
  <2> QED BY <2>1, <2>3
<1>a. todo' = t \/ todo' = un \/ todo' = two
  BY <1>1 DEF Pushed
<1>9. todo' # <<>> /\ EndOf(todo') = EndOf(todo)
  BY <1>a, <1>4, <1>8
<1>11. c.op # "walk"
  BY DEF Frees
<1>12. Head(todo').op # "walk"
  BY <1>a, <1>4, <1>11
<1>13. \A x \in WorkOf(todo') : x \in WorkOf(t) \/ Frees(x)
  BY <1>a, <1>4
<1>14. \A x \in WorkOf(t) : x \in WorkOf(todo')
  BY <1>a, <1>4
<1>15. \A x : Frees(x) => ~ Unlinks(x)
  BY DEF Frees, Unlinks
<1>16. {y \in WorkOf(todo) : Unlinks(y)} = {y \in WorkOf(todo') : Unlinks(y)}
  BY <1>8, <1>13, <1>14, <1>15
<1>17. Leaving(todo') = Leaving(todo)
  BY <1>16 DEF Leaving
<1>18. settled' = settled /\ asked' = asked
  BY <1>9, Ongoing
<1>19. PICK busy : busy = Leaving(todo)
  OBVIOUS
<1>20. Kept(gone, busy)
  BY <1>19 DEF Clears
<1>21. Kept(gone, busy)'
  BY <1>18, <1>19, <1>20, KeptStays
<1>22. Kept(gone, Leaving(todo))'
  BY <1>17, <1>19, <1>21
<1>23. Unopened(gone)'
  BY <1>18 DEF Clears, Unopened
<1>24. \A x \in WorkOf(todo') : Within(x, d)
  <2>1. ASSUME NEW x, Frees(x) PROVE Within(x, d)
    BY <2>1 DEF Frees, Within, Unlinks
  <2>2. \A x \in WorkOf(todo) : Within(x, d)
    BY DEF Clears
  <2> QED BY <1>8, <1>13, <2>1, <2>2
<1>25. gone \subseteq Promised!Below(d) \ {0} /\ (gone # {} => asked.op = "removeAll")
       /\ Aim(EndOf(todo), d)
  BY DEF Clears, EndOf
<1> QED BY <1>9, <1>12, <1>22, <1>23, <1>24, <1>25, ClearsOn

LEMMA TopOf ==
  ASSUME TypeOK, todo # <<>>
  PROVE  Head(todo) \in Steps /\ Tail(todo) \in Seq(Steps) /\ todo = <<Head(todo)>> \o Tail(todo)
BY DEF TypeOK

(* What is below the top when blocks of a removal are freed. *)
Frees2(n, t) == t # <<>> /\ Head(t).op # "walk" /\ Leaving(todo) = {n} /\ Frees(Head(todo))

(* The block b is one of the file or directory n, or n itself. *)
PartOf(b, n) ==
  /\ b \in Addr /\ b # 0
  /\ b = n \/ disk[b].type # "INODE"
  /\ disk[b].kind = "dir" => \A i \in 1 .. Slots : disk[b].ptr[i] = 0
  /\ \A m \in Addr \ {n} : disk[m].kind = "file" => \A i \in 1 .. Slots : disk[m].ptr[i] # b

FreesOn(t) == \E c, e : /\ Frees(c) /\ Frees(e)
                        /\ todo' = t \/ todo' = <<c>> \o t \/ todo' = <<c, e>> \o t

LEMMA OneFreesOn ==
  ASSUME NEW t, NEW c, Frees(c), todo' = <<c>> \o t PROVE FreesOn(t)
BY DEF FreesOn

LEMMA TwoFreeOn ==
  ASSUME NEW t, NEW c, NEW e, Frees(c), Frees(e), todo' = <<c, e>> \o t PROVE FreesOn(t)
BY DEF FreesOn

LEMMA StoryFreed ==
  ASSUME Story, TypeOK, TypeOK', Settle(asked), mounted, mounted' = mounted,
         fd_table' = fd_table, todo # <<>>,
         NEW gone \in SUBSET Addr, NEW d \in Addr, Clears(gone, d),
         NEW n, NEW t, t = Tail(todo), Frees2(n, t),
         FreesOn(t), Shaped(disk), NEW b, PartOf(b, n),
         disk' = FreedOn(disk, b)
  PROVE  Good
<1>1. disk \in Disks /\ disk' \in Disks /\ Bytes(disk) /\ DirsReadable(disk)
  BY DEF TypeOK, Disks, Story
<1>2. PICK busy : busy = {n}
  OBVIOUS
<1>0. /\ b \in Addr /\ b # 0
      /\ b \in busy \/ disk[b].type # "INODE"
      /\ disk[b].kind = "dir" => \A i \in 1 .. Slots : disk[b].ptr[i] = 0
      /\ \A m \in Addr \ busy : disk[m].kind = "file" => \A i \in 1 .. Slots : disk[m].ptr[i] # b
  BY <1>2 DEF PartOf
<1>3. Shows(disk, disk', busy)
  BY <1>0, <1>1, FreedShows
<1>4. DirsReadable(disk') /\ Bytes(disk')
  BY <1>0, <1>1, ReadableFreed
<1>5. PICK a : a = Head(todo)
  OBVIOUS
<1>6. t \in Seq(Steps) /\ a \in Steps /\ todo = <<a>> \o t
  BY <1>5, TopOf
<1>7. t # <<>> /\ Head(t).op # "walk" /\ Leaving(todo) = {n} /\ Frees(a)
  BY <1>5 DEF Frees2
<1>8. Shows(disk, disk', Leaving(todo))
  BY <1>2, <1>3, <1>7
<1>9. PICK c, e : /\ Frees(c) /\ Frees(e)
                  /\ todo' = t \/ todo' = <<c>> \o t \/ todo' = <<c, e>> \o t
  BY DEF FreesOn
<1> QED BY <1>4, <1>6, <1>7, <1>8, <1>9, ClearsFrees

(* Of a step that moves a block to the free list, or none. *)
LEMMA StoryHead ==
  ASSUME Story, TypeOK, TypeOK', Settle(asked), mounted, mounted' = mounted,
         fd_table' = fd_table, todo # <<>>,
         NEW gone \in SUBSET Addr, NEW d \in Addr, Clears(gone, d),
         NEW n, NEW t, t = Tail(todo), Frees2(n, t), todo' = t,
         disk' = disk \/ \E b : disk' = WithHead(disk, b)
  PROVE  Good
<1>1. disk \in Disks /\ disk' \in Disks /\ Bytes(disk) /\ DirsReadable(disk)
  BY DEF TypeOK, Disks, Story
<1>2. \A x \in Addr : Alike(disk[x], disk'[x]) /\ disk'[x].ptr = disk[x].ptr
  <2>1. CASE disk' = disk
    BY <2>1 DEF Alike
  <2>2. ASSUME NEW b, disk' = WithHead(disk, b)
        PROVE  \A x \in Addr : Alike(disk[x], disk'[x]) /\ disk'[x].ptr = disk[x].ptr
    BY <1>1, <2>2, HeadWrite
  <2> QED BY <2>1, <2>2
<1>3. Shows(disk, disk', {})
  BY <1>1, <1>2, NextShows
<1>4. DirsReadable(disk') /\ Bytes(disk')
  BY <1>1, <1>2, ReadableNext
<1>5. PICK a : a = Head(todo)
  OBVIOUS
<1>6. t \in Seq(Steps) /\ a \in Steps /\ todo = <<a>> \o t
  BY <1>5, TopOf
<1>7. t # <<>> /\ Head(t).op # "walk" /\ Frees(a)
  BY <1>5 DEF Frees2
<1>8. PICK busy : busy = Leaving(todo)
  OBVIOUS
<1>9. Shows(disk, disk', busy)
  BY <1>3, <1>8, ShowsMore
<1>10. Shows(disk, disk', Leaving(todo))
  BY <1>8, <1>9
<1> QED BY <1>4, <1>6, <1>7, <1>10, ClearsFrees

LEMMA ShapeTwo ==
  ASSUME NEW stack \in Stacks, NEW a, NEW z, Frees(a), Unlinks(z), todo = <<a, z>> \o stack,
         NEW t, t = Tail(todo)
  PROVE  /\ Frees2(z.blk, t) /\ todo # <<>> /\ Head(todo) = a /\ t = <<z>> \o stack
<1>1. todo # <<>> /\ Head(todo) = a /\ t = <<z>> \o stack
  BY Tops
<1>2. t # <<>> /\ Head(t) = z
  BY <1>1, Tops
<1>3. Leaving(todo) = {z.blk}
  BY LeavesTwo
<1> QED BY <1>1, <1>2, <1>3 DEF Frees2, Unlinks

LEMMA ShapeThree ==
  ASSUME NEW stack \in Stacks, NEW a, NEW b, NEW z, Frees(a), Frees(b), Unlinks(z),
         todo = <<a, b, z>> \o stack, NEW t, t = Tail(todo)
  PROVE  /\ Frees2(z.blk, t) /\ todo # <<>> /\ Head(todo) = a /\ t = <<b, z>> \o stack
<1>1. todo # <<>> /\ Head(todo) = a /\ t = <<b, z>> \o stack
  BY Tops
<1>2. t # <<>> /\ Head(t) = b
  BY <1>1, Tops
<1>3. Leaving(todo) = {z.blk}
  BY LeavesThree
<1> QED BY <1>1, <1>2, <1>3 DEF Frees2, Frees

LEMMA ShapeFour ==
  ASSUME NEW stack \in Stacks, NEW a, NEW b, NEW c, NEW z, Frees(a), Frees(b), Frees(c),
         Unlinks(z), todo = <<a, b, c, z>> \o stack, NEW t, t = Tail(todo)
  PROVE  /\ Frees2(z.blk, t) /\ todo # <<>> /\ Head(todo) = a /\ t = <<b, c, z>> \o stack
<1>1. todo # <<>> /\ Head(todo) = a /\ t = <<b, c, z>> \o stack
  BY Tops
<1>2. t # <<>> /\ Head(t) = b
  BY <1>1, Tops
<1>3. Leaving(todo) = {z.blk}
  BY LeavesFour
<1> QED BY <1>1, <1>2, <1>3 DEF Frees2, Frees

LEMMA KindsOfWork ==
  /\ \A n : /\ Frees(FreeBody(n)) /\ Frees(FreeHead(n))
            /\ FreeBody(n).blk = n /\ FreeHead(n).blk = n
  /\ \A q, i : Frees(Release(q, i))
  /\ \A n, p : /\ Unlinks(Unlink(n, p)) /\ Unlink(n, p).blk = n
               /\ Unlinks(UnlinkDir(n, p)) /\ UnlinkDir(n, p).blk = n
BY DEF Frees, Unlinks, FreeBody, FreeHead, Release, Unlink, UnlinkDir

LEMMA NotOfFiles ==
  ASSUME NEW d, NEW given, NEW hand, NEW list, Owns(d, given, hand, list),
         NEW b, b # 0, d[b].type = "INODE" \/ b \in hand
  PROVE  \A m \in Addr : d[m].kind = "file" =>
           \A i \in 1 .. Slots : <<m, i>> \notin given => d[m].ptr[i] # b
<1> SUFFICES ASSUME NEW m \in Addr, d[m].kind = "file", NEW i \in 1 .. Slots,
                    <<m, i>> \notin given, d[m].ptr[i] = b
             PROVE  FALSE
  OBVIOUS
<1>1. Counts(d, given, m, i)
  BY DEF Counts
<1>2. d[m].ptr[i] \notin hand /\ d[d[m].ptr[i]].type = "FILEEX"
  BY <1>1, OneOwnerOf
<1> QED BY <1>2

LEMMA StoryDirBody ==
  ASSUME Story, TypeOK, TypeOK', FreeBlockBody, Settle(asked), mounted,
         NEW gone \in SUBSET Addr, NEW d \in Addr, Clears(gone, d),
         NEW list \in Lists, NEW stack \in Stacks,
         NEW n \in Addr, NEW p \in Addr, NEW k \in 1 .. Slots,
         Removes(n, p, k, stack), DirBody(n, p, list, stack)
  PROVE  Good
<1>1. /\ todo = <<FreeBody(n), UnlinkDir(n, p)>> \o stack
      /\ Sound({}, {}, {}, list) /\ disk[n].kind = "dir"
      /\ \A i \in 1 .. Slots : disk[n].ptr[i] = 0
  BY DEF DirBody, AtRest
<1>2. PICK t : t = Tail(todo)
  OBVIOUS
<1>3. Frees2(n, t) /\ todo # <<>> /\ Head(todo) = FreeBody(n)
  <2>1. PICK a, z : a = FreeBody(n) /\ z = UnlinkDir(n, p)
    OBVIOUS
  <2>2. Frees(a) /\ Unlinks(z) /\ z.blk = n /\ todo = <<a, z>> \o stack
    BY <1>1, <2>1, KindsOfWork
  <2>3. Frees2(z.blk, t) /\ todo # <<>> /\ Head(todo) = a
    BY <1>2, <2>2, ShapeTwo
  <2> QED BY <2>1, <2>2, <2>3
<1>4. /\ disk' = FreedOn(disk, n) /\ todo' = <<FreeHead(n)>> \o t
      /\ fd_table' = fd_table
  BY <1>2, <1>3, BodyFreed
<1>5. mounted' = mounted
  BY DEF FreeBlockBody, process
<1>6. Owns(disk, {}, {}, list) /\ Shaped(disk)
  BY <1>1 DEF Sound, Owns
<1>7. n # 0 /\ disk[n].type = "INODE"
  BY <1>1, <1>6, Ends DEF Removes, Shaped
<1>8. \A m \in Addr : disk[m].kind = "file" => \A i \in 1 .. Slots : disk[m].ptr[i] # n
  <2>1. PICK given : given = {}
    OBVIOUS
  <2>2. \A m \in Addr : disk[m].kind = "file" =>
          \A i \in 1 .. Slots : <<m, i>> \notin given => disk[m].ptr[i] # n
    BY <1>6, <1>7, <2>1, NotOfFiles
  <2> QED BY <2>1, <2>2
<1>9. PICK c : c = FreeHead(n)
  OBVIOUS
<1>10. FreesOn(t)
  BY <1>4, <1>9, KindsOfWork, OneFreesOn
<1>11. PartOf(n, n)
  BY <1>1, <1>7, <1>8 DEF PartOf
<1> QED BY <1>2, <1>3, <1>4, <1>5, <1>6, <1>10, <1>11, StoryFreed

LEMMA StoryFileBody ==
  ASSUME Story, TypeOK, TypeOK', FreeBlockBody, Settle(asked), mounted,
         NEW gone \in SUBSET Addr, NEW d \in Addr, Clears(gone, d),
         NEW list \in Lists, NEW stack \in Stacks,
         NEW n \in Addr, NEW p \in Addr, NEW k \in 1 .. Slots,
         Removes(n, p, k, stack), FileBody(n, p, list, stack)
  PROVE  Good
<1>1. /\ todo = <<FreeBody(n), Unlink(n, p)>> \o stack
      /\ Sound({n} \X (1 .. Slots), {}, {}, list) /\ disk[n].kind = "file"
  BY DEF FileBody
<1>2. PICK t : t = Tail(todo)
  OBVIOUS
<1>3. Frees2(n, t) /\ todo # <<>> /\ Head(todo) = FreeBody(n)
  <2>1. PICK a, z : a = FreeBody(n) /\ z = Unlink(n, p)
    OBVIOUS
  <2>2. Frees(a) /\ Unlinks(z) /\ z.blk = n /\ todo = <<a, z>> \o stack
    BY <1>1, <2>1, KindsOfWork
  <2>3. Frees2(z.blk, t) /\ todo # <<>> /\ Head(todo) = a
    BY <1>2, <2>2, ShapeTwo
  <2> QED BY <2>1, <2>2, <2>3
<1>4. /\ disk' = FreedOn(disk, n) /\ todo' = <<FreeHead(n)>> \o t
      /\ fd_table' = fd_table
  BY <1>2, <1>3, BodyFreed
<1>5. mounted' = mounted
  BY DEF FreeBlockBody, process
<1>6. Owns(disk, {n} \X (1 .. Slots), {}, list) /\ Shaped(disk)
  BY <1>1 DEF Sound, Owns
<1>7. n # 0 /\ disk[n].type = "INODE"
  BY <1>1, <1>6, Ends DEF Removes, Shaped
<1>8. \A m \in Addr : disk[m].kind = "file" =>
        \A i \in 1 .. Slots : <<m, i>> \notin {n} \X (1 .. Slots) => disk[m].ptr[i] # n
  <2>1. PICK given : given = {n} \X (1 .. Slots)
    OBVIOUS
  <2>2. \A m \in Addr : disk[m].kind = "file" =>
          \A i \in 1 .. Slots : <<m, i>> \notin given => disk[m].ptr[i] # n
    BY <1>6, <1>7, <2>1, NotOfFiles
  <2> QED BY <2>1, <2>2
<1>9. PICK c : c = FreeHead(n)
  OBVIOUS
<1>10. FreesOn(t)
  BY <1>4, <1>9, KindsOfWork, OneFreesOn
<1>11. PartOf(n, n)
  BY <1>1, <1>7, <1>8 DEF PartOf
<1> QED BY <1>2, <1>3, <1>4, <1>5, <1>6, <1>10, <1>11, StoryFreed

LEMMA NextPart ==
  ASSUME NEW given, NEW list, Sound(given, {}, {}, list),
         NEW n \in Addr, disk[n].kind = "file", NEW i \in 1 .. Slots, <<n, i>> \notin given,
         NEW b \in Addr, b = disk[n].ptr[i], b # 0, \A m, j : <<m, j>> \in given => m = n
  PROVE  PartOf(b, n)
<1>1. Owns(disk, given, {}, list) /\ Shaped(disk)
  BY DEF Sound, Owns
<1>2. Counts(disk, given, n, i)
  BY DEF Counts
<1>3. /\ disk[b].type = "FILEEX"
      /\ \A y \in Addr, j \in 1 .. Slots :
           Counts(disk, given, y, j) /\ disk[y].ptr[j] = b => y = n /\ j = i
  BY <1>1, <1>2, OneOwnerOf
<1>4. disk[b].kind = "none"
  BY <1>1, <1>3, Ends DEF Shaped
<1>5. \A m \in Addr \ {n} : \A j \in 1 .. Slots : disk[m].ptr[j] # b
  <2> SUFFICES ASSUME NEW m \in Addr \ {n}, NEW j \in 1 .. Slots, disk[m].ptr[j] = b PROVE FALSE
    OBVIOUS
  <2>1. Counts(disk, given, m, j)
    BY DEF Counts
  <2> QED BY <1>3, <2>1
<1> QED BY <1>3, <1>4, <1>5 DEF PartOf

LEMMA StoryRelease ==
  ASSUME Story, TypeOK, TypeOK', ReleaseBlocks, Settle(asked), mounted,
         NEW gone \in SUBSET Addr, NEW d \in Addr, Clears(gone, d),
         NEW list \in Lists, NEW stack \in Stacks,
         NEW n \in Addr, NEW p \in Addr, NEW i \in 1 .. Slots + 1,
         FileBlocks(n, p, i, list, stack)
  PROVE  Good
<1>1. /\ todo = <<Release(disk[n].ptr, i), FreeBody(n), Unlink(n, p)>> \o stack
      /\ Sound({n} \X (1 .. i - 1), {}, {}, list) /\ disk[n].kind = "file"
  BY DEF FileBlocks
<1>2. PICK t : t = Tail(todo)
  OBVIOUS
<1>3. PICK q : q = disk[n].ptr
  OBVIOUS
<1>4. Frees2(n, t) /\ todo # <<>> /\ Head(todo) = Release(q, i)
  <2>1. PICK a, b, z : a = Release(q, i) /\ b = FreeBody(n) /\ z = Unlink(n, p)
    OBVIOUS
  <2>2. Frees(a) /\ Frees(b) /\ Unlinks(z) /\ z.blk = n /\ todo = <<a, b, z>> \o stack
    BY <1>1, <1>3, <2>1, KindsOfWork
  <2>3. Frees2(z.blk, t) /\ todo # <<>> /\ Head(todo) = a
    BY <1>2, <2>2, ShapeThree
  <2> QED BY <2>1, <2>2, <2>3
<1>5. /\ fd_table' = fd_table
      /\ \/ NoBlock(q, i) /\ disk' = disk /\ todo' = <<>> \o t
         \/ /\ ~ NoBlock(q, i)
            /\ disk' = FreedOn(disk, q[i])
            /\ todo' = <<FreeHead(q[i]), Release(q, i + 1)>> \o t
  BY <1>2, <1>4, ReleasesNext
<1>6. mounted' = mounted
  BY DEF ReleaseBlocks, process
<1>7. CASE disk' = disk /\ todo' = <<>> \o t
  <2>1. todo' = t
    BY <1>2, <1>4, <1>7, TopOf, OnTop
  <2> QED BY <1>2, <1>4, <1>5, <1>6, <1>7, <2>1, StoryHead
<1>8. CASE /\ ~ NoBlock(q, i) /\ disk' = FreedOn(disk, q[i])
           /\ todo' = <<FreeHead(q[i]), Release(q, i + 1)>> \o t
  <2>1. i \in 1 .. Slots /\ q[i] # 0
    BY <1>8 DEF NoBlock
  <2>2. PICK b \in Addr : b = q[i]
    BY <1>3, <2>1, DiskFields DEF TypeOK, Disks
  <2>3. PICK given : given = {n} \X (1 .. i - 1)
    OBVIOUS
  <2>4. <<n, i>> \notin given /\ \A m, j : <<m, j>> \in given => m = n
    BY <2>1, <2>3
  <2>5. PartOf(b, n)
    BY <1>1, <1>3, <2>1, <2>2, <2>3, <2>4, NextPart
  <2>6. PICK c, e : c = FreeHead(b) /\ e = Release(q, i + 1)
    OBVIOUS
  <2>7. FreesOn(t)
    BY <1>8, <2>2, <2>6, KindsOfWork, TwoFreeOn
  <2>8. Shaped(disk) /\ disk' = FreedOn(disk, b)
    BY <1>1, <1>8, <2>2 DEF Sound, Owns
  <2> QED BY <1>2, <1>4, <1>5, <1>6, <2>5, <2>7, <2>8, StoryFreed
<1> QED BY <1>5, <1>7, <1>8

LEMMA StoryHeads ==
  ASSUME Story, TypeOK, TypeOK', FreeBlockHead, Settle(asked), mounted,
         NEW gone \in SUBSET Addr, NEW d \in Addr, Clears(gone, d),
         NEW list \in Lists, NEW stack \in Stacks, NEW n, NEW p, NEW k,
         \/ DirHead(n, p, k, list, stack) \/ FileHead(n, p, k, list, stack)
         \/ \E i, b : FileBlockHead(n, p, i, b, list, stack)
  PROVE  Good
<1>1. PICK t : t = Tail(todo)
  OBVIOUS
<1>2. PICK z, h : /\ Unlinks(z) /\ z.blk = n /\ h = FreeHead(n)
                  /\ \/ todo = <<h, z>> \o stack
                     \/ \E q, i, b : todo = <<FreeHead(b), Release(q, i), FreeBody(n), z>> \o stack
  <2>1. CASE DirHead(n, p, k, list, stack)
    BY <2>1, KindsOfWork DEF DirHead
  <2>2. CASE FileHead(n, p, k, list, stack)
    BY <2>2, KindsOfWork DEF FileHead
  <2>3. CASE \E i, b : FileBlockHead(n, p, i, b, list, stack)
    BY <2>3, KindsOfWork DEF FileBlockHead
  <2> QED BY <2>1, <2>2, <2>3
<1>3. Frees2(n, t) /\ todo # <<>> /\ \E b : Head(todo) = FreeHead(b)
  <2>1. CASE todo = <<h, z>> \o stack
    <3>1. Frees(h)
      BY <1>2, KindsOfWork
    <3>2. Frees2(z.blk, t) /\ todo # <<>> /\ Head(todo) = h
      BY <1>1, <1>2, <2>1, <3>1, ShapeTwo
    <3> QED BY <1>2, <3>2
  <2>2. ASSUME NEW q, NEW i, NEW b,
               todo = <<FreeHead(b), Release(q, i), FreeBody(n), z>> \o stack
        PROVE  Frees2(n, t) /\ todo # <<>> /\ \E c : Head(todo) = FreeHead(c)
    <3>1. PICK x, y, w : x = FreeHead(b) /\ y = Release(q, i) /\ w = FreeBody(n)
      OBVIOUS
    <3>2. Frees(x) /\ Frees(y) /\ Frees(w) /\ todo = <<x, y, w, z>> \o stack
      BY <2>2, <3>1, KindsOfWork
    <3>3. Frees2(z.blk, t) /\ todo # <<>> /\ Head(todo) = x
      BY <1>1, <1>2, <3>2, ShapeFour
    <3> QED BY <1>2, <3>1, <3>3
  <2> QED BY <1>2, <2>1, <2>2
<1>4. PICK b : Head(todo) = FreeHead(b)
  BY <1>3
<1>5. disk' = WithHead(disk, b) /\ fd_table' = fd_table /\ todo' = t
  BY <1>1, <1>4, HeadFreed
<1>6. mounted' = mounted
  BY DEF FreeBlockHead, process
<1> QED BY <1>1, <1>3, <1>5, <1>6, StoryHead

LEMMA StoryFreeBlockBody ==
  ASSUME Story, Ownership, TypeOK, TypeOK', FreeBlockBody, Settle(asked) PROVE Good
<1>1. Doing("freeBody")
  BY DEF FreeBlockBody
<1>2. PICK list \in Lists, stack \in Stacks :
        /\ Waiting(disk, stack, list)
        /\ AtRemoveDir(list, stack) \/ AtRemoveFile(list, stack)
  BY <1>1, Where
<1>3. PICK gone \in SUBSET Addr, d \in Addr : Clears(gone, d)
  BY <1>2, StoryAt
<1>4. mounted
  BY <1>2, StoryAt
<1>5. CASE AtRemoveDir(list, stack)
  <2>1. PICK n, p \in Addr, k \in 1 .. Slots :
          Removes(n, p, k, stack) /\ DirBody(n, p, list, stack)
    BY <1>1, <1>5, WhereDir
  <2> QED BY <1>3, <1>4, <2>1, StoryDirBody
<1>6. CASE AtRemoveFile(list, stack)
  <2>1. PICK n, p \in Addr, k \in 1 .. Slots :
          Removes(n, p, k, stack) /\ FileBody(n, p, list, stack)
    BY <1>1, <1>6, WhereFile
  <2> QED BY <1>3, <1>4, <2>1, StoryFileBody
<1> QED BY <1>2, <1>5, <1>6

---------------------------------------------------------------------------
(* The end of a removal. *)

(* Kept of a disk e that need not be the one there is. *)
KeptOn(e, gone, busy) ==
  /\ Inodes(e) \ busy = DOMAIN settled.tree \ (gone \cup busy)
  /\ \A n \in Inodes(e) \ busy : Node(e, n) = settled.tree[n]

LEMMA KeptIs ==
  ASSUME NEW gone, NEW busy
  PROVE  /\ Kept(gone, busy) <=> KeptOn(disk, gone, busy)
         /\ settled' = settled => (Kept(gone, busy)' <=> KeptOn(disk', gone, busy))
<1>1. Kept(gone, busy) <=> KeptOn(disk, gone, busy)
  BY DEF Kept, KeptOn
<1>2. ASSUME settled' = settled PROVE Kept(gone, busy)' <=> KeptOn(disk', gone, busy)
  <2>1. /\ Inodes(disk)' = Inodes(disk')
        /\ \A n : Node(disk, n)' = Node(disk', n)
    BY DEF Inodes, DirOf, Node, ByteAt
  <2> QED BY <1>2, <2>1 DEF Kept, KeptOn
<1> QED BY <1>1, <1>2

LEMMA KeptShows ==
  ASSUME NEW gone, NEW busy, NEW d, NEW e, KeptOn(d, gone, busy), Shows(d, e, busy)
  PROVE  KeptOn(e, gone, busy)
BY DEF KeptOn, Shows

LEMMA KeptLess ==
  ASSUME NEW gone, NEW n, NEW e, KeptOn(e, gone, {n}), n \notin Inodes(e)
  PROVE  KeptOn(e, gone \cup {n}, {})
BY DEF KeptOn

LEMMA TreeLess ==
  ASSUME NEW gone, NEW e, KeptOn(e, gone, {})
  PROVE  Tree(e) = [n \in DOMAIN settled.tree \ gone |-> settled.tree[n]]
BY DEF KeptOn, Tree

(* All that was below a directory is gone when nothing is in what is gone. *)
LEMMA AllGone ==
  ASSUME Readout, NEW e \in Disks, NEW list, Owns(e, {}, {}, list), NEW gone,
         KeptOn(e, gone, {}), NEW d, gone \subseteq Promised!Below(d) \ {0},
         d \in gone \/ (d = 0 /\ \A i \in 1 .. Slots : e[0].ptr[i] = 0)
  PROVE  Promised!Below(d) \ {0} = gone
<1> DEFINE S == gone \cup {d}
<1>1. S \subseteq DOMAIN settled.tree \cup {0}
  BY Ends DEF Promised!Below, Promised!Nodes
<1>2. ASSUME NEW n \in DOMAIN settled.tree, settled.tree[n].dir \in S, n \notin S PROVE FALSE
  <2>1. n \in Inodes(e) /\ Node(e, n) = settled.tree[n]
    BY <1>2 DEF KeptOn
  <2>2. PICK x : x = settled.tree[n].dir
    OBVIOUS
  <2>3. n # 0 /\ x \in Addr /\ IsDirOn(e, x) /\ \E i \in 1 .. Slots : e[x].ptr[i] = n
    BY <2>1, <2>2, NodeEntry
  <2>4. x # 0
    BY <1>2, <2>2, <2>3
  <2>5. x \in gone
    BY <1>2, <2>2, <2>4
  <2>6. e[x].type = "INODE"
    BY <2>3, <2>4, Ends DEF Owns, Shaped, IsDirOn
  <2>7. x \in Inodes(e)
    BY <2>3, <2>6, NodesAre
  <2> QED BY <2>5, <2>7 DEF KeptOn
<1>3. Promised!Below(d) \subseteq S
  <2> HIDE DEF S
  <2>1. d \in S
    BY DEF S
  <2> QED BY <1>1, <1>2, <2>1, BelowLeast
<1> QED BY <1>3

(* The last write of a removal clears the pointer k of p to n. *)
LEMMA ClearedPtr ==
  ASSUME TypeOK, NEW given, NEW coming, NEW list, Sound(given, {}, coming, list),
         DirsReadable(disk), Bytes(disk), TypeOK',
         NEW n \in Addr, NEW p \in Addr, NEW k \in 1 .. Slots, NEW stack,
         Removes(n, p, k, stack), disk[n].type = "FREE",
         disk' = WithPtr(disk, p, k, 0)
  PROVE  /\ DirsReadable(disk') /\ Bytes(disk')
         /\ Shows(disk, disk', {n}) /\ n \notin Inodes(disk')
<1>1. disk \in Disks /\ disk' \in Disks /\ Shaped(disk)
  BY DEF TypeOK, Disks, Sound, Owns
<1>2. /\ \A b \in Addr : Alike(disk[b], disk'[b])
      /\ \A b \in Addr, i \in 1 .. Slots :
           b # p \/ i # k => disk'[b].ptr[i] = disk[b].ptr[i]
      /\ disk'[p].ptr[k] = 0
  BY <1>1, PtrWrite
<1>3. \A b \in Addr \ {p} : disk'[b] = disk[b]
  BY <1>1 DEF WithPtr, Disks
<1>4. disk[p].kind # "file" /\ disk[p].ptr[k] = n /\ n # 0
  BY <1>1, DirsAre DEF Removes, InDir
<1>5. disk[p].size = 0
  BY <1>4 DEF Bytes
<1>6. DirsReadable(disk') /\ Bytes(disk')
  <2>1. \A b \in Addr :
           /\ disk'[b].kind = "dir" =>
                disk'[b].name \notin Unreadable
                  \/ (disk[b].kind = "dir" /\ disk'[b].name = disk[b].name)
           /\ disk'[b].size # 0 => /\ disk'[b].size = disk[b].size
                                   /\ disk'[b].kind = disk[b].kind
                                   /\ disk'[b].ptr = disk[b].ptr
    BY <1>2, <1>3, <1>5 DEF Alike
  <2> QED BY <2>1, ReadableAs
<1>7. \A m \in Addr \ {n} : m \in Inodes(disk) \/ m \in Inodes(disk') =>
        \A i \in 1 .. Slots : disk[p].ptr[i] = m <=> disk'[p].ptr[i] = m
  <2>1. \A m \in Addr : m \in Inodes(disk) \/ m \in Inodes(disk') => m # 0
    BY <1>1, <1>2 DEF Inodes, Alike, Shaped, SUPERBLOCK_DISKLOC
  <2> QED BY <1>2, <1>4, <2>1
<1>8. Shows(disk, disk', {n})
  BY <1>1, <1>2, <1>3, <1>5, <1>7, PtrShows
<1>9. n \notin Inodes(disk')
  BY <1>2 DEF Inodes, Alike
<1> QED BY <1>6, <1>8, <1>9

LEMMA ClosesMore ==
  ASSUME NEW gone, NEW n, n # 0, Unopened(gone), fd_table' = Closed(n)
  PROVE  \A fd \in FDs :
           fd_table'[fd] = IF settled.fds[fd] \in gone \cup {n} THEN 0 ELSE settled.fds[fd]
BY DEF Unopened, Closed

LEMMA WithoutIs ==
  ASSUME TypeOK', Settle(asked), todo' = <<>>, mounted' = mounted, ret'.code = 0,
         NEW gone, KeptOn(disk', gone, {}),
         \A fd \in FDs :
           fd_table'[fd] = IF settled.fds[fd] \in gone THEN 0 ELSE settled.fds[fd]
  PROVE  Promised!Without(gone)
<1>1. settled'.tree = [n \in DOMAIN settled.tree \ gone |-> settled.tree[n]]
  BY Ended, TreeLess
<1>2. /\ settled'.fds = fd_table' /\ settled'.code = 0
      /\ settled'.fds \in [FDs -> Addr]
  BY Ended DEF TypeOK
<1>3. settled'.fds = [fd \in FDs |-> IF settled.fds[fd] \in gone THEN 0 ELSE settled.fds[fd]]
  BY <1>2
<1> QED BY <1>1, <1>2, <1>3 DEF Promised!Without, Promised!Succeeds, SUPERBLOCK_DISKLOC

(* The step z that removes n from its directory, with stack to follow. *)
CutsOff(n, z, stack) ==
  /\ Unlinks(z) /\ z.blk = n /\ n # 0
  /\ todo = <<z>> \o stack /\ todo' = stack
  /\ mounted' = mounted /\ fd_table' = Closed(n)
  /\ todo' = <<>> => ret'.code = 0
  /\ DirsReadable(disk') /\ Bytes(disk')
  /\ Shows(disk, disk', {n}) /\ n \notin Inodes(disk')

LEMMA CutKeeps ==
  ASSUME NEW gone, NEW d, Clears(gone, d), NEW stack \in Stacks, NEW n, NEW z,
         CutsOff(n, z, stack)
  PROVE  /\ KeptOn(disk', gone \cup {n}, {})
         /\ gone \cup {n} \subseteq Promised!Below(d) \ {0}
         /\ \A fd \in FDs :
              fd_table'[fd] = IF settled.fds[fd] \in gone \cup {n} THEN 0 ELSE settled.fds[fd]
<1>1. Leaving(todo) = {n} /\ WorkOf(todo) = {z} \cup WorkOf(stack)
  BY LeavesOne, WorkOfOne DEF CutsOff
<1>2. KeptOn(disk, gone, {n})
  BY <1>1, KeptIs DEF Clears
<1>3. KeptOn(disk', gone, {n})
  BY <1>2, KeptShows DEF CutsOff
<1>4. KeptOn(disk', gone \cup {n}, {})
  BY <1>3, KeptLess DEF CutsOff
<1>5. n \in Promised!Below(d) /\ n # 0
  BY <1>1 DEF Clears, Within, CutsOff
<1>6. gone \subseteq Promised!Below(d) \ {0}
  BY DEF Clears
<1>7. \A fd \in FDs :
        fd_table'[fd] = IF settled.fds[fd] \in gone \cup {n} THEN 0 ELSE settled.fds[fd]
  BY ClosesMore DEF Clears, CutsOff
<1> QED BY <1>4, <1>5, <1>6, <1>7

LEMMA CutOn ==
  ASSUME Story, Settle(asked), mounted,
         NEW gone \in SUBSET Addr, NEW d \in Addr, Clears(gone, d),
         NEW stack \in Stacks, stack # <<>>, NEW n \in Addr, NEW z, CutsOff(n, z, stack)
  PROVE  Good
<1>1. WorkOf(todo) = {z} \cup WorkOf(stack) /\ EndOf(todo) = EndOf(stack)
  BY WorkOfOne DEF CutsOff
<1>2. PICK last : last = EndOf(stack)
  OBVIOUS
<1>3. last.op = "rewrite" /\ Aim(last, d)
  BY <1>1, <1>2, StackWork DEF Clears, EndOf
<1>4. asked.op = "removeAll"
  BY <1>3 DEF Aim
<1>5. PICK more \in SUBSET Addr : more = gone \cup {n}
  OBVIOUS
<1>6. KeptOn(disk', more, {}) /\ more \subseteq Promised!Below(d) \ {0}
  BY <1>5, CutKeeps
<1>7. todo' = stack /\ settled' = settled /\ mounted' = mounted
  BY Ongoing DEF CutsOff
<1>8. Leaving(stack) = {}
  <2>1. PICK W : W = {}
    OBVIOUS
  <2>2. WorkOf(stack) = W \cup WorkOf(stack)
    BY <2>1
  <2>3. Leaving(stack) = {x.blk : x \in {y \in W : Unlinks(y)}}
    BY <2>2, LeavesOf
  <2> QED BY <2>1, <2>3
<1>9. Kept(more, {})'
  BY <1>6, <1>7, KeptIs
<1>10. Leaving(todo') = {}
  BY <1>7, <1>8
<1>11. Kept(more, Leaving(todo))'
  BY <1>9, <1>10
<1>12. Unopened(more)'
  BY <1>5, <1>7, CutKeeps DEF Unopened
<1>13. \A x \in WorkOf(todo') : Within(x, d)
  BY <1>1, <1>7 DEF Clears
<1>14. PICK h : h = Head(todo')
  OBVIOUS
<1>15. h.op # "walk"
  BY <1>7, <1>14, StackTop
<1>16. last = EndOf(todo')
  BY <1>2, <1>7
<1> QED BY <1>3, <1>4, <1>6, <1>7, <1>11, <1>12, <1>13, <1>14, <1>15, <1>16, ClearsOn
     DEF CutsOff

LEMMA CutEnds ==
  ASSUME Story, Settle(asked), mounted, TypeOK',
         NEW gone \in SUBSET Addr, NEW d \in Addr, Clears(gone, d), asked # Promised!NoCall,
         NEW n \in Addr, NEW z, CutsOff(n, z, <<>>),
         NEW list, Owns(disk', {}, {}, list)
  PROVE  Good
<1>1. <<>> \in Stacks
  BY DEF Stacks
<1>2. PICK more : more = gone \cup {n}
  OBVIOUS
<1>3. /\ KeptOn(disk', more, {}) /\ more \subseteq Promised!Below(d) \ {0}
      /\ \A fd \in FDs :
           fd_table'[fd] = IF settled.fds[fd] \in more THEN 0 ELSE settled.fds[fd]
  BY <1>1, <1>2, CutKeeps
<1>4. /\ todo' = <<>> /\ mounted' = mounted /\ ret'.code = 0
      /\ DirsReadable(disk') /\ Bytes(disk')
  BY DEF CutsOff
<1>5. Promised!Without(more)
  BY <1>3, <1>4, WithoutIs
<1>6. Aim(z, d)
  BY <1>1, WorkOfOne DEF Clears, EndOf, CutsOff
<1>7. z.blk = n /\ z.op \in {"unlink", "unlinkDir"} /\ n # 0
  BY DEF CutsOff, Unlinks
<1>8. CASE asked.op = "deleteFile"
  <2>1. asked.fd \in FDs /\ settled.fds[asked.fd] = n
    BY <1>6, <1>7, <1>8 DEF Aim
  <2>2. more = {n}
    BY <1>2, <1>8 DEF Clears
  <2>3. Promised!Delete(asked.fd)
    BY <1>5, <1>7, <2>1, <2>2, Ends DEF Promised!Delete, Promised!OnFile
  <2>4. Promised!Answer
    BY <1>8, <2>3, Ended, <1>4 DEF Promised!Answer
  <2> QED BY <1>4, <2>4, AnswersNow
<1>9. CASE asked.op = "removeDir"
  <2>1. d \in Promised!Dirs(asked.path) /\ Promised!Children(d) = {} /\ d = n
    BY <1>6, <1>7, <1>9 DEF Aim
  <2>2. more = {d}
    BY <1>2, <1>9, <2>1 DEF Clears
  <2>3. Promised!RemoveEmptyDir(d)
    BY <1>5, <2>1, <2>2 DEF Promised!RemoveEmptyDir, Promised!Dirs
  <2>4. Promised!Answer
    BY <1>9, <2>1, <2>3, Ended, <1>4 DEF Promised!Answer
  <2> QED BY <1>4, <2>4, AnswersNow
<1>10. CASE asked.op = "removeAll"
  <2>1. d \in Promised!Dirs(asked.path) /\ d = n
    BY <1>6, <1>7, <1>10 DEF Aim
  <2>2. disk' \in Disks
    BY DEF TypeOK, Disks
  <2>3. Promised!Below(d) \ {0} = more
    BY <1>2, <1>3, <2>1, <2>2, AllGone DEF Story
  <2>4. Promised!RemoveTree(d)
    BY <1>5, <2>1, <2>3, Ends DEF Promised!RemoveTree, Promised!Dirs
  <2>5. Promised!Answer
    BY <1>10, <2>1, <2>4, Ended, <1>4 DEF Promised!Answer
  <2> QED BY <1>4, <2>5, AnswersNow
<1> QED BY <1>6, <1>8, <1>9, <1>10 DEF Aim

LEMMA StoryUnlinked ==
  ASSUME Story, Ownership, TypeOK, TypeOK', Settle(asked),
         NEW list \in Lists, NEW stack \in Stacks, Waiting(disk, stack, list),
         AtRemoveDir(list, stack) \/ AtRemoveFile(list, stack),
         NEW coming, NEW n \in Addr, NEW p \in Addr, NEW k \in 1 .. Slots,
         Removes(n, p, k, stack), Sound({<<p, k>>}, {}, coming, list),
         disk[n].type = "FREE", disk' = WithPtr(disk, p, k, 0),
         NEW z, Unlinks(z), z.blk = n, todo = <<z>> \o stack, todo' = stack,
         mounted' = mounted, fd_table' = Closed(n), todo' = <<>> => ret'.code = 0
  PROVE  Good
<1>1. PICK gone \in SUBSET Addr, d \in Addr : Clears(gone, d)
  BY StoryAt
<1>2. mounted /\ asked # Promised!NoCall
  BY StoryAt
<1>3. PICK given : given = {<<p, k>>}
  OBVIOUS
<1>4. Sound(given, {}, coming, list)
  BY <1>3
<1>5. /\ DirsReadable(disk') /\ Bytes(disk')
      /\ Shows(disk, disk', {n}) /\ n \notin Inodes(disk')
  BY <1>4, ClearedPtr DEF Story
<1>6. n # 0
  BY DEF Removes
<1>7. CutsOff(n, z, stack)
  BY <1>5, <1>6 DEF CutsOff
<1>8. CASE stack # <<>>
  BY <1>1, <1>2, <1>7, <1>8, CutOn
<1>9. CASE stack = <<>>
  <2>1. Owns(disk', {}, {}, list)
    BY ClearedOwns
  <2>2. CutsOff(n, z, <<>>)
    BY <1>7, <1>9
  <2> QED BY <1>1, <1>2, <2>1, <2>2, CutEnds
<1> QED BY <1>8, <1>9

LEMMA StoryUnlinkFile ==
  ASSUME Story, Ownership, TypeOK, TypeOK', UnlinkFile, Settle(asked) PROVE Good
<1>1. Doing("unlink")
  BY DEF UnlinkFile
<1>2. PICK list \in Lists, stack \in Stacks :
        Waiting(disk, stack, list) /\ AtRemoveFile(list, stack)
  BY <1>1, Where
<1>3. PICK n \in Addr, p \in Addr, k \in 1 .. Slots :
        Removes(n, p, k, stack) /\ FileGone(n, p, k, list, stack)
  BY <1>1, <1>2, WhereFile
<1>4. PICK z : z = Unlink(n, p)
  OBVIOUS
<1>5. /\ todo = <<z>> \o stack
      /\ Sound({<<p, k>>}, {}, {n}, list) /\ disk[n].type = "FREE"
  BY <1>3, <1>4 DEF FileGone
<1>6. Head(todo) = z /\ Tail(todo) = stack
  BY <1>5, Tops
<1>7. Head(todo).blk = n /\ Head(todo).dir = p /\ Unlinks(z) /\ z.blk = n
  BY <1>4, <1>6 DEF Unlink, Unlinks
<1>8. PICK coming : coming = {n}
  OBVIOUS
<1>9. Sound({<<p, k>>}, {}, coming, list)
  BY <1>5, <1>8
<1>10. LeftAt(disk, n, p, k)
  BY <1>3, <1>5, <1>9, OnlyLeft
<1>11. \A i : First({j \in 1 .. Slots : disk[p].ptr[j] = n}, i) => i = k
  BY <1>10 DEF First, LeftAt
<1>12. {j \in 1 .. Slots : disk[p].ptr[j] = n} # {}
  BY <1>10 DEF LeftAt
<1>13. /\ disk' = WithPtr(disk, p, k, 0)
       /\ fd_table' = Closed(n) /\ Resume(<<>>) /\ mounted' = mounted
  <2>4. Head(todo) = Unlink(n, p)
    BY <1>4, <1>6
  <2>5. Head(todo).blk = n /\ Head(todo).dir = p
    BY <2>4 DEF Unlink
  <2>1. disk' = WithPtr(disk, p, k, 0) /\ fd_table' = Closed(n)
    BY <2>4, <2>5, <1>11, <1>12 DEF UnlinkFile, Resume, WithPtr
  <2>2. Resume(<<>>)
    BY <1>7, <1>12 DEF UnlinkFile
  <2>3. mounted' = mounted
    BY <1>7, <1>12 DEF UnlinkFile
  <2> QED BY <2>1, <2>2, <2>3
<1>14. todo' = stack /\ (todo' = <<>> => ret'.code = 0)
  <2>1. todo' = <<>> \o stack /\ (todo' = <<>> => ret' = Returned(TFS_SUCCESS))
    BY <1>6, <1>13 DEF Resume
  <2>2. todo' = stack
    BY <2>1 DEF Stacks
  <2> QED BY <2>1, <2>2, ReturnedIs DEF TFS_SUCCESS
<1> QED BY <1>2, <1>3, <1>5, <1>7, <1>9, <1>13, <1>14, StoryUnlinked

LEMMA StoryUnlinkDirectory ==
  ASSUME Story, Ownership, TypeOK, TypeOK', UnlinkDirectory, Settle(asked) PROVE Good
<1>1. Doing("unlinkDir")
  BY DEF UnlinkDirectory
<1>2. PICK list \in Lists, stack \in Stacks :
        Waiting(disk, stack, list) /\ AtRemoveDir(list, stack)
  BY <1>1, Where
<1>3. PICK n \in Addr, p \in Addr, k \in 1 .. Slots :
        Removes(n, p, k, stack) /\ DirGone(n, p, k, list, stack)
  BY <1>1, <1>2, WhereDir
<1>4. PICK z : z = UnlinkDir(n, p)
  OBVIOUS
<1>5. /\ todo = <<z>> \o stack
      /\ Sound({<<p, k>>}, {}, {}, list) /\ disk[n].type = "FREE"
  BY <1>3, <1>4 DEF DirGone
<1>6. Head(todo) = z /\ Tail(todo) = stack
  BY <1>5, Tops
<1>7. Head(todo).blk = n /\ Head(todo).dir = p /\ Unlinks(z) /\ z.blk = n
  BY <1>4, <1>6 DEF UnlinkDir, Unlinks
<1>8. PICK coming : coming = {}
  OBVIOUS
<1>9. Sound({<<p, k>>}, {}, coming, list)
  BY <1>5, <1>8
<1>10. LeftAt(disk, n, p, k)
  BY <1>3, <1>5, <1>9, OnlyLeft
<1>11. disk' = WithPtr(disk, p, k, 0)
  <2>1. PICK q : q = [i \in 1 .. Slots |-> IF disk[p].ptr[i] = n THEN 0 ELSE disk[p].ptr[i]]
    OBVIOUS
  <2>2. q = [disk[p].ptr EXCEPT ![k] = 0]
    <3>1. disk[p].ptr \in [1 .. Slots -> Addr]
      BY DiskFields DEF TypeOK, Disks, Ptrs
    <3>2. disk[p].ptr = [i \in 1 .. Slots |-> disk[p].ptr[i]]
      BY <3>1
    <3> QED BY <1>10, <2>1, <3>1, <3>2 DEF LeftAt
  <2>3. disk' = [disk EXCEPT ![p].ptr = q]
    <3>1. p \in DOMAIN disk
      BY DEF TypeOK
    <3>2. disk' = [disk EXCEPT ![p].ptr =
                     [i \in 1 .. Slots |-> IF @[i] = n THEN 0 ELSE @[i]]]
      BY <1>7 DEF UnlinkDirectory
    <3> QED BY <2>1, <3>1, <3>2
  <2> QED BY <2>2, <2>3 DEF WithPtr
<1>12. fd_table' = Closed(n) /\ mounted' = mounted
  <2>1. fd_table' = fd_table /\ mounted' = mounted
    BY DEF UnlinkDirectory, process
  <2>2. OnFiles(disk, fd_table, {}) /\ Shaped(disk) /\ n # 0
    BY <1>3, <1>5 DEF Sound, Owns, Removes
  <2>3. disk[n].kind # "file"
    BY <1>5, <2>2, Ends DEF Shaped
  <2>4. \A fd \in FDs : fd_table[fd] # n
    BY <2>2, <2>3 DEF OnFiles
  <2>5. fd_table = [fd \in FDs |-> fd_table[fd]]
    BY DEF TypeOK
  <2> QED BY <2>1, <2>4, <2>5 DEF Closed
<1>13. todo' = stack /\ (todo' = <<>> => ret'.code = 0)
  <2>1. Resume(<<>>)
    BY DEF UnlinkDirectory
  <2>2. todo' = <<>> \o stack /\ (todo' = <<>> => ret' = Returned(TFS_SUCCESS))
    BY <1>6, <2>1 DEF Resume
  <2>3. todo' = stack
    BY <2>2 DEF Stacks
  <2> QED BY <2>2, <2>3, ReturnedIs DEF TFS_SUCCESS
<1> QED BY <1>2, <1>3, <1>5, <1>7, <1>9, <1>11, <1>12, <1>13, StoryUnlinked

---------------------------------------------------------------------------
(* tfs_writeFile. *)

(* A step after which h is what the call does last, where g was. *)
FillsOn(g, h, n) ==
  /\ todo' # <<>> /\ mounted' = mounted /\ fd_table' = fd_table
  /\ h = EndOf(todo') /\ h.op \in {"grab", "fill", "point"}
  /\ h.fd = g.fd /\ h.tag = g.tag
  /\ h.inode.size = g.inode.size /\ h.inode.name = g.inode.name
  /\ DirsReadable(disk') /\ Bytes(disk')
  /\ Shows(disk, disk', {n})
  /\ n \in Inodes(disk')
  /\ disk'[n].name = settled.tree[n].name
  /\ MinOf(DirOf(disk', n)) = MinOf(DirOf(disk, n))
  /\ h.at > 0 => disk'[n].size = asked.size
  /\ \A j \in 1 .. h.at :
       disk'[disk'[n].ptr[j]].data = [tag |-> asked.tag, idx |-> j - 1]
  /\ h.op = "point" => disk'[h.blk].data = [tag |-> asked.tag, idx |-> h.at]

LEMMA FillsNext ==
  ASSUME Story, Settle(asked), mounted, asked.op = "writeFile",
         NEW n \in Addr, NEW g, Fills(g, n), NEW h, FillsOn(g, h, n)
  PROVE  Good
<1> USE DEF FillsOn
<1>1. settled' = settled /\ asked' = asked
  BY Ongoing
<1>2. Kept({}, {n})'
  <2>1. PICK gone, busy : gone = {} /\ busy = {n}
    OBVIOUS
  <2>2. Kept(gone, busy) /\ Shows(disk, disk', busy)
    BY <2>1 DEF Fills
  <2>3. Kept(gone, busy)'
    BY <1>1, <2>2, KeptStays
  <2> QED BY <2>1, <2>3
<1>3. Unopened({})'
  BY <1>1 DEF Fills, Unopened
<1>4. /\ n \in Inodes(disk)'
      /\ (MinOf(DirOf(disk, n)) = settled.tree[n].dir)'
  BY <1>1 DEF Inodes, DirOf, Fills
<1>5. Fills(h, n)'
  BY <1>1, <1>2, <1>3, <1>4 DEF Fills, Promised!WriteRequest
<1>6. Fills(todo[Len(todo)], n)'
  BY <1>5 DEF EndOf
<1>7. Runs'
  BY <1>1, <1>6 DEF Runs
<1> QED BY <1>7, StoryGoes

LEMMA EndsAre ==
  /\ \A a : EndOf(<<a>>) = a
  /\ \A a, b : EndOf(<<a, b>>) = b
  /\ \A a, b, c : EndOf(<<a, b, c>>) = c
BY DEF EndOf

LEMMA DirOfSame ==
  ASSUME NEW d, NEW e, NEW n,
         \A b \in Addr : \/ /\ e[b].type = d[b].type /\ e[b].kind = d[b].kind
                            /\ e[b].ptr = d[b].ptr
                         \/ /\ e[b].type \notin {"SUPERBLOCK", "INODE"}
                            /\ d[b].type \notin {"SUPERBLOCK", "INODE"}
  PROVE  DirOf(e, n) = DirOf(d, n)
BY DEF DirOf

LEMMA WhoWrites ==
  ASSUME Story, TypeOK, NEW list, AtWrite(list), NEW op, Doing(op),
         op \in {"release", "freeHead"}
  PROVE  \E g \in WriteSteps, n \in Addr, i \in 1 .. Slots + 1, held \in 0 .. Slots :
           /\ mounted /\ asked.op = "writeFile"
           /\ WritesTo(g, n) /\ GaveBack(g, n, i, held)
           /\ op = "release" => GivesBlock(g, n, i, held, list)
           /\ op = "freeHead" => \E b \in Addr : GivesHead(g, n, i, held, b, list)
           /\ EndOf(todo) = g /\ Fills(g, n)
<1>1. PICK g \in WriteSteps, n \in Addr :
        /\ WritesTo(g, n)
        /\ \E i \in 1 .. Slots + 1, held \in 0 .. Slots :
             /\ GaveBack(g, n, i, held)
             /\ op = "release" => GivesBlock(g, n, i, held, list)
             /\ op = "freeHead" => \E b \in Addr : GivesHead(g, n, i, held, b, list)
  BY WhereWrite
<1>2. PICK i \in 1 .. Slots + 1, held \in 0 .. Slots :
        /\ GaveBack(g, n, i, held)
        /\ op = "release" => GivesBlock(g, n, i, held, list)
        /\ op = "freeHead" => \E b \in Addr : GivesHead(g, n, i, held, b, list)
  BY <1>1
<1>3. EndOf(todo) = g
  <2>1. CASE op = "release"
    BY <1>2, <2>1, EndsAre DEF GivesBlock
  <2>2. CASE op = "freeHead"
    <3>1. PICK b \in Addr : GivesHead(g, n, i, held, b, list)
      BY <1>2, <2>2
    <3>2. PICK x, y : x = FreeHead(b) /\ y = Release(disk[n].ptr, i)
      OBVIOUS
    <3>3. todo = <<x, y, g>>
      BY <3>1, <3>2 DEF GivesHead
    <3> QED BY <3>3, EndsAre
  <2>3. op \in {"release", "freeHead"}
    OBVIOUS
  <2> QED BY <2>1, <2>2, <2>3
<1>4. PICK s \in Stacks : s = <<>>
  BY NoneWaits
<1>5. mounted /\ asked.op = "writeFile" /\ \E m \in Addr : Fills(EndOf(todo), m)
  BY <1>4, StoryAt
<1>6. PICK m \in Addr : Fills(g, m)
  BY <1>3, <1>5
<1>7. m = n
  BY <1>1, <1>6 DEF Fills, Unopened, WritesTo
<1> QED BY <1>1, <1>2, <1>3, <1>5, <1>6, <1>7

LEMMA StoryHeadOfWrite ==
  ASSUME Story, TypeOK, TypeOK', FreeBlockHead, Settle(asked), NEW list, AtWrite(list)
  PROVE  Good
<1>1. Doing("freeHead")
  BY DEF FreeBlockHead
<1>2. PICK g \in WriteSteps, n \in Addr, i \in 1 .. Slots + 1, held \in 0 .. Slots, b \in Addr :
        /\ mounted /\ asked.op = "writeFile"
        /\ WritesTo(g, n) /\ GaveBack(g, n, i, held) /\ GivesHead(g, n, i, held, b, list)
        /\ EndOf(todo) = g /\ Fills(g, n)
  BY <1>1, WhoWrites
<1>3. PICK q : q = disk[n].ptr
  OBVIOUS
<1>4. todo = <<FreeHead(b), Release(q, i), g>>
  BY <1>2, <1>3 DEF GivesHead
<1>5. disk' = WithHead(disk, b) /\ fd_table' = fd_table /\ todo' = <<Release(q, i), g>>
  BY <1>4, HeadFreed
<1>6. todo' # <<>> /\ g = EndOf(todo')
  BY <1>5 DEF EndOf
<1>7. disk \in Disks /\ disk' \in Disks
  BY DEF TypeOK, Disks
<1>8. \A c \in Addr : Alike(disk[c], disk'[c]) /\ disk'[c].ptr = disk[c].ptr
  BY <1>5, <1>7, HeadWrite
<1>9. DirsReadable(disk') /\ Bytes(disk')
  BY <1>8, ReadableNext DEF Story
<1>10. Shows(disk, disk', {n})
  <2>1. Shows(disk, disk', {})
    BY <1>7, <1>8, NextShows
  <2> QED BY <2>1, ShowsMore
<1>11. DirOf(disk', n) = DirOf(disk, n)
  BY <1>8, DirOfSame DEF Alike
<1>12. n \in Inodes(disk') /\ disk'[n].name = settled.tree[n].name
  BY <1>2, <1>8, <1>11 DEF Inodes, Fills, Alike
<1>13. mounted' = mounted
  BY DEF FreeBlockHead, process
<1>14. g.op = "grab" /\ g.at = 0
  BY <1>2 DEF GaveBack
<1>15. PICK h : h = EndOf(todo')
  OBVIOUS
<1>16. h = g /\ h.op \in {"grab", "fill", "point"}
  BY <1>6, <1>14, <1>15
<1>17. FillsOn(g, h, n)
  BY <1>5, <1>6, <1>9, <1>10, <1>11, <1>12, <1>13, <1>14, <1>15, <1>16 DEF FillsOn
<1> QED BY <1>2, <1>17, FillsNext

LEMMA StoryBlockOfWrite ==
  ASSUME Story, TypeOK, TypeOK', ReleaseBlocks, Settle(asked), NEW list, AtWrite(list)
  PROVE  Good
<1>1. Doing("release")
  BY DEF ReleaseBlocks
<1>2. PICK g \in WriteSteps, n \in Addr, i \in 1 .. Slots + 1, held \in 0 .. Slots :
        /\ mounted /\ asked.op = "writeFile"
        /\ WritesTo(g, n) /\ GaveBack(g, n, i, held) /\ GivesBlock(g, n, i, held, list)
        /\ EndOf(todo) = g /\ Fills(g, n)
  BY <1>1, WhoWrites
<1>3. PICK q, r : q = disk[n].ptr /\ r = Release(q, i)
  OBVIOUS
<1>4. todo = <<r, g>>
  BY <1>2, <1>3 DEF GivesBlock
<1>5. /\ fd_table' = fd_table
      /\ \/ NoBlock(q, i) /\ disk' = disk /\ todo' = <<>> \o Tail(todo)
         \/ /\ ~ NoBlock(q, i)
            /\ disk' = FreedOn(disk, q[i])
            /\ todo' = <<FreeHead(q[i]), Release(q, i + 1)>> \o Tail(todo)
  BY <1>3, <1>4, ReleasesNext
<1>6. todo' # <<>> /\ g = EndOf(todo')
  <2>1. CASE todo' = <<>> \o Tail(todo)
    <3>1. todo' = <<g>>
      BY <1>4, <2>1
    <3> QED BY <3>1 DEF EndOf
  <2>2. CASE todo' = <<FreeHead(q[i]), Release(q, i + 1)>> \o Tail(todo)
    <3>1. Tail(todo) = <<g>>
      BY <1>4
    <3>2. todo' = <<FreeHead(q[i]), Release(q, i + 1), g>>
      BY <2>2, <3>1, TwoAndOne
    <3> QED BY <3>2 DEF EndOf
  <2> QED BY <1>5, <2>1, <2>2
<1>7. disk \in Disks /\ disk' \in Disks
  BY DEF TypeOK, Disks
<1>8. PICK given : given = {n} \X (1 .. i - 1)
  OBVIOUS
<1>9. Sound(given, {}, {}, list) /\ disk[n].kind = "file" /\ n # 0
  BY <1>2, <1>8 DEF GivesBlock, WritesTo
<1>10. Shaped(disk) /\ Owns(disk, given, {}, list)
  BY <1>9 DEF Sound, Owns
<1>11. \/ disk' = disk
       \/ \E b \in Addr : /\ disk' = FreedOn(disk, b) /\ PartOf(b, n)
                          /\ disk[b].type \notin {"INODE", "SUPERBLOCK"}
  <2>1. CASE ~ NoBlock(q, i)
    <3>1. PICK b : b = q[i]
      OBVIOUS
    <3>2. i \in 1 .. Slots /\ b # 0 /\ b = disk[n].ptr[i]
      BY <1>3, <2>1, <3>1 DEF NoBlock
    <3>3. b \in Addr
      BY <1>7, <3>2, DiskFields
    <3>4. <<n, i>> \notin given /\ \A m, j : <<m, j>> \in given => m = n
      BY <1>8
    <3>5. PartOf(b, n)
      BY <1>9, <3>2, <3>3, <3>4, NextPart
    <3>6. Counts(disk, given, n, i)
      BY <3>2, <3>4 DEF Counts
    <3>7. disk[b].type = "FILEEX"
      BY <1>9, <1>10, <3>2, <3>6, OneOwnerOf
    <3> QED BY <1>5, <2>1, <3>1, <3>3, <3>5, <3>7
  <2> QED BY <1>5, <2>1
<1>12. /\ DirsReadable(disk') /\ Bytes(disk')
       /\ Shows(disk, disk', {n})
       /\ DirOf(disk', n) = DirOf(disk, n)
       /\ disk'[n].type = disk[n].type /\ disk'[n].name = disk[n].name
  <2>1. CASE disk' = disk
    BY <2>1 DEF Shows, Story
  <2>2. ASSUME NEW b \in Addr, disk' = FreedOn(disk, b), PartOf(b, n),
               disk[b].type \notin {"INODE", "SUPERBLOCK"}
        PROVE  /\ DirsReadable(disk') /\ Bytes(disk')
               /\ Shows(disk, disk', {n})
               /\ DirOf(disk', n) = DirOf(disk, n)
               /\ disk'[n].type = disk[n].type /\ disk'[n].name = disk[n].name
    <3>1. DirsReadable(disk') /\ Bytes(disk')
      BY <1>7, <2>2, ReadableFreed DEF Story
    <3>2. PICK busy : busy = {n}
      OBVIOUS
    <3>3. b \in busy \/ disk[b].type # "INODE"
      BY <2>2
    <3>4. Shows(disk, disk', busy)
      BY <1>7, <1>10, <2>2, <3>2, <3>3, FreedShows DEF PartOf, Story
    <3>5. disk'[b].type = "FREE" /\ \A c \in Addr \ {b} : disk'[c] = disk[c]
      BY <1>7, <2>2 DEF FreedOn, FreeBlk, Blank, Disks
    <3>6. b # n
      BY <1>2, <2>2 DEF Fills, Inodes
    <3>7. DirOf(disk', n) = DirOf(disk, n)
      BY <2>2, <3>5, DirOfSame
    <3> QED BY <3>1, <3>2, <3>4, <3>5, <3>6, <3>7
  <2> QED BY <1>11, <2>1, <2>2
<1>13. n \in Inodes(disk') /\ disk'[n].name = settled.tree[n].name
  BY <1>2, <1>12 DEF Inodes, Fills
<1>14. mounted' = mounted
  BY DEF ReleaseBlocks, process
<1>15. g.op = "grab" /\ g.at = 0
  BY <1>2 DEF GaveBack
<1>16. PICK h : h = EndOf(todo')
  OBVIOUS
<1>17. h = g /\ h.op \in {"grab", "fill", "point"}
  BY <1>6, <1>15, <1>16
<1>18. FillsOn(g, h, n)
  BY <1>5, <1>6, <1>12, <1>13, <1>14, <1>15, <1>16, <1>17 DEF FillsOn
<1> QED BY <1>2, <1>18, FillsNext

LEMMA StoryFreeBlockHead ==
  ASSUME Story, Ownership, TypeOK, TypeOK', FreeBlockHead, Settle(asked) PROVE Good
<1>1. Doing("freeHead")
  BY DEF FreeBlockHead
<1>2. PICK list \in Lists, stack \in Stacks :
        AtRemoveDir(list, stack) \/ AtRemoveFile(list, stack) \/ AtWrite(list)
  BY <1>1, Where
<1>3. CASE AtRemoveDir(list, stack)
  <2>1. PICK n, p \in Addr, k \in 1 .. Slots : DirHead(n, p, k, list, stack)
    BY <1>1, <1>3, WhereDir
  <2>2. PICK gone \in SUBSET Addr, d \in Addr : Clears(gone, d)
    BY <1>3, StoryAt
  <2>3. mounted
    BY <1>3, StoryAt
  <2> QED BY <2>1, <2>2, <2>3, StoryHeads
<1>4. CASE AtRemoveFile(list, stack)
  <2>1. PICK n, p \in Addr, k \in 1 .. Slots :
          FileHead(n, p, k, list, stack) \/ \E i, b : FileBlockHead(n, p, i, b, list, stack)
    BY <1>1, <1>4, WhereFile
  <2>2. PICK gone \in SUBSET Addr, d \in Addr : Clears(gone, d)
    BY <1>4, StoryAt
  <2>3. mounted
    BY <1>4, StoryAt
  <2> QED BY <2>1, <2>2, <2>3, StoryHeads
<1>5. CASE AtWrite(list)
  BY <1>5, StoryHeadOfWrite
<1> QED BY <1>2, <1>3, <1>4, <1>5

LEMMA StoryReleaseBlocks ==
  ASSUME Story, Ownership, TypeOK, TypeOK', ReleaseBlocks, Settle(asked) PROVE Good
<1>1. Doing("release")
  BY DEF ReleaseBlocks
<1>2. PICK list \in Lists, stack \in Stacks :
        AtRemoveFile(list, stack) \/ AtWrite(list)
  BY <1>1, Where
<1>3. CASE AtRemoveFile(list, stack)
  <2>1. PICK n, p \in Addr, i \in 1 .. Slots + 1 : FileBlocks(n, p, i, list, stack)
    BY <1>1, <1>3, WhereFile
  <2>2. PICK gone \in SUBSET Addr, d \in Addr : Clears(gone, d)
    BY <1>3, StoryAt
  <2>3. mounted
    BY <1>3, StoryAt
  <2> QED BY <2>1, <2>2, <2>3, StoryRelease
<1>4. CASE AtWrite(list)
  BY <1>4, StoryBlockOfWrite
<1> QED BY <1>2, <1>3, <1>4

LEMMA WhoFills ==
  ASSUME Story, Ownership, TypeOK, NEW op \in {"grab", "fill", "point"}, Doing(op)
  PROVE  \E list \in Lists, g \in WriteSteps, n \in Addr :
           /\ WritesTo(g, n) /\ Took(g, n) /\ todo = <<g>> /\ g.op = op
           /\ op = "grab" => Grabs(g, n, list)
           /\ op # "grab" => Places(g, n, list)
           /\ mounted /\ asked.op = "writeFile" /\ asked # Promised!NoCall
           /\ Fills(g, n)
<1>1. PICK list \in Lists, g \in WriteSteps, n \in Addr :
        /\ WritesTo(g, n) /\ Took(g, n) /\ todo = <<g>> /\ g.op = op
        /\ op = "grab" => Grabs(g, n, list)
        /\ op # "grab" => Places(g, n, list)
  BY WritesAt
<1>2. AtWrite(list)
  BY <1>1 DEF AtWrite, Takes
<1>3. PICK s \in Stacks : s = <<>>
  BY NoneWaits
<1>4. /\ mounted /\ asked.op = "writeFile" /\ asked # Promised!NoCall
      /\ \E m \in Addr : Fills(EndOf(todo), m)
  BY <1>2, <1>3, StoryAt
<1>5. PICK m \in Addr : Fills(g, m)
  BY <1>1, <1>4, EndsAre
<1>6. m = n
  BY <1>1, <1>5 DEF Fills, Unopened, WritesTo
<1> QED BY <1>1, <1>4, <1>5, <1>6

(* tfs_writeFile takes a block off the list. *)
LEMMA StoryGrabs ==
  ASSUME Story, TypeOK, TypeOK', Settle(asked), mounted, asked.op = "writeFile",
         NEW g, NEW n \in Addr, n # 0, Fills(g, n), g.op = "grab", g.at \in Nat, g.at <= Slots,
         NEW m, disk' = WithHead(disk, m), fd_table' = fd_table, mounted' = mounted,
         NEW b, NEW h, h = Fill(g.fd, g.tag, g.inode, g.at, b), todo' = <<h>>
  PROVE  Good
<1>1. disk \in Disks /\ disk' \in Disks
  BY DEF TypeOK, Disks
<1>2. \A c \in Addr : Alike(disk[c], disk'[c]) /\ disk'[c].ptr = disk[c].ptr
  BY <1>1, HeadWrite
<1>3. DirsReadable(disk') /\ Bytes(disk')
  BY <1>2, ReadableNext DEF Story
<1>4. Shows(disk, disk', {n})
  <2>1. Shows(disk, disk', {})
    BY <1>1, <1>2, NextShows
  <2> QED BY <2>1, ShowsMore
<1>5. DirOf(disk', n) = DirOf(disk, n)
  BY <1>2, DirOfSame DEF Alike
<1>6. n \in Inodes(disk') /\ disk'[n].name = settled.tree[n].name
      /\ disk'[n].size = disk[n].size
  BY <1>2, <1>5 DEF Inodes, Fills, Alike
<1>7. todo' # <<>> /\ h = EndOf(todo')
  BY EndsAre
<1>8. h.op = "fill" /\ h.fd = g.fd /\ h.tag = g.tag /\ h.inode = g.inode /\ h.at = g.at
  BY DEF Fill
<1>9. ASSUME NEW j \in 1 .. h.at
      PROVE  disk'[disk'[n].ptr[j]].data = [tag |-> asked.tag, idx |-> j - 1]
  <2>1. j \in 1 .. Slots
    BY <1>8, Bounds
  <2>2. disk[n].ptr[j] \in Addr
    BY <1>1, <2>1, DiskFields
  <2>3. disk[disk[n].ptr[j]].data = [tag |-> asked.tag, idx |-> j - 1]
    BY <1>8 DEF Fills
  <2> QED BY <1>2, <2>2, <2>3 DEF Alike
<1>10. FillsOn(g, h, n)
  BY <1>3, <1>4, <1>5, <1>6, <1>7, <1>8, <1>9 DEF FillsOn, Fills
<1> QED BY <1>10, FillsNext

LEMMA DivMonotone ==
  ASSUME NEW a \in Nat, NEW b \in Nat, a <= b, NEW m \in Nat, m >= 1
  PROVE  a \div m <= b \div m
<1>1. PICK q \in Nat, r \in Nat : q = a \div m /\ r = a % m /\ q * m + r = a
  BY Division
<1>2. PICK u \in Nat, v \in Nat : u = b \div m /\ v = b % m /\ u * m + v = b
  BY Division
<1>3. v < m
  BY <1>2
<1>4. ASSUME u < q PROVE FALSE
  <2>1. PICK e \in Nat : q = u + 1 + e
    BY <1>4
  <2>2. q * m = u * m + m + e * m
    BY <2>1
  <2>3. e * m \in Nat
    OBVIOUS
  <2> QED BY <1>1, <1>2, <1>3, <2>2, <2>3
<1> QED BY <1>1, <1>2, <1>4

(* Byte o of a file is in block o \div MAX_DATA_SPACE. *)
LEMMA BlockOf ==
  ASSUME NEW size \in Sizes, NEW o \in 0 .. size - 1
  PROVE  /\ o \in Nat
         /\ \E q \in 0 .. Slots - 1, r \in Nat :
              /\ q = o \div MAX_DATA_SPACE /\ r = o % MAX_DATA_SPACE
              /\ q * MAX_DATA_SPACE + r = o
              /\ BlocksFor(size) \in Nat /\ q < BlocksFor(size)
<1>1. size \in Nat /\ size - 1 \in Nat /\ size - 1 \in 0 .. size - 1 /\ o \in Nat
      /\ MAX_DATA_SPACE \in Nat /\ MAX_DATA_SPACE >= 1
  BY CallsAssumption, LayoutAssumption
<1>2. PICK q \in 0 .. Slots - 1, r \in Nat :
        /\ q = o \div MAX_DATA_SPACE /\ r = o % MAX_DATA_SPACE
        /\ q * MAX_DATA_SPACE + r = o
  BY OffsetIs
<1>3. PICK k : k = size - 1
  OBVIOUS
<1>4. PICK u \in Nat : u = k \div MAX_DATA_SPACE
  BY <1>1, <1>3, Division
<1>5. BlocksFor(size) = u + 1
  BY <1>1, <1>3, <1>4 DEF BlocksFor, TruncDiv
<1>6. PICK m \in Nat : m = MAX_DATA_SPACE /\ m >= 1
  BY <1>1
<1>7. q <= u
  <2>1. o <= k /\ o \in Nat /\ k \in Nat
    BY <1>1, <1>3
  <2>2. q = o \div m /\ u = k \div m
    BY <1>2, <1>4, <1>6
  <2> QED BY <1>6, <2>1, <2>2, DivMonotone
<1> QED BY <1>1, <1>2, <1>5, <1>7

(* The first blocks of a file that was written hold what was written. *)
Wrote(d, n, tag, size) ==
  /\ size \in Sizes /\ d[n].size = size
  /\ \A j \in 1 .. BlocksFor(size) :
       d[d[n].ptr[j]].data = [tag |-> tag, idx |-> j - 1]

LEMMA BytesWritten ==
  ASSUME NEW d, NEW n, NEW tag, NEW size, Wrote(d, n, tag, size)
  PROVE  Node(d, n).bytes = Promised!Written(tag, size)
<1>0. PICK k : k = BlocksFor(size)
  OBVIOUS
<1> USE DEF Wrote
<1>1. ASSUME NEW o \in 1 .. size PROVE ByteAt(d, d[n], o - 1) = <<tag, o - 1>>
  <2>1. size \in Nat /\ o - 1 \in 0 .. size - 1
    BY CallsAssumption
  <2>2. PICK p : p = o - 1
    OBVIOUS
  <2>3. PICK q \in 0 .. Slots - 1, r \in Nat :
          /\ q = p \div MAX_DATA_SPACE /\ r = p % MAX_DATA_SPACE
          /\ q * MAX_DATA_SPACE + r = p
          /\ k \in Nat /\ q < k
    BY <1>0, <2>1, <2>2, BlockOf
  <2>4. q + 1 \in 1 .. k /\ (q + 1) - 1 = q
    BY <2>3, Bounds
  <2>5. d[d[n].ptr[q + 1]].data = [tag |-> tag, idx |-> q]
    BY <1>0, <2>4
  <2>6. ByteAt(d, d[n], p) = <<tag, q * MAX_DATA_SPACE + r>>
    BY <2>3, <2>5 DEF ByteAt
  <2> QED BY <2>2, <2>3, <2>6
<1>2. Node(d, n).bytes = [o \in 1 .. d[n].size |-> ByteAt(d, d[n], o - 1)]
  BY DEF Node
<1> QED BY <1>1, <1>2 DEF Promised!Written

(* The offset of a block is set back, and nothing else. *)
LEMMA OffsetBack ==
  ASSUME NEW d \in Disks, NEW e \in Disks, NEW n \in Addr, e = [d EXCEPT ![n].off = 0]
  PROVE  /\ \A b \in Addr : /\ e[b].type = d[b].type /\ e[b].kind = d[b].kind
                            /\ e[b].size = d[b].size /\ e[b].ptr = d[b].ptr
                            /\ e[b].data = d[b].data /\ e[b].name = d[b].name
         /\ e[n].off = 0
         /\ \A m : DirOf(e, m) = DirOf(d, m)
         /\ Inodes(e) = Inodes(d)
         /\ \A m \in Addr \ {n} : Node(e, m) = Node(d, m)
         /\ DirsReadable(d) /\ Bytes(d) => DirsReadable(e) /\ Bytes(e)
<1>1. PICK blk : blk = d[n]
  OBVIOUS
<1>2. (\A b \in Addr \ {n} : e[b] = d[b]) /\ e[n] = [blk EXCEPT !.off = 0]
  BY <1>1 DEF Disks
<1>3. blk \in Sized
  BY <1>1, DiskFields
<1>4. e[n].type = d[n].type /\ e[n].kind = d[n].kind
      /\ e[n].name = d[n].name /\ e[n].size = d[n].size
      /\ e[n].ptr = d[n].ptr /\ e[n].data = d[n].data /\ e[n].off = 0
  BY <1>1, <1>2, <1>3 DEF Sized, Block
<1>5. \A b \in Addr : /\ e[b].type = d[b].type /\ e[b].kind = d[b].kind
                      /\ e[b].size = d[b].size /\ e[b].ptr = d[b].ptr
                      /\ e[b].data = d[b].data /\ e[b].name = d[b].name
  BY <1>2, <1>4
<1>6. ASSUME NEW m PROVE DirOf(e, m) = DirOf(d, m)
  BY <1>5 DEF DirOf
<1>7. Inodes(e) = Inodes(d)
  BY <1>5, <1>6 DEF Inodes
<1>8. ASSUME NEW m \in Addr \ {n} PROVE Node(e, m) = Node(d, m)
  <2>1. e[m].off = d[m].off /\ DirOf(e, m) = DirOf(d, m)
    BY <1>2, <1>6
  <2>2. \A i \in 1 .. Slots : d[m].ptr[i] \in Addr
    BY DiskFields
  <2>3. \A i \in 1 .. Slots : e[d[m].ptr[i]].data = d[d[m].ptr[i]].data
    BY <1>5, <2>2
  <2> QED BY <1>5, <2>1, <2>3, NodeStays
<1>9. ASSUME DirsReadable(d), Bytes(d) PROVE DirsReadable(e) /\ Bytes(e)
  <2>1. \A b \in Addr :
          /\ e[b].kind = "dir" =>
               e[b].name \notin Unreadable \/ (d[b].kind = "dir" /\ e[b].name = d[b].name)
          /\ e[b].size # 0 => /\ e[b].size = d[b].size /\ e[b].kind = d[b].kind
                              /\ e[b].ptr = d[b].ptr
    BY <1>5
  <2>2. DirsReadable(e)
    BY <1>9, <2>1 DEF DirsReadable
  <2>3. Bytes(e)
    BY <1>9, <2>1 DEF Bytes
  <2> QED BY <2>2, <2>3
<1> QED BY <1>4, <1>5, <1>6, <1>7, <1>8, <1>9

(* tfs_writeFile took what it needs: the file is the one it was to write. *)
LEMMA StoryWritten ==
  ASSUME Story, TypeOK, TypeOK', Settle(asked), mounted, asked # Promised!NoCall,
         asked.op = "writeFile",
         NEW g, NEW n \in Addr, n # 0, Fills(g, n), disk[n].size = asked.size,
         g.at = BlocksFor(asked.size), g.at \in Nat, g.at <= Slots,
         disk[n].kind = "file", disk[n].type = "INODE",
         disk' = [disk EXCEPT ![n].off = 0], fd_table' = fd_table, mounted' = mounted,
         todo' = <<>>, ret'.code = 0
  PROVE  Good
<1>1. disk \in Disks /\ disk' \in Disks /\ DirsReadable(disk) /\ Bytes(disk) /\ Readout
  BY DEF TypeOK, Disks, Story
<1>2. /\ asked.fd \in FDs /\ asked.size \in Sizes /\ n = settled.fds[asked.fd]
      /\ n \in DOMAIN settled.tree /\ n \in Inodes(disk) /\ Kept({}, {n}) /\ Unopened({})
      /\ settled.tree[n].kind = "file" /\ disk[n].name = settled.tree[n].name
      /\ MinOf(DirOf(disk, n)) = settled.tree[n].dir
      /\ \A j \in 1 .. g.at :
           disk[disk[n].ptr[j]].data = [tag |-> asked.tag, idx |-> j - 1]
  BY DEF Fills
<1>7. \A b \in Addr : /\ disk'[b].type = disk[b].type /\ disk'[b].kind = disk[b].kind
                      /\ disk'[b].size = disk[b].size /\ disk'[b].ptr = disk[b].ptr
                      /\ disk'[b].data = disk[b].data /\ disk'[b].name = disk[b].name
  BY <1>1, OffsetBack
<1>8. \A m : DirOf(disk', m) = DirOf(disk, m)
  BY <1>1, OffsetBack
<1>9. Inodes(disk') = Inodes(disk) /\ disk'[n].off = 0
  BY <1>1, OffsetBack
<1>10. DirsReadable(disk') /\ Bytes(disk')
       /\ \A m \in Addr \ {n} : Node(disk', m) = Node(disk, m)
  <2>1. PICK d, e : d = disk /\ e = disk'
    OBVIOUS
  <2>2. d \in Disks /\ e \in Disks /\ e = [d EXCEPT ![n].off = 0]
        /\ DirsReadable(d) /\ Bytes(d)
    BY <1>1, <2>1
  <2>3. DirsReadable(e) /\ Bytes(e) /\ \A m \in Addr \ {n} : Node(e, m) = Node(d, m)
    BY <2>2, OffsetBack, ZenonT(40)
  <2> QED BY <2>1, <2>3
<1>11. ASSUME NEW m \in Inodes(disk), m # n PROVE Tree(disk')[m] = settled.tree[m]
  <2>1. m \in Addr
    BY <1>11, TreeIs
  <2>4. Node(disk', m) = Node(disk, m)
    BY <1>10, <1>11, <2>1
  <2>5. settled.tree[m] = Node(disk, m)
    BY <1>2, <1>11 DEF Kept
  <2> QED BY <1>9, <2>4, <2>5, TreeIs
<1>12. DOMAIN settled.tree = Inodes(disk)
  BY <1>2 DEF Kept
<1>13. PICK data : data = Promised!Written(asked.tag, asked.size)
  OBVIOUS
<1>14. Node(disk', n).bytes = data
  <2>1. ASSUME NEW j \in 1 .. g.at
        PROVE  disk'[disk'[n].ptr[j]].data = [tag |-> asked.tag, idx |-> j - 1]
    <3>1. disk[disk[n].ptr[j]].data = [tag |-> asked.tag, idx |-> j - 1]
      BY <1>2
    <3>2. j \in 1 .. Slots
      BY Bounds
    <3>3. disk[n].ptr[j] \in Addr
      BY <1>1, <3>2, DiskFields
    <3>4. disk'[disk[n].ptr[j]].data = disk[disk[n].ptr[j]].data
      BY <1>7, <3>3
    <3> QED BY <1>7, <3>1, <3>4
  <2>2. PICK k : k = g.at
    OBVIOUS
  <2>3. PICK e : e = disk'
    OBVIOUS
  <2>4. PICK tag, size : tag = asked.tag /\ size = asked.size
    OBVIOUS
  <2>5. /\ e[n].size = size /\ k = BlocksFor(size) /\ size \in Sizes
    BY <1>2, <1>7, <2>2, <2>3, <2>4
  <2>7. \A j \in 1 .. k : e[e[n].ptr[j]].data = [tag |-> tag, idx |-> j - 1]
    BY <2>1, <2>2, <2>3, <2>4
  <2>6. Node(e, n).bytes = Promised!Written(tag, size)
    <3>1. Wrote(e, n, tag, size)
      BY <2>5, <2>7 DEF Wrote
    <3> QED BY <3>1, BytesWritten
  <2> QED BY <1>13, <2>3, <2>4, <2>6
<1>15. PICK node : node = settled.tree[n]
  OBVIOUS
<1>16. PICK with : with = [kind |-> node.kind, name |-> node.name, dir |-> node.dir,
                           off |-> 0, bytes |-> data]
  OBVIOUS
<1>17. Node(disk', n) = with
  <2>1. Node(disk', n) = [kind |-> disk'[n].kind, name |-> disk'[n].name,
                          dir |-> MinOf(DirOf(disk', n)), off |-> disk'[n].off,
                          bytes |-> Node(disk', n).bytes]
    BY DEF Node
  <2>2. disk'[n].kind = "file" /\ disk'[n].name = node.name /\ disk'[n].off = 0
        /\ MinOf(DirOf(disk', n)) = node.dir /\ node.kind = "file"
    BY <1>2, <1>7, <1>8, <1>9, <1>15
  <2> QED BY <1>14, <1>16, <2>1, <2>2
<1>18. Tree(disk') = [settled.tree EXCEPT ![n] = with]
  <2>1. ASSUME NEW m \in Inodes(disk)
        PROVE  Tree(disk')[m] = IF m = n THEN with ELSE settled.tree[m]
    <3>1. Tree(disk')[m] = Node(disk', m)
      BY <1>9, TreeIs
    <3> QED BY <1>11, <1>17, <3>1
  <2>2. Tree(disk') = [m \in Inodes(disk) |-> Tree(disk')[m]]
    BY <1>9, TreeIs
  <2>3. [settled.tree EXCEPT ![n] = with] =
          [m \in DOMAIN settled.tree |-> IF m = n THEN with ELSE settled.tree[m]]
    OBVIOUS
  <2> QED BY <1>12, <2>1, <2>2, <2>3
<1>19. [node EXCEPT !.bytes = data, !.off = 0] = with
  <2>1. node = [kind |-> node.kind, name |-> node.name, dir |-> node.dir,
                off |-> node.off, bytes |-> node.bytes]
    BY <1>1, <1>2, <1>15 DEF Readout
  <2>2. PICK half : half = [node EXCEPT !.bytes = data]
    OBVIOUS
  <2>3. half = [kind |-> node.kind, name |-> node.name, dir |-> node.dir,
                off |-> node.off, bytes |-> data]
    BY <2>1, <2>2
  <2>4. [half EXCEPT !.off = 0] = with
    BY <1>16, <2>3
  <2>5. [node EXCEPT !.bytes = data, !.off = 0] = [half EXCEPT !.off = 0]
    BY <2>2, Zenon
  <2> QED BY <2>4, <2>5
<1>20. settled'.tree = Tree(disk') /\ settled'.fds = fd_table' /\ settled'.code = 0
  BY Ended
<1>21. fd_table' = settled.fds
  <2>1. \A fd \in FDs : fd_table[fd] = settled.fds[fd]
    BY <1>2 DEF Unopened
  <2> QED BY <1>1, <2>1 DEF Readout, TypeOK
<1>22. Promised!Change(asked.fd, with)
  BY <1>2, <1>18, <1>20, <1>21, Ends
     DEF Promised!Change, Promised!Succeeds, Promised!OnFile
<1>23. Promised!File(asked.fd) = node
  BY <1>2, <1>15 DEF Promised!File
<1>24. Promised!Write(asked.fd, asked.tag, asked.size)
  <2>1. Promised!Change(asked.fd, [node EXCEPT !.bytes = data, !.off = 0])
    BY <1>19, <1>22
  <2> QED BY <1>13, <1>23, <2>1, Zenon DEF Promised!Write
<1>25. asked' = Promised!NoCall
  BY Ended
<1>26. Promised!Answer
  BY <1>24, <1>25 DEF Promised!Answer
<1> QED BY <1>10, <1>26, AnswersNow

LEMMA StoryGrabBlock ==
  ASSUME Story, Ownership, TypeOK, TypeOK', GrabBlock, Settle(asked) PROVE Good
<1>0. Doing("grab") /\ UNCHANGED process
  BY DEF GrabBlock
<1>1. PICK list \in Lists, g \in WriteSteps, n \in Addr :
        /\ WritesTo(g, n) /\ Took(g, n) /\ todo = <<g>> /\ g.op = "grab"
        /\ Grabs(g, n, list)
        /\ mounted /\ asked.op = "writeFile" /\ asked # Promised!NoCall
        /\ Fills(g, n)
  <2>1. PICK op : op = "grab"
    OBVIOUS
  <2> QED BY <1>0, <2>1, WhoFills
<1>2. /\ Head(todo) = g /\ fd_table[g.fd] = n /\ n # 0 /\ disk[n].kind = "file"
      /\ \A steps : Resume(steps) => todo' = steps \o <<>>
      /\ g.fd \in FDs /\ g.tag \in Tags /\ g.inode \in Sized /\ g.at \in Nat
      /\ g.at <= Slots
  BY <1>1, WriteFacts
<1>3. PICK given : given = {n} \X (g.at + 1 .. Slots)
  OBVIOUS
<1>4. Sound(given, {}, {}, list) /\ BlocksFor(g.inode.size) <= Len(list) + g.at
  BY <1>1, <1>3 DEF Grabs
<1>5. /\ Owns(disk, given, {}, list) /\ disk \in Disks /\ fd_table' = fd_table
      /\ mounted' = mounted
  BY <1>0, <1>4 DEF Sound, TypeOK, Disks, process
<1>6. /\ BlocksFor(g.inode.size) \in Nat /\ BlocksFor(g.inode.size) <= Slots
      /\ Len(list) \in Nat
  BY <1>2, NeedOf DEF Lists
<1>7. CASE g.at < BlocksFor(g.inode.size)
  <2>1. list # <<>>
    BY <1>2, <1>4, <1>6, <1>7
  <2>2. PICK b : b = disk[0].next
    OBVIOUS
  <2>3. b # 0 /\ b \in Addr
    BY <1>5, <2>1, <2>2, ListFacts, DiskFields, Ends DEF Owns
  <2>4. PICK h : h = Fill(g.fd, g.tag, g.inode, g.at, b)
    OBVIOUS
  <2>5. PICK m : m = disk[disk[0].next].next
    OBVIOUS
  <2>6. disk' = WithHead(disk, m) /\ Resume(<<h>>)
    BY <1>2, <1>7, <2>2, <2>3, <2>4, <2>5, Ends DEF GrabBlock, FreePtr, Popped, WithHead
  <2>7. todo' = <<h>>
    BY <1>2, <2>6, Alone
  <2>8. /\ n # 0 /\ Fills(g, n) /\ g.op = "grab" /\ g.at \in Nat /\ g.at <= Slots
        /\ fd_table' = fd_table /\ mounted' = mounted /\ mounted /\ asked.op = "writeFile"
    BY <1>1, <1>2, <1>5
  <2> QED BY <2>4, <2>6, <2>7, <2>8, StoryGrabs
<1>8. CASE ~ (g.at < BlocksFor(g.inode.size))
  <2>1. disk' = [disk EXCEPT ![n].off = 0] /\ Resume(<<>>)
    BY <1>2, <1>8 DEF GrabBlock
  <2>2. todo' = <<>> /\ ret'.code = 0
    <3>1. todo' = <<>>
      BY <1>2, <2>1, OnTop, NoneWaits
    <3>2. ret' = Returned(0)
      BY <2>1, <3>1 DEF Resume, TFS_SUCCESS
    <3> QED BY <3>1, <3>2, ReturnedIs
  <2>3. /\ g.at = BlocksFor(g.inode.size) /\ g.inode.size = asked.size
        /\ asked.size \in Sizes
    <3>1. g.at <= BlocksFor(g.inode.size)
      BY <1>1 DEF Took
    <3>2. g.inode.size = asked.size /\ asked.size \in Sizes
      BY <1>1 DEF Fills
    <3>3. g.at = BlocksFor(g.inode.size)
      BY <1>2, <1>6, <1>8, <3>1
    <3> QED BY <3>2, <3>3
  <2>4. disk[n].type = "INODE"
    BY <1>2, <1>5, Ends DEF Owns, Shaped
  <2>5. disk[n].size = asked.size
    <3>1. CASE g.at > 0
      BY <1>1, <3>1 DEF Fills
    <3>2. CASE g.at = 0
      <4>1. \A j \in 1 .. Slots : disk[n].ptr[j] = 0
        BY <1>1, <2>3, <3>2 DEF Took
      <4>2. disk[n].size = 0
        BY <4>1 DEF Story, Bytes
      <4>3. PICK size \in Sizes : size = asked.size
        BY <2>3
      <4>4. size \in Nat
        BY CallsAssumption
      <4>5. ASSUME size # 0 PROVE FALSE
        <5>1. PICK o \in 0 .. size - 1 : o = 0
          BY <4>4, <4>5
        <5>2. BlocksFor(size) \in Nat /\ 0 < BlocksFor(size)
          BY <5>1, BlockOf
        <5> QED BY <2>3, <3>2, <4>3, <5>2
      <4> QED BY <4>2, <4>3, <4>5
    <3> QED BY <1>2, <3>1, <3>2
  <2>6. /\ n # 0 /\ Fills(g, n) /\ g.at \in Nat /\ g.at <= Slots /\ disk[n].kind = "file"
        /\ fd_table' = fd_table /\ mounted' = mounted /\ mounted /\ asked.op = "writeFile"
        /\ g.at = BlocksFor(asked.size) /\ asked # Promised!NoCall
    BY <1>1, <1>2, <1>5, <2>3
  <2> QED BY <2>1, <2>2, <2>4, <2>5, <2>6, StoryWritten
<1> QED BY <1>7, <1>8

LEMMA StoryFillBlock ==
  ASSUME Story, Ownership, TypeOK, TypeOK', FillBlock, Settle(asked) PROVE Good
<1>0. Doing("fill") /\ UNCHANGED process
  BY DEF FillBlock
<1>1. PICK list \in Lists, g \in WriteSteps, n \in Addr :
        /\ WritesTo(g, n) /\ Took(g, n) /\ todo = <<g>> /\ g.op = "fill"
        /\ Places(g, n, list)
        /\ mounted /\ asked.op = "writeFile" /\ Fills(g, n)
  <2>1. PICK op : op = "fill"
    OBVIOUS
  <2> QED BY <1>0, <2>1, WhoFills
<1>2. /\ Head(todo) = g /\ fd_table[g.fd] = n /\ n # 0 /\ disk[n].kind = "file"
      /\ \A steps : Resume(steps) => todo' = steps \o <<>>
      /\ g.fd \in FDs /\ g.tag \in Tags /\ g.inode \in Sized /\ g.at \in Nat
      /\ g.blk \in Addr /\ g.at <= Slots
  BY <1>1, WriteFacts
<1>3. PICK given, b : given = {n} \X (g.at + 1 .. Slots) /\ b = g.blk
  OBVIOUS
<1>4. /\ Sound(given, {b}, {}, list)
      /\ b # 0 /\ b \in Addr /\ disk[b].type = "FREE"
  BY <1>1, <1>2, <1>3 DEF Places
<1>5. /\ Owns(disk, given, {b}, list) /\ Apart(disk, given, {b}) /\ Shaped(disk)
      /\ disk \in Disks /\ fd_table' = fd_table /\ mounted' = mounted /\ disk' \in Disks
  BY <1>0, <1>4 DEF Sound, TypeOK, Disks, process, Owns
<1>6. disk[b].kind = "none" /\ disk[b] \in Sized /\ n # b
  BY <1>2, <1>4, <1>5, DiskFields, Ends DEF Shaped
<1>7. PICK blk : blk = Filled(disk[b], g.tag, g.at)
  OBVIOUS
<1>8. /\ blk.type = "FILEEX" /\ blk.kind = disk[b].kind /\ blk.name = disk[b].name
      /\ blk.ptr = disk[b].ptr /\ blk.size = disk[b].size
      /\ blk.data = [tag |-> g.tag, idx |-> g.at]
  BY <1>6, <1>7 DEF Filled, Sized, Block
<1>9. PICK h : h = Point(g.fd, g.tag, g.inode, g.at, b)
  OBVIOUS
<1>10. disk' = [disk EXCEPT ![b] = blk] /\ Resume(<<h>>)
  BY <1>2, <1>3, <1>7, <1>9 DEF FillBlock
<1>11. disk'[b] = blk /\ \A c \in Addr \ {b} : disk'[c] = disk[c]
  BY <1>4, <1>5, <1>10 DEF Disks
<1>12. /\ h.op = "point" /\ h.fd = g.fd /\ h.tag = g.tag /\ h.inode = g.inode
       /\ h.at = g.at /\ h.blk = b
  BY <1>9 DEF Point
<1>13. todo' = <<h>>
  BY <1>2, <1>10, Alone
<1>14. todo' # <<>> /\ h = EndOf(todo')
  BY <1>13, EndsAre
<1>15. \A y \in Addr, j \in 1 .. Slots :
         y # n \/ j <= g.at => disk[y].ptr[j] # b
  <2>1. SUFFICES ASSUME NEW y \in Addr, NEW j \in 1 .. Slots, y # n \/ j <= g.at,
                        disk[y].ptr[j] = b
                 PROVE  FALSE
    OBVIOUS
  <2>2. <<y, j>> \notin given
    BY <1>2, <1>3, <2>1
  <2>3. Counts(disk, given, y, j)
    BY <1>4, <2>1, <2>2 DEF Counts
  <2> QED BY <1>5, <2>1, <2>3 DEF Apart
<1>16. \A c \in Addr : disk'[c].type = disk[c].type \/ c = b
  BY <1>11
<1>17. \A m : DirOf(disk', m) = DirOf(disk, m) /\ b \notin DirOf(disk, m)
  <2>1. TAKE m
  <2>2. \A c \in Addr : \/ /\ disk'[c].type = disk[c].type /\ disk'[c].kind = disk[c].kind
                           /\ disk'[c].ptr = disk[c].ptr
                        \/ /\ disk'[c].type \notin {"SUPERBLOCK", "INODE"}
                           /\ disk[c].type \notin {"SUPERBLOCK", "INODE"}
    BY <1>4, <1>8, <1>11
  <2>3. DirOf(disk', m) = DirOf(disk, m)
    BY <2>2, DirOfSame
  <2>4. b \notin DirOf(disk, m)
    BY <1>4 DEF DirOf
  <2> QED BY <2>3, <2>4
<1>18. Shows(disk, disk', {n})
  <2>1. PICK busy : busy = {n}
    OBVIOUS
  <2>2. ASSUME NEW m \in Addr \ busy, m \in Inodes(disk) \/ m \in Inodes(disk')
        PROVE  /\ m # b /\ b \notin DirOf(disk, m) /\ b \notin DirOf(disk', m)
               /\ disk[m].size # 0 => \A i \in 1 .. Slots : disk[m].ptr[i] # b
    <3>1. m # b
      BY <1>4, <1>8, <1>11, <2>2 DEF Inodes
    <3> QED BY <1>15, <1>17, <2>1, <3>1
  <2> QED BY <1>4, <1>5, <1>11, <2>1, <2>2, BlockShows
<1>19. DirsReadable(disk') /\ Bytes(disk')
  <2>1. \A c \in Addr :
          /\ disk'[c].kind = "dir" =>
               disk'[c].name \notin Unreadable
                 \/ (disk[c].kind = "dir" /\ disk'[c].name = disk[c].name)
          /\ disk'[c].size # 0 => /\ disk'[c].size = disk[c].size /\ disk'[c].kind = disk[c].kind
                                  /\ disk'[c].ptr = disk[c].ptr
    BY <1>8, <1>11
  <2>2. DirsReadable(disk) /\ Bytes(disk)
    BY DEF Story
  <2> QED BY <2>1, <2>2, ReadableAs
<1>20. disk'[n] = disk[n] /\ n \in Inodes(disk')
  BY <1>1, <1>6, <1>11, <1>17 DEF Inodes, Fills
<1>21. ASSUME NEW j \in 1 .. h.at
       PROVE  disk'[disk'[n].ptr[j]].data = [tag |-> asked.tag, idx |-> j - 1]
  <2>1. j \in 1 .. Slots /\ j <= g.at
    BY <1>2, <1>12, Bounds
  <2>2. disk[n].ptr[j] \in Addr /\ disk[n].ptr[j] # b
    BY <1>5, <1>15, <2>1, DiskFields
  <2>3. disk[disk[n].ptr[j]].data = [tag |-> asked.tag, idx |-> j - 1]
    BY <1>1, <1>12 DEF Fills
  <2> QED BY <1>11, <1>20, <2>2, <2>3
<1>22. disk'[h.blk].data = [tag |-> asked.tag, idx |-> h.at]
  BY <1>1, <1>8, <1>11, <1>12 DEF Fills
<1>23. /\ h.at > 0 => disk'[n].size = asked.size
       /\ disk'[n].name = settled.tree[n].name
  BY <1>1, <1>12, <1>20 DEF Fills
<1>24. FillsOn(g, h, n)
  BY <1>5, <1>12, <1>14, <1>17, <1>18, <1>19, <1>20, <1>21, <1>22, <1>23 DEF FillsOn
<1>25. mounted /\ asked.op = "writeFile" /\ Fills(g, n)
  BY <1>1
<1> QED BY <1>24, <1>25, FillsNext

LEMMA StoryPointToBlock ==
  ASSUME Story, Ownership, TypeOK, TypeOK', PointToBlock, Settle(asked) PROVE Good
<1>0. Doing("point") /\ UNCHANGED process
  BY DEF PointToBlock
<1>1. PICK list \in Lists, g \in WriteSteps, n \in Addr :
        /\ WritesTo(g, n) /\ Took(g, n) /\ todo = <<g>> /\ g.op = "point"
        /\ Places(g, n, list)
        /\ mounted /\ asked.op = "writeFile" /\ Fills(g, n)
  <2>1. PICK op : op = "point"
    OBVIOUS
  <2> QED BY <1>0, <2>1, WhoFills
<1>2. /\ Head(todo) = g /\ fd_table[g.fd] = n /\ n # 0 /\ disk[n].kind = "file"
      /\ \A steps : Resume(steps) => todo' = steps \o <<>>
      /\ g.fd \in FDs /\ g.tag \in Tags /\ g.inode \in Sized /\ g.at \in Nat
      /\ g.blk \in Addr
  BY <1>1, WriteFacts
<1>3. PICK given, b, k : given = {n} \X (g.at + 1 .. Slots) /\ b = g.blk /\ k = g.at + 1
  OBVIOUS
<1>4. /\ Sound(given, {b}, {}, list) /\ g.at < BlocksFor(g.inode.size)
      /\ b # 0 /\ b \in Addr /\ disk[b].type = "FILEEX"
  BY <1>1, <1>2, <1>3 DEF Places
<1>5. /\ Owns(disk, given, {b}, list) /\ Apart(disk, given, {b}) /\ Shaped(disk)
      /\ disk \in Disks /\ fd_table' = fd_table /\ mounted' = mounted /\ disk' \in Disks
  BY <1>0, <1>4 DEF Sound, TypeOK, Disks, process, Owns
<1>6. k \in 1 .. Slots /\ k \in Nat /\ g.at = k - 1
  BY <1>2, <1>3, <1>4, NeedOf, Bounds
<1>7. /\ g.inode.ptr = disk[n].ptr /\ g.inode.type = "INODE" /\ g.inode.kind = "file"
      /\ disk[n].type = "INODE" /\ disk[n].ptr \in Ptrs /\ n # b
  BY <1>1, <1>2, <1>4, <1>5, DiskFields, Ends DEF WritesTo, Shaped
<1>8. PICK inode : inode = [g.inode EXCEPT !.ptr[k] = b]
  OBVIOUS
<1>9. /\ inode.type = "INODE" /\ inode.kind = "file" /\ inode.size = g.inode.size
      /\ inode.name = g.inode.name
      /\ inode.ptr = [disk[n].ptr EXCEPT ![k] = b]
  BY <1>2, <1>7, <1>8 DEF Sized, Block
<1>10. /\ inode.ptr[k] = b
       /\ \A j \in 1 .. Slots : j # k => inode.ptr[j] = disk[n].ptr[j]
  BY <1>6, <1>7, <1>9 DEF Ptrs
<1>11. PICK h : h = Grab(g.fd, g.tag, inode, k)
  OBVIOUS
<1>12. disk' = [disk EXCEPT ![n] = inode] /\ Resume(<<h>>)
  BY <1>2, <1>3, <1>8, <1>11 DEF PointToBlock
<1>13. disk'[n] = inode /\ \A c \in Addr \ {n} : disk'[c] = disk[c]
  BY <1>5, <1>12 DEF Disks
<1>14. h.op = "grab" /\ h.fd = g.fd /\ h.tag = g.tag /\ h.inode = inode /\ h.at = k
  BY <1>11 DEF Grab
<1>15. todo' = <<h>>
  BY <1>2, <1>12, Alone
<1>16. todo' # <<>> /\ h = EndOf(todo')
  BY <1>15, EndsAre
<1>17. \A y \in Addr, j \in 1 .. Slots :
         disk[y].kind = "file" /\ (y # n \/ j < k) => disk[y].ptr[j] # n
  <2>1. SUFFICES ASSUME NEW y \in Addr, NEW j \in 1 .. Slots, disk[y].kind = "file",
                        y # n \/ j < k, disk[y].ptr[j] = n
                 PROVE  FALSE
    OBVIOUS
  <2>2. <<y, j>> \notin given
    BY <1>2, <1>3, <1>6, <2>1
  <2>3. Counts(disk, given, y, j)
    BY <1>2, <2>1, <2>2 DEF Counts
  <2> QED BY <1>5, <1>7, <2>1, <2>3 DEF Apart
<1>18. \A m : DirOf(disk', m) = DirOf(disk, m) /\ n \notin DirOf(disk, m)
  <2>1. \A c \in Addr : /\ disk'[c].type = disk[c].type /\ disk'[c].kind = disk[c].kind
                        /\ c # n => disk'[c].ptr = disk[c].ptr
    BY <1>2, <1>7, <1>9, <1>13
  <2>2. disk[n].type = "INODE" /\ disk[n].kind = "file"
    BY <1>2, <1>7
  <2> QED BY <2>1, <2>2 DEF DirOf
<1>19. Shows(disk, disk', {n})
  <2>1. PICK busy : busy = {n}
    OBVIOUS
  <2>2. ASSUME NEW m \in Addr \ busy, m \in Inodes(disk) \/ m \in Inodes(disk')
        PROVE  /\ m # n /\ n \notin DirOf(disk, m) /\ n \notin DirOf(disk', m)
               /\ disk[m].size # 0 => \A i \in 1 .. Slots : disk[m].ptr[i] # n
    <3>1. m # n /\ m \in Addr
      BY <2>1
    <3>2. disk[m].size # 0 => disk[m].kind = "file"
      BY DEF Story, Bytes
    <3> QED BY <1>17, <1>18, <3>1, <3>2
  <2> QED BY <1>5, <1>13, <2>1, <2>2, BlockShows
<1>20. DirsReadable(disk')
  <2>1. DirsReadable(disk)
    BY DEF Story
  <2>2. \A c \in Addr : disk'[c].kind = "dir" => disk'[c] = disk[c]
    BY <1>9, <1>13
  <2> QED BY <2>1, <2>2 DEF DirsReadable
<1>21. Bytes(disk')
  <2>1. Bytes(disk)
    BY DEF Story
  <2>2. disk'[n].kind = "file" /\ disk'[n].ptr[k] # 0
    BY <1>4, <1>9, <1>10, <1>13
  <2> QED BY <1>6, <1>13, <2>1, <2>2 DEF Bytes
<1>22. n \in Inodes(disk')
  <2>1. n \in Inodes(disk)
    BY <1>1 DEF Fills
  <2> QED BY <1>9, <1>13, <1>18, <2>1 DEF Inodes
<1>23. ASSUME NEW j \in 1 .. h.at
       PROVE  disk'[disk'[n].ptr[j]].data = [tag |-> asked.tag, idx |-> j - 1]
  <2>1. j \in 1 .. Slots /\ j <= k
    BY <1>6, <1>14, Bounds
  <2>2. CASE j = k
    <3>1. disk'[disk'[n].ptr[j]] = disk[b]
      BY <1>4, <1>7, <1>10, <1>13, <2>2
    <3>2. disk[g.blk].data = [tag |-> asked.tag, idx |-> g.at]
      BY <1>1 DEF Fills
    <3> QED BY <1>3, <1>6, <2>2, <3>1, <3>2
  <2>3. CASE j # k
    <3>1. disk[n].ptr[j] \in Addr /\ disk[n].ptr[j] # n
      BY <1>2, <1>5, <1>6, <1>17, <2>1, <2>3, DiskFields
    <3>2. j \in 1 .. g.at
      BY <1>6, <2>1, <2>3
    <3>3. disk[disk[n].ptr[j]].data = [tag |-> asked.tag, idx |-> j - 1]
      BY <1>1, <3>2 DEF Fills
    <3> QED BY <1>10, <1>13, <2>1, <2>3, <3>1, <3>3
  <2> QED BY <2>2, <2>3
<1>24. /\ disk'[n].size = asked.size
       /\ disk'[n].name = settled.tree[n].name
  BY <1>1, <1>9, <1>13 DEF Fills
<1>25. FillsOn(g, h, n)
  BY <1>5, <1>9, <1>14, <1>16, <1>18, <1>19, <1>20, <1>21, <1>22, <1>23, <1>24 DEF FillsOn
<1>26. mounted /\ asked.op = "writeFile" /\ Fills(g, n)
  BY <1>1
<1> QED BY <1>25, <1>26, FillsNext

(* A path is looked up. *)
LEMMA StoryLooks ==
  ASSUME Story, Ownership, Inv, TypeOK', NEW call \in Lookups, NEW path \in Paths,
         PathCall(call, path), ByPath(call, path)
  PROVE  Good
<1>1. Settle(Promised!PathRequest(call, path))
  BY DEF ByPath
<1>2. CASE ~ mounted /\ Refuse(ERR_NO_DISK_MOUNTED)
  BY <1>1, <1>2, StoryRefuse DEF ERR_NO_DISK_MOUNTED
<1>3. CASE /\ mounted
           /\ Begin(<<Walk(call, path, 1, SUPERBLOCK_DISKLOC)>>)
           /\ UNCHANGED <<disk, process>>
  <2>1. Idle /\ disk' = disk /\ fd_table' = fd_table /\ mounted' = mounted
    BY <1>3 DEF Begin, process
  <2>2. PICK w : w = Walk(call, path, 1, 0)
    OBVIOUS
  <2>3. todo' = <<w>> /\ todo' # <<>> /\ Head(todo') = w
    BY <1>3, <2>2, Ends DEF Begin
  <2>4. w.op = "walk" /\ w.call = call /\ w.path = path /\ w.at = 1
    BY <2>2 DEF Walk
  <2>5. /\ Rests /\ Kept({}, {}) /\ Unopened({}) /\ DirsReadable(disk) /\ Bytes(disk)
    BY <2>1, RestIs
  <2>6. settled' = settled /\ asked' = Promised!PathRequest(call, path)
    BY <1>1, <2>3 DEF Settle
  <2>7. Kept({}, {})' /\ Unopened({})'
    BY <2>1, <2>5, <2>6 DEF Kept, Unopened, Inodes, DirOf, Node, ByteAt
  <2>8. \A i \in 1 .. 1 - 1 : path[i] \notin Unreadable
    OBVIOUS
  <2>9. LooksFor(w)'
    BY <2>3, <2>4, <2>6, <2>7, <2>8 DEF LooksFor, Untouched, Promised!PathRequest
  <2>10. Runs'
    BY <1>3, <2>1, <2>3, <2>9 DEF Runs
  <2>11. Promised!PathRequest(call, path) \in Promised!Requests
    BY DEF Promised!Requests, Lookups
  <2>12. DirsReadable(disk') /\ Bytes(disk') /\ (Erases' \/ Runs')
    BY <2>1, <2>5, <2>10
  <2> QED BY <1>1, <2>1, <2>3, <2>5, <2>11, <2>12, Asks
<1> QED BY <1>2, <1>3 DEF PathCall

(* A call begins to remove. *)
LEMMA ClearsBegin ==
  ASSUME Story, Ownership, Idle, mounted, mounted' = mounted, disk' = disk,
         fd_table' = fd_table, NEW call \in Promised!Requests, Settle(call),
         todo' # <<>>, NEW d \in Addr, \A x \in WorkOf(todo') : Within(x, d),
         NEW h, h = Head(todo'), h.op # "walk", NEW z, z = EndOf(todo'), Aim(z, d)'
  PROVE  Good
<1>1. settled' = settled /\ asked' = call
  BY DEF Settle
<1>2. /\ Rests /\ Kept({}, {}) /\ Unopened({}) /\ DirsReadable(disk) /\ Bytes(disk)
  BY RestIs
<1>3. PICK none, busy : none = {} /\ busy = Leaving(todo')
  OBVIOUS
<1>4. KeptOn(disk', none, {})
  BY <1>2, <1>3, KeptIs
<1>5. KeptOn(disk', none, busy)
  BY <1>4 DEF KeptOn
<1>6. Kept(none, busy)'
  BY <1>1, <1>5, KeptIs
<1>7. Unopened(none)'
  BY <1>1, <1>2, <1>3 DEF Unopened
<1>8. Promised!Below(d)' = Promised!Below(d)
  BY <1>1 DEF Promised!Below, Promised!Nodes
<1>9. \A x \in WorkOf(todo') : Within(x, d)'
  BY <1>8 DEF Within, Unlinks
<1>10. (\A x \in WorkOf(todo) : Within(x, d))'
  BY <1>9
<1>11. Aim(todo[Len(todo)], d)'
  BY DEF EndOf
<1>12. (Head(todo).op = "walk" => Finds(Head(todo), d))'
  OBVIOUS
<1>13. Kept(none, Leaving(todo))'
  BY <1>3, <1>6 DEF Leaving, WorkOf
<1>14. Clears(none, d)'
  BY <1>3, <1>7, <1>8, <1>10, <1>11, <1>12, <1>13 DEF Clears
<1>15. none \in SUBSET Addr
  BY <1>3
<1>16. Runs'
  BY <1>14, <1>15 DEF Runs
<1>17. DirsReadable(disk') /\ Bytes(disk')
  BY <1>2
<1> QED BY <1>2, <1>16, <1>17, Asks

(* The root is asked about with no name. *)
LEMMA RootIs ==
  ASSUME TypeOK, NEW list \in Lists, AtRest(list), Kept({}, {})
  PROVE  0 \in Promised!Dirs(<<>>)
<1>1. PICK path : path = <<>>
  OBVIOUS
<1>2. path \in AnyPath /\ Len(path) = 0 /\ 0 \in 0 .. Len(path)
  BY <1>1 DEF AnyPath
<1>3. PICK k : k = 0
  OBVIOUS
<1>4. Leads(disk, path, k, 0)
  <2>1. PICK t : t = [i \in 0 .. k |-> 0]
    OBVIOUS
  <2>2. t \in [0 .. k -> Addr] /\ t[0] = 0 /\ t[k] = 0
    BY <1>3, <2>1, Ends
  <2>3. Trail(disk, path, k, t)
    BY <1>3, <2>2, Ends DEF Trail
  <2> QED BY <2>2, <2>3 DEF Leads
<1>5. 0 \in Promised!Dirs(Promised!Upto(path, k))
  BY <1>2, <1>3, <1>4, LeadsDirs
<1>6. Promised!Upto(path, k) = path
  BY <1>2, <1>3, Prefix
<1> QED BY <1>1, <1>5, <1>6

LEMMA StoryRemovesRoot ==
  ASSUME Story, Ownership, Inv, TypeOK', RemovesRoot PROVE Good
<1>1. RemoveAllOfRoot /\ Settle(Promised!PathRequest("removeAll", <<>>))
  BY DEF RemovesRoot, ByPath
<1>2. PICK call : call = Promised!PathRequest("removeAll", <<>>)
  OBVIOUS
<1>3. call \in Promised!Requests /\ Settle(call)
  BY <1>1, <1>2 DEF Promised!Requests
<1>4. PICK z : z = Scan(<<>>, 0, disk[0], 1)
  OBVIOUS
<1>5. /\ Idle /\ mounted /\ mounted' = mounted /\ disk' = disk /\ fd_table' = fd_table
      /\ todo' = <<z>>
  BY <1>1, <1>4, Ends DEF RemoveAllOfRoot, Begin, process
<1>6. z.op = "scan" /\ z.dir = 0 /\ z.at = 1
  BY <1>4 DEF Scan
<1>7. todo' # <<>> /\ z = Head(todo') /\ z = EndOf(todo')
  BY <1>5, EndsAre
<1>8. Within(z, 0)
  <2>1. \A i \in 1 .. Slots : ~ (i < 1)
    BY Bounds
  <2>2. 0 \in Promised!Below(0)
    BY BelowSelf
  <2> QED BY <1>6, <2>1, <2>2 DEF Within, Unlinks
<1>9. \A x \in WorkOf(todo') : Within(x, 0)
  <2>1. WorkOf(todo') = {z}
    BY <1>5 DEF WorkOf
  <2> QED BY <1>8, <2>1
<1>10. settled' = settled /\ asked' = call
  BY <1>3, <1>7 DEF Settle
<1>11. PICK list \in Lists : AtRest(list)
  BY <1>5, WhereIdle
<1>12. 0 \in Promised!Dirs(<<>>)
  BY <1>5, <1>11, RestIs, RootIs DEF Inv
<1>13. (0 \in Promised!Dirs(<<>>))'
  BY <1>10, <1>12
     DEF Promised!Dirs, Promised!At, Promised!Way, Promised!IsDir, Promised!Nodes
<1>14. asked'.op = "removeAll" /\ asked'.path = <<>>
  BY <1>2, <1>10 DEF Promised!PathRequest
<1>15. Aim(z, 0)'
  <2>1. asked' = Promised!PathRequest(asked'.op, asked'.path)
    BY <1>2, <1>10, <1>14
  <2>2. (0 \in Promised!Dirs(asked.path))'
    BY <1>13, <1>14
  <2> QED BY <1>6, <1>14, <2>1, <2>2 DEF Aim, Promised!PathRequest
<1>16. PICK d \in Addr : d = 0
  BY Ends
<1>17. \A x \in WorkOf(todo') : Within(x, d)
  BY <1>9, <1>16
<1>18. Aim(z, d)'
  BY <1>15, <1>16
<1> QED BY <1>3, <1>5, <1>6, <1>7, <1>17, <1>18, ClearsBegin

(* A descriptor between calls leads to a file of the tree. *)
LEMMA OpenIs ==
  ASSUME Story, Ownership, TypeOK, Idle, NEW fd \in FDs, NEW n, n = fd_table[fd], n # 0
  PROVE  /\ n \in Addr /\ n \in Inodes(disk) /\ disk[n].kind = "file"
         /\ disk[n].type = "INODE"
         /\ settled.fds[fd] = n /\ n \in DOMAIN settled.tree
         /\ settled.tree[n] = Node(disk, n)
<1>1. PICK list \in Lists : AtRest(list)
  BY WhereIdle
<1>2. settled.tree = Tree(disk) /\ settled.fds = fd_table
  BY RestIs
<1>3. disk \in Disks /\ Owns(disk, {}, {}, list) /\ Shaped(disk) /\ OnFiles(disk, fd_table, {})
  BY <1>1, RestOf DEF AtRest
<1>4. n \in Addr /\ disk[n].kind = "file"
  BY <1>3 DEF OnFiles, TypeOK
<1>5. disk[n].type = "INODE"
  BY <1>3, <1>4, Ends DEF Shaped
<1>6. n \in Inodes(disk)
  BY <1>3, <1>4, <1>5, NodesAre
<1> QED BY <1>2, <1>4, <1>5, <1>6, TreeIs

LEMMA StoryDeletes ==
  ASSUME Story, Ownership, Inv, TypeOK', NEW fd \in FDs, Deletes(fd) PROVE Good
<1>1. DeleteFile(fd) /\ Settle(Promised!DeleteRequest(fd))
  BY DEF Deletes
<1>2. PICK call : call = Promised!DeleteRequest(fd)
  OBVIOUS
<1>3. call \in Promised!Requests /\ Settle(call)
  BY <1>1, <1>2 DEF Promised!Requests
<1>4. CASE NotReady(fd)
  BY <1>3, <1>4, StoryNotReady
<1>5. CASE Ready(fd) /\ Parents(fd_table[fd]) = {} /\ Refuse(ERR_BAD_DISK)
  BY <1>3, <1>5, StoryRefuse DEF ERR_BAD_DISK
<1>6. CASE /\ Ready(fd)
           /\ \E parent \in Addr :
                /\ First(Parents(fd_table[fd]), parent)
                /\ Begin(RemoveInode(fd_table[fd], parent))
           /\ UNCHANGED <<disk, process>>
  <2>1. PICK parent \in Addr : Begin(RemoveInode(fd_table[fd], parent))
    BY <1>6
  <2>2. PICK n : n = fd_table[fd]
    OBVIOUS
  <2>3. PICK a, b, z : a = Release(disk[n].ptr, 1) /\ b = FreeBody(n) /\ z = Unlink(n, parent)
    OBVIOUS
  <2>4. /\ Idle /\ mounted /\ mounted' = mounted /\ disk' = disk /\ fd_table' = fd_table
        /\ todo' = <<a, b, z>> /\ n # 0
    BY <1>6, <2>1, <2>2, <2>3 DEF RemoveInode, Begin, process, Ready
  <2>5. TypeOK
    BY DEF Inv
  <2>6. /\ n \in Addr /\ settled.fds[fd] = n /\ n \in DOMAIN settled.tree
    BY <2>2, <2>4, <2>5, OpenIs
  <2>7. /\ a.op = "release" /\ b.op = "freeBody" /\ z.op = "unlink" /\ z.blk = n
    BY <2>3 DEF Release, FreeBody, Unlink
  <2>8. todo' # <<>> /\ a = Head(todo') /\ z = EndOf(todo')
    BY <2>4, EndsAre
  <2>9. \A x \in WorkOf(todo') : Within(x, n)
    <3>1. n \in Promised!Below(n)
      BY <2>6, BelowSelf
    <3>2. \A x \in WorkOf(todo') : x = a \/ x = b \/ x = z
      BY <2>4 DEF WorkOf
    <3>3. Within(a, n) /\ Within(b, n) /\ Within(z, n)
      BY <2>4, <2>7, <3>1 DEF Within, Unlinks
    <3> QED BY <3>2, <3>3
  <2>10. settled' = settled /\ asked' = call
    BY <1>3, <2>8 DEF Settle
  <2>11. asked'.op = "deleteFile" /\ asked'.fd = fd
         /\ asked' = Promised!DeleteRequest(asked'.fd)
    BY <1>2, <2>10 DEF Promised!DeleteRequest
  <2>12. Aim(z, n)'
    BY <2>6, <2>7, <2>10, <2>11 DEF Aim, Promised!DeleteRequest
  <2> QED BY <1>3, <2>4, <2>6, <2>7, <2>8, <2>9, <2>12, ClearsBegin
<1> QED BY <1>1, <1>4, <1>5, <1>6 DEF DeleteFile

LEMMA StoryWrites ==
  ASSUME Story, Ownership, Inv, TypeOK', NEW fd \in FDs, NEW tag \in Tags,
         NEW size \in Sizes, Writes(fd, tag, size)
  PROVE  Good
<1>1. WriteFile(fd, tag, size) /\ Settle(Promised!WriteRequest(fd, tag, size))
  BY DEF Writes
<1>2. PICK call : call = Promised!WriteRequest(fd, tag, size)
  OBVIOUS
<1>3. call \in Promised!Requests /\ Settle(call)
  BY <1>1, <1>2 DEF Promised!Requests
<1>4. CASE NotReady(fd)
  BY <1>3, <1>4, StoryNotReady
<1>5. CASE /\ Ready(fd)
           /\ LET inode == [disk[fd_table[fd]] EXCEPT !.size = size]
              IN  Begin(<<Release(inode.ptr, 1), Grab(fd, tag, inode, 0)>>)
           /\ UNCHANGED <<disk, process>>
  <2>1. PICK n : n = fd_table[fd]
    OBVIOUS
  <2>2. PICK inode : inode = [disk[n] EXCEPT !.size = size]
    OBVIOUS
  <2>3. PICK a, g : a = Release(inode.ptr, 1) /\ g = Grab(fd, tag, inode, 0)
    OBVIOUS
  <2>4. /\ Idle /\ mounted /\ mounted' = mounted /\ disk' = disk /\ fd_table' = fd_table
        /\ todo' = <<a, g>> /\ n # 0
    BY <1>5, <2>1, <2>2, <2>3 DEF Begin, process, Ready
  <2>5. TypeOK /\ disk \in Disks
    BY DEF Inv, TypeOK, Disks
  <2>6. /\ n \in Addr /\ settled.fds[fd] = n /\ n \in DOMAIN settled.tree
        /\ settled.tree[n] = Node(disk, n) /\ n \in Inodes(disk) /\ disk[n].kind = "file"
    BY <2>1, <2>4, <2>5, OpenIs
  <2>7. inode.size = size /\ inode.name = disk[n].name
    BY <2>2, <2>5, <2>6, DiskFields DEF Sized, Block
  <2>8. /\ g.op = "grab" /\ g.fd = fd /\ g.tag = tag /\ g.inode = inode /\ g.at = 0
    BY <2>3 DEF Grab
  <2>9. todo' # <<>> /\ g = EndOf(todo')
    BY <2>4, EndsAre
  <2>10. settled' = settled /\ asked' = call
    BY <1>3, <2>9 DEF Settle
  <2>11. /\ asked'.op = "writeFile" /\ asked'.fd = fd /\ asked'.tag = tag
         /\ asked'.size = size /\ asked' = Promised!WriteRequest(asked'.fd, asked'.tag, asked'.size)
    BY <1>2, <2>10 DEF Promised!WriteRequest
  <2>12. /\ Rests /\ Kept({}, {}) /\ Unopened({}) /\ DirsReadable(disk) /\ Bytes(disk)
    BY <2>4, RestIs
  <2>13. Kept({}, {n})'
    <3>1. PICK none, busy : none = {} /\ busy = {n}
      OBVIOUS
    <3>2. KeptOn(disk', none, {})
      BY <2>4, <2>12, <3>1, KeptIs
    <3>3. KeptOn(disk', none, busy)
      BY <3>2 DEF KeptOn
    <3>4. Kept(none, busy)'
      BY <2>10, <3>3, KeptIs
    <3> QED BY <3>1, <3>4
  <2>14. Unopened({})'
    BY <2>4, <2>10, <2>12 DEF Unopened
  <2>15. /\ settled.tree[n].kind = "file" /\ disk[n].name = settled.tree[n].name
         /\ MinOf(DirOf(disk, n)) = settled.tree[n].dir
    BY <2>6 DEF Node
  <2>16. n \in Inodes(disk)' /\ (MinOf(DirOf(disk, n)) = settled.tree[n].dir)'
    BY <2>4, <2>6, <2>10, <2>15 DEF Inodes, DirOf
  <2>17. \A j \in 1 .. 0 : FALSE
    OBVIOUS
  <2>18. Fills(g, n)'
    BY <2>4, <2>6, <2>7, <2>8, <2>10, <2>11, <2>13, <2>14, <2>15, <2>16, <2>17
       DEF Fills, Promised!WriteRequest
  <2>19. Fills(todo[Len(todo)], n)'
    BY <2>9, <2>18 DEF EndOf
  <2>20. Runs'
    BY <2>4, <2>6, <2>9, <2>11, <2>19 DEF Runs
  <2>21. DirsReadable(disk') /\ Bytes(disk')
    BY <2>4, <2>12
  <2> QED BY <1>3, <2>4, <2>9, <2>12, <2>20, <2>21, Asks
<1> QED BY <1>1, <1>4, <1>5 DEF WriteFile

=============================================================================
