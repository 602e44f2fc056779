----------------------------- MODULE OwnersProofs -----------------------------
(***************************************************************************)
(* Every block has one owner between calls, whatever the size of the disk, *)
(* the paths, the sizes and the order of the calls: Ownership holds        *)
(* throughout every call of a program that keeps its promises.  When the   *)
(* process dies in a call, what tfs_mount accepts of the disk that is left *)
(* has owners again: Recovers holds at every step of such a program.       *)
(***************************************************************************)
EXTENDS OwnersLemmas

---------------------------------------------------------------------------
(* Freeing: the block, the head of the list, the pointer. *)

LEMMA FreeNext ==
  ASSUME TypeOK, TypeOK', NEW given, NEW other, NEW list \in Lists,
         NEW stack \in Stacks, Sound(given, {}, {}, list), Waiting(disk, stack, list),
         Spent(disk, given),
         NEW b \in Addr, b # 0, disk[b].type # "FREE",
         GivesUp(disk, given, other, b),
         OffTree(disk, stack, b),
         disk' = FreedOn(disk, b), fd_table' = fd_table,
         NEW coming, coming = IF disk[b].kind = "file" THEN {b} ELSE {}
  PROVE  /\ Sound(other, {b}, coming, list)' /\ Freeing(b)'
         /\ Waiting(disk', stack, list)
         /\ \A c \in Addr \ {b} : disk'[c] = disk[c]
         /\ disk'[b].kind = "none"
<1>1. /\ Owns(disk, given, {}, list) /\ DirNames(disk) /\ OnFiles(disk, fd_table, {})
      /\ disk \in Disks /\ disk' \in Disks /\ fd_table \in [FDs -> Addr]
  BY DEF Sound, TypeOK, Disks
<1>2. Owns(disk', other, {b}, list)
  BY <1>1, Free
<1>3. /\ disk'[b].type = "FREE" /\ disk'[b].next = disk'[0].next
      /\ disk'[b].kind = "none" /\ \A c \in Addr \ {b} : disk'[c] = disk[c]
  BY <1>1, Ends DEF Disks, FreedOn, FreeBlk, Blank
<1>9. DirNames(disk')
  BY <1>1, FreedTree
<1>8. OnFiles(disk', fd_table', coming)
  BY <1>1, <1>3 DEF OnFiles
<1>4. OneParent(disk)
  BY <1>1, OneParentIs
<1>5. Waiting(disk', stack, list)
  BY <1>1, <1>4, FreeWaits
<1>6. Sound(other, {b}, coming, list)'
  BY <1>2, <1>8, <1>9, Settled
<1>7. Freeing(b)'
  BY <1>3, Ends DEF Freeing, FreePtr
<1> QED BY <1>3, <1>5, <1>6, <1>7

LEMMA HeadNext ==
  ASSUME TypeOK, NEW given, NEW coming, NEW list \in Lists, NEW stack \in Stacks,
         NEW b \in Addr, Sound(given, {b}, coming, list), Waiting(disk, stack, list),
         Freeing(b), disk' = WithHead(disk, b), fd_table' = fd_table
  PROVE  /\ \E more \in Lists :
              /\ Len(more) = Len(list) + 1
              /\ Sound(given, {}, coming, more)'
              /\ Waiting(disk', stack, more)
         /\ SameTree(disk, disk')
         /\ \A c \in Addr : Alike(disk[c], disk'[c])
<1>1. /\ Owns(disk, given, {b}, list) /\ DirNames(disk)
      /\ OnFiles(disk, fd_table, coming)
      /\ disk \in Disks /\ fd_table \in [FDs -> Addr]
  BY DEF Sound, TypeOK, Disks
<1>2. b # 0 /\ disk[b].type = "FREE" /\ disk[b].next = disk[0].next
  BY Ends DEF Freeing, FreePtr
<1>3. PICK more : more = <<b>> \o list
  OBVIOUS
<1>4. /\ more \in Lists /\ Len(more) = Len(list) + 1
      /\ Owns(disk', given, {}, more)
      /\ \A i \in 1 .. Len(list) : \E j \in 1 .. Len(more) : more[j] = list[i]
  BY <1>1, <1>2, <1>3, FreeHeadOf
<1>5. /\ \A c \in Addr : Alike(disk[c], disk'[c])
      /\ \A c \in Addr \ {0} : disk'[c] = disk[c]
      /\ SameTree(disk, disk')
  BY <1>1, HeadWrite
<1>6. DirNames(disk') /\ OnFiles(disk', fd_table', coming)
  BY <1>1, <1>5, TreeStays
<1>7. Waiting(disk', stack, more)
  BY <1>1, <1>4, <1>5, HeadWaits
<1>8. Sound(given, {}, coming, more)'
  BY <1>4, <1>6, Settled
<1> QED BY <1>4, <1>5, <1>7, <1>8

(* Clearing the pointer to a freed block leaves no pointer that does not   *)
(* count.                                                                  *)
LEMMA ClearedOwns ==
  ASSUME TypeOK, TypeOK', NEW coming, NEW list \in Lists, NEW stack,
         NEW n \in Addr, NEW p \in Addr, NEW k \in 1 .. Slots,
         Sound({<<p, k>>}, {}, coming, list),
         Removes(n, p, k, stack), disk[n].type = "FREE",
         disk' = WithPtr(disk, p, k, 0)
  PROVE  Owns(disk', {}, {}, list)
<1>1. /\ Owns(disk, {<<p, k>>}, {}, list)
      /\ disk \in Disks /\ disk' \in Disks
  BY DEF Sound, TypeOK, Disks
<1>2. n # 0 /\ IsDirOn(disk, p) /\ disk[p].ptr[k] = n
  BY DEF Removes, InDir
<1>3. /\ \A x \in Addr : Alike(disk[x], disk'[x]) /\ disk'[x].next = disk[x].next
      /\ disk'[p].ptr[k] = 0
      /\ \A x \in Addr, i \in 1 .. Slots :
           x # p \/ i # k => disk'[x].ptr[i] = disk[x].ptr[i]
  BY <1>1, PtrWrite
<1>4. \A x \in Addr : /\ disk'[x].type = disk[x].type /\ disk'[x].kind = disk[x].kind
                      /\ disk'[x].name = disk[x].name /\ disk'[x].next = disk[x].next
  BY <1>3 DEF Alike
<1>5. disk[p].kind # "file" /\ disk[n].kind = "none"
  BY <1>1, <1>2, Ends DEF IsDirOn, Owns, Shaped
<1>6. Shaped(disk')
  <2>1. Shaped(disk)
    BY <1>1 DEF Owns
  <2>2. ASSUME NEW x \in Addr \ {0}
        PROVE  /\ disk'[x].type \in {"FREE", "INODE", "FILEEX"}
               /\ disk'[x].kind # "none" <=> disk'[x].type = "INODE"
               /\ disk'[x].kind = "none" => \A i \in 1 .. Slots : disk'[x].ptr[i] = 0
               /\ disk'[x].kind = "file" => Gapless(disk'[x].ptr)
    <3>1. CASE x = p
      BY <1>2, <1>4, <1>5, <2>1, <3>1, Ends DEF Shaped, IsDirOn
    <3>2. CASE x # p
      BY <1>3, <1>4, <2>1, <3>2, Ends DEF Shaped, Gapless
    <3> QED BY <3>1, <3>2
  <2> QED BY <1>4, <2>1, <2>2, Ends DEF Shaped
<1>7. Cleared(disk, {<<p, k>>}, disk', {})
  <2>1. ASSUME NEW y \in Addr, NEW j \in 1 .. Slots
        PROVE  /\ Counts(disk', {}, y, j) <=> Counts(disk, {<<p, k>>}, y, j)
               /\ Counts(disk, {<<p, k>>}, y, j) => disk'[y].ptr[j] = disk[y].ptr[j]
    BY <1>3 DEF Counts
  <2> QED BY <1>4, <2>1 DEF Cleared
<1> QED BY <1>1, <1>6, <1>7, Detach

(* The pointer k of p to the freed n is cleared, for whoever waits.        *)
LEMMA ClearNext ==
  ASSUME TypeOK, TypeOK', NEW coming, NEW list \in Lists, NEW stack \in Stacks,
         NEW n \in Addr, NEW p \in Addr, NEW k \in 1 .. Slots,
         Sound({<<p, k>>}, {}, coming, list), Waiting(disk, stack, list),
         Removes(n, p, k, stack), disk[n].type = "FREE",
         disk' = WithPtr(disk, p, k, 0), todo' = stack,
         \A fd \in FDs : \/ fd_table'[fd] = 0
                         \/ fd_table'[fd] = fd_table[fd] /\ fd_table[fd] \notin coming
  PROVE  Ownership'
<1>1. /\ Owns(disk, {<<p, k>>}, {}, list) /\ DirNames(disk)
      /\ OnFiles(disk, fd_table, coming)
      /\ disk \in Disks /\ disk' \in Disks
      /\ fd_table \in [FDs -> Addr]
  BY DEF Sound, TypeOK, Disks
<1>2. /\ n # 0 /\ IsDirOn(disk, p) /\ disk[p].ptr[k] = n
      /\ stack # <<>> => p = stack[1].dir /\ k = stack[1].at
  BY DEF Removes, InDir
<1>3. /\ \A x \in Addr : Alike(disk[x], disk'[x]) /\ disk'[x].next = disk[x].next
      /\ disk'[p].ptr[k] = 0
      /\ \A x \in Addr, i \in 1 .. Slots :
           x # p \/ i # k => disk'[x].ptr[i] = disk[x].ptr[i]
  BY <1>1, PtrWrite
<1>4. \A x \in Addr : /\ disk'[x].type = disk[x].type /\ disk'[x].kind = disk[x].kind
                      /\ disk'[x].name = disk[x].name /\ disk'[x].next = disk[x].next
  BY <1>3 DEF Alike
<1>5. disk[p].kind # "file" /\ disk[n].kind = "none"
  BY <1>1, <1>2, Ends DEF IsDirOn, Owns, Shaped
<1>8. Owns(disk', {}, {}, list)
  BY <1>3, ClearedOwns
<1>9. DirNames(disk')
  <2>1. \A x \in Addr, i \in 1 .. Slots :
          /\ IsDirOn(disk', x) => IsDirOn(disk, x)
          /\ disk'[x].ptr[i] # 0 =>
               disk[x].ptr[i] = disk'[x].ptr[i] /\ disk[x].ptr[i] \in Addr
    BY <1>1, <1>3, <1>4, DiskFields DEF IsDirOn
  <2> QED BY <1>1, <1>4, <2>1, NamesStay
<1>10. OnFiles(disk', fd_table', {})
  BY <1>1, <1>4 DEF OnFiles
<1>11. CASE stack = <<>>
  BY <1>8, <1>9, <1>10, <1>11, ToRest
<1>12. CASE stack # <<>>
  <2>1. Spent(disk, {<<p, k>>})
    BY <1>2, <1>5 DEF Spent
  <2>2. OneParent(disk)
    BY <1>1, <2>1, OneParentIs
  <2>3. Spares(disk, disk', p, k)
    BY <1>1, <1>3, <1>4, DiskFields DEF Spares
  <2>4. \A i \in 1 .. Len(list) : \E j \in 1 .. Len(list) : list[j] = list[i]
    OBVIOUS
  <2>5. Waiting(disk', stack, list)
    BY <1>1, <1>2, <1>12, <2>2, <2>3, <2>4, FramesStay
  <2>6. AtRest(list)'
    BY <1>8, <1>9, <1>10, Settled DEF AtRest
  <2>7. AtRewrite(list, stack)'
    BY <1>2, <1>3, <1>12, <2>6 DEF AtRewrite
  <2> QED BY <2>5, <2>7, Arrive
<1> QED BY <1>11, <1>12

LEMMA FreedIs == ASSUME NEW b PROVE Freed(b) = FreedOn(disk, b)
  BY DEF Freed, FreedOn, FreePtr, SUPERBLOCK_DISKLOC

LEMMA BodyFreed ==
  ASSUME FreeBlockBody, NEW b, Head(todo) = FreeBody(b)
  PROVE  /\ disk' = FreedOn(disk, b) /\ fd_table' = fd_table
         /\ todo' = <<FreeHead(b)>> \o Tail(todo)
<1>1. Head(todo).blk = b
  BY DEF FreeBody
<1>2. disk' = Freed(b) /\ Resume(<<FreeHead(b)>>) /\ UNCHANGED process
  BY <1>1 DEF FreeBlockBody
<1> QED BY <1>2, FreedIs DEF Resume, process

(* Where the removal of an entry is, told from the step. *)
LEMMA WhereDir ==
  ASSUME NEW list, NEW stack \in Stacks, AtRemoveDir(list, stack), NEW op, Doing(op)
  PROVE  \E n, p \in Addr, k \in 1 .. Slots :
           /\ Removes(n, p, k, stack)
           /\ op = "freeBody" => DirBody(n, p, list, stack)
           /\ op = "freeHead" => DirHead(n, p, k, list, stack)
           /\ op = "unlinkDir" => DirGone(n, p, k, list, stack)
<1>1. PICK n \in Addr, p \in Addr, k \in 1 .. Slots :
        /\ Removes(n, p, k, stack)
        /\ DirBody(n, p, list, stack) \/ DirHead(n, p, k, list, stack)
             \/ DirGone(n, p, k, list, stack)
  BY DEF AtRemoveDir
<1>2. /\ DirBody(n, p, list, stack) => Head(todo).op = "freeBody"
      /\ DirHead(n, p, k, list, stack) => Head(todo).op = "freeHead"
      /\ DirGone(n, p, k, list, stack) => Head(todo).op = "unlinkDir"
  <2>1. /\ DirBody(n, p, list, stack) => Head(todo) = FreeBody(n)
        /\ DirHead(n, p, k, list, stack) => Head(todo) = FreeHead(n)
        /\ DirGone(n, p, k, list, stack) => Head(todo) = UnlinkDir(n, p)
    BY Tops DEF DirBody, DirHead, DirGone
  <2> QED BY <2>1 DEF FreeBody, FreeHead, UnlinkDir
<1> QED BY <1>1, <1>2 DEF Doing

LEMMA WhereFile ==
  ASSUME NEW list, NEW stack \in Stacks, AtRemoveFile(list, stack), NEW op, Doing(op)
  PROVE  \E n, p \in Addr, k \in 1 .. Slots :
           /\ Removes(n, p, k, stack)
           /\ op = "release" => \E i \in 1 .. Slots + 1 : FileBlocks(n, p, i, list, stack)
           /\ op = "freeBody" => FileBody(n, p, list, stack)
           /\ op = "freeHead" => \/ FileHead(n, p, k, list, stack)
                                 \/ \E i \in 1 .. Slots + 1, b \in Addr :
                                      FileBlockHead(n, p, i, b, list, stack)
           /\ op = "unlink" => FileGone(n, p, k, list, stack)
<1>1. PICK n \in Addr, p \in Addr, k \in 1 .. Slots :
        /\ Removes(n, p, k, stack)
        /\ \/ \E i \in 1 .. Slots + 1 :
                \/ FileBlocks(n, p, i, list, stack)
                \/ \E b \in Addr : FileBlockHead(n, p, i, b, list, stack)
           \/ FileBody(n, p, list, stack)
           \/ FileHead(n, p, k, list, stack)
           \/ FileGone(n, p, k, list, stack)
  BY DEF AtRemoveFile
<1>2. /\ \A i : FileBlocks(n, p, i, list, stack) => Head(todo).op = "release"
      /\ \A i, b : FileBlockHead(n, p, i, b, list, stack) => Head(todo).op = "freeHead"
      /\ FileBody(n, p, list, stack) => Head(todo).op = "freeBody"
      /\ FileHead(n, p, k, list, stack) => Head(todo).op = "freeHead"
      /\ FileGone(n, p, k, list, stack) => Head(todo).op = "unlink"
  <2>1. /\ \A i : FileBlocks(n, p, i, list, stack) => Head(todo) = Release(disk[n].ptr, i)
        /\ \A i, b : FileBlockHead(n, p, i, b, list, stack) => Head(todo) = FreeHead(b)
        /\ FileBody(n, p, list, stack) => Head(todo) = FreeBody(n)
        /\ FileHead(n, p, k, list, stack) => Head(todo) = FreeHead(n)
        /\ FileGone(n, p, k, list, stack) => Head(todo) = Unlink(n, p)
    BY Tops DEF FileBlocks, FileBlockHead, FileBody, FileHead, FileGone
  <2> QED BY <2>1 DEF FreeBody, FreeHead, Unlink, Release
<1> QED BY <1>1, <1>2 DEF Doing

(* The entry that is removed is the only pointer to what it leads to. *)
LEMMA OnlyEntry ==
  ASSUME TypeOK, NEW given, NEW hand, NEW list, Owns(disk, given, hand, list),
         NEW n \in Addr, NEW p \in Addr, NEW k \in 1 .. Slots, NEW stack,
         Removes(n, p, k, stack), <<p, k>> \notin given
  PROVE  /\ n # 0 /\ IsDirOn(disk, p) /\ disk[p].kind # "file" /\ disk[p].ptr[k] = n
         /\ disk[n].type = "INODE"
         /\ \A y \in Addr, j \in 1 .. Slots :
              Counts(disk, given, y, j) /\ disk[y].ptr[j] = n => y = p /\ j = k
<1>1. n # 0 /\ IsDirOn(disk, p) /\ disk[p].ptr[k] = n
  BY DEF Removes, InDir
<1>2. disk[p].kind # "file"
  BY <1>1, Ends DEF IsDirOn, Owns, Shaped
<1>3. Counts(disk, given, p, k)
  BY <1>1 DEF Counts
<1> QED BY <1>1, <1>2, <1>3, OneOwnerOf

LEMMA OwnDirBody ==
  ASSUME TypeOK, TypeOK', FreeBlockBody, NEW list \in Lists, NEW stack \in Stacks,
         Waiting(disk, stack, list), NEW n \in Addr, NEW p \in Addr, NEW k \in 1 .. Slots,
         Removes(n, p, k, stack), DirBody(n, p, list, stack)
  PROVE  Ownership'
<1>1. /\ todo = <<FreeBody(n), UnlinkDir(n, p)>> \o stack
      /\ Sound({}, {}, {}, list) /\ disk[n].kind = "dir"
      /\ \A i \in 1 .. Slots : disk[n].ptr[i] = 0
  BY DEF DirBody, AtRest
<1>2. /\ Head(todo) = FreeBody(n)
      /\ Tail(todo) = <<UnlinkDir(n, p)>> \o stack
  BY <1>1, Tops
<1>3. /\ disk' = FreedOn(disk, n) /\ todo' = <<FreeHead(n)>> \o Tail(todo)
      /\ fd_table' = fd_table
  BY <1>2, BodyFreed
<1>4. Owns(disk, {}, {}, list)
  BY <1>1 DEF Sound
<1>5. /\ n # 0 /\ IsDirOn(disk, p) /\ disk[p].kind # "file" /\ disk[p].ptr[k] = n
      /\ disk[n].type = "INODE"
      /\ \A y \in Addr, j \in 1 .. Slots :
           Counts(disk, {}, y, j) /\ disk[y].ptr[j] = n => y = p /\ j = k
  <2>1. PICK given : given = {}
    OBVIOUS
  <2>2. <<p, k>> \notin given /\ Owns(disk, given, {}, list)
    BY <1>4, <2>1
  <2>3. n # 0 /\ IsDirOn(disk, p) /\ disk[p].kind # "file" /\ disk[p].ptr[k] = n
        /\ disk[n].type = "INODE"
        /\ \A y \in Addr, j \in 1 .. Slots :
             Counts(disk, given, y, j) /\ disk[y].ptr[j] = n => y = p /\ j = k
    BY <2>2, OnlyEntry
  <2> QED BY <2>1, <2>3
<1>6. GivesUp(disk, {}, {<<p, k>>}, n)
  BY <1>1, <1>5 DEF GivesUp, Counts
<1>7. OffTree(disk, stack, n)
  <2>1. stack # <<>> => p = stack[1].dir /\ k = stack[1].at
    BY DEF Removes
  <2>2. \A x \in Addr, i \in 1 .. Slots : disk[x].ptr[i] = n => x = p
    BY <1>5 DEF Counts
  <2> QED BY <1>1, <1>5, <2>1, <2>2 DEF OffTree
<1>8. Spent(disk, {})
  BY DEF Spent
<1>9. /\ Sound({<<p, k>>}, {n}, {}, list)' /\ Freeing(n)'
      /\ Waiting(disk', stack, list)
  BY <1>1, <1>3, <1>5, <1>6, <1>7, <1>8, FreeNext
<1>c. \A c \in Addr \ {n} : disk'[c] = disk[c]
  BY <1>3 DEF FreedOn, TypeOK
<1>10. p # n
  BY <1>1, <1>5
<1>11. Removes(n, p, k, stack)'
  BY <1>5, <1>c, <1>10 DEF Removes, InDir, IsDirOn
<1>12. todo' = <<FreeHead(n), UnlinkDir(n, p)>> \o stack
  BY <1>2, <1>3, PushOne
<1>13. DirHead(n, p, k, list, stack)'
  BY <1>9, <1>12 DEF DirHead
<1>14. AtRemoveDir(list, stack)'
  BY <1>11, <1>13 DEF AtRemoveDir
<1> QED BY <1>9, <1>14, Arrive

LEMMA OwnFileBody ==
  ASSUME TypeOK, TypeOK', FreeBlockBody, NEW list \in Lists, NEW stack \in Stacks,
         Waiting(disk, stack, list), NEW n \in Addr, NEW p \in Addr, NEW k \in 1 .. Slots,
         Removes(n, p, k, stack), FileBody(n, p, list, stack)
  PROVE  Ownership'
<1>0. PICK given : given = {n} \X (1 .. Slots)
  OBVIOUS
<1>1. /\ todo = <<FreeBody(n), Unlink(n, p)>> \o stack
      /\ Sound(given, {}, {}, list) /\ disk[n].kind = "file"
  BY <1>0 DEF FileBody
<1>2. /\ Head(todo) = FreeBody(n)
      /\ Tail(todo) = <<Unlink(n, p)>> \o stack
  BY <1>1, Tops
<1>3. /\ disk' = FreedOn(disk, n) /\ todo' = <<FreeHead(n)>> \o Tail(todo)
      /\ fd_table' = fd_table
  BY <1>2, BodyFreed
<1>4. Owns(disk, given, {}, list)
  BY <1>1 DEF Sound
<1>a. n # p
  BY <1>1, <1>4, Ends DEF Removes, InDir, IsDirOn, Owns, Shaped
<1>5. /\ n # 0 /\ IsDirOn(disk, p) /\ disk[p].kind # "file" /\ disk[p].ptr[k] = n
      /\ disk[n].type = "INODE"
      /\ \A y \in Addr, j \in 1 .. Slots :
           Counts(disk, given, y, j) /\ disk[y].ptr[j] = n => y = p /\ j = k
  <2>1. <<p, k>> \notin given
    BY <1>0, <1>a
  <2> QED BY <1>4, <2>1, OnlyEntry
<1>b. \A y \in Addr, j \in 1 .. Slots :
        Counts(disk, given, y, j) <=> disk[y].ptr[j] # 0 /\ y # n
  BY <1>0 DEF Counts
<1>6. GivesUp(disk, given, {<<p, k>>}, n)
  BY <1>5, <1>b DEF GivesUp, Counts
<1>7. OffTree(disk, stack, n)
  <2>1. stack # <<>> => p = stack[1].dir /\ k = stack[1].at
    BY DEF Removes
  <2>2. ~ IsDirOn(disk, n)
    BY <1>1, <1>5, Ends DEF IsDirOn
  <2>3. \A x \in Addr, i \in 1 .. Slots :
          IsDirOn(disk, x) /\ disk[x].ptr[i] = n => x = p
    BY <1>5, <1>b, <2>2
  <2> QED BY <1>5, <2>1, <2>2, <2>3 DEF OffTree
<1>8. Spent(disk, given)
  BY <1>0, <1>1, <1>5, Ends DEF Spent, IsDirOn
<1>9. /\ Sound({<<p, k>>}, {n}, {n}, list)' /\ Freeing(n)'
      /\ Waiting(disk', stack, list)
  BY <1>1, <1>3, <1>5, <1>6, <1>7, <1>8, FreeNext
<1>c. \A c \in Addr \ {n} : disk'[c] = disk[c]
  BY <1>3 DEF FreedOn, TypeOK
<1>11. Removes(n, p, k, stack)'
  BY <1>5, <1>c, <1>a DEF Removes, InDir, IsDirOn
<1>12. todo' = <<FreeHead(n), Unlink(n, p)>> \o stack
  BY <1>2, <1>3, PushOne
<1>13. FileHead(n, p, k, list, stack)'
  BY <1>9, <1>12 DEF FileHead
<1>14. AtRemoveFile(list, stack)'
  BY <1>11, <1>13 DEF AtRemoveFile
<1> QED BY <1>9, <1>14, Arrive

LEMMA OwnFreeBlockBody ==
  ASSUME Ownership, TypeOK, TypeOK', FreeBlockBody PROVE Ownership'
<1>1. Doing("freeBody")
  BY DEF FreeBlockBody
<1>2. PICK list \in Lists, stack \in Stacks :
        /\ Waiting(disk, stack, list)
        /\ AtRemoveDir(list, stack) \/ AtRemoveFile(list, stack)
  BY <1>1, Where
<1> QED BY <1>1, <1>2, WhereDir, WhereFile, OwnDirBody, OwnFileBody

LEMMA HeadFreed ==
  ASSUME FreeBlockHead, NEW b, Head(todo) = FreeHead(b)
  PROVE  /\ disk' = WithHead(disk, b) /\ fd_table' = fd_table
         /\ todo' = Tail(todo)
<1>1. Head(todo).blk = b
  BY DEF FreeHead
<1>2. disk' = WithHead(disk, b)
  BY <1>1 DEF FreeBlockHead, WithHead, SUPERBLOCK_DISKLOC
<1>3. todo' = <<>> \o Tail(todo) /\ fd_table' = fd_table
  BY DEF FreeBlockHead, Resume, process
<1> QED BY <1>2, <1>3

LEMMA RemovesStill ==
  ASSUME TypeOK, NEW n, NEW p, NEW k \in 1 .. Slots, NEW stack,
         Removes(n, p, k, stack), SameTree(disk, disk')
  PROVE  Removes(n, p, k, stack)'
<1>1. n # 0 /\ p \in Addr /\ IsDirOn(disk, p) /\ disk[p].ptr[k] = n
      /\ (stack # <<>> => p = stack[1].dir /\ k = stack[1].at)
  BY DEF Removes, InDir
<1>2. disk'[p].kind = disk[p].kind /\ disk'[p].ptr = disk[p].ptr
  BY <1>1 DEF SameTree
<1> QED BY <1>1, <1>2 DEF Removes, InDir, IsDirOn

LEMMA OwnHeadOfDir ==
  ASSUME TypeOK, FreeBlockHead, NEW list \in Lists, NEW stack \in Stacks,
         Waiting(disk, stack, list), NEW n \in Addr, NEW p \in Addr, NEW k \in 1 .. Slots,
         Removes(n, p, k, stack), DirHead(n, p, k, list, stack)
  PROVE  Ownership'
<1>1. /\ todo = <<FreeHead(n), UnlinkDir(n, p)>> \o stack
      /\ Sound({<<p, k>>}, {n}, {}, list) /\ Freeing(n)
  BY DEF DirHead
<1>2. Head(todo) = FreeHead(n) /\ Tail(todo) = <<UnlinkDir(n, p)>> \o stack
  BY <1>1, Tops
<1>3. disk' = WithHead(disk, n) /\ todo' = Tail(todo) /\ fd_table' = fd_table
  BY <1>2, HeadFreed
<1>4. PICK more \in Lists :
        Sound({<<p, k>>}, {}, {}, more)' /\ Waiting(disk', stack, more)
  BY <1>1, <1>3, HeadNext
<1>5. SameTree(disk, disk') /\ \A c \in Addr : Alike(disk[c], disk'[c])
  BY <1>1, <1>3, HeadNext
<1>6. disk'[n].type = "FREE"
  BY <1>1, <1>5 DEF Freeing, Alike
<1>7. DirGone(n, p, k, more, stack)'
  BY <1>2, <1>3, <1>4, <1>6 DEF DirGone
<1>8. AtRemoveDir(more, stack)'
  BY <1>5, <1>7, RemovesStill DEF AtRemoveDir
<1> QED BY <1>4, <1>8, Arrive

LEMMA OwnHeadOfFile ==
  ASSUME TypeOK, FreeBlockHead, NEW list \in Lists, NEW stack \in Stacks,
         Waiting(disk, stack, list), NEW n \in Addr, NEW p \in Addr, NEW k \in 1 .. Slots,
         Removes(n, p, k, stack), FileHead(n, p, k, list, stack)
  PROVE  Ownership'
<1>1. /\ todo = <<FreeHead(n), Unlink(n, p)>> \o stack
      /\ Sound({<<p, k>>}, {n}, {n}, list) /\ Freeing(n)
  BY DEF FileHead
<1>2. Head(todo) = FreeHead(n) /\ Tail(todo) = <<Unlink(n, p)>> \o stack
  BY <1>1, Tops
<1>3. disk' = WithHead(disk, n) /\ todo' = Tail(todo) /\ fd_table' = fd_table
  BY <1>2, HeadFreed
<1>4. PICK more \in Lists :
        Sound({<<p, k>>}, {}, {n}, more)' /\ Waiting(disk', stack, more)
  BY <1>1, <1>3, HeadNext
<1>5. SameTree(disk, disk') /\ \A c \in Addr : Alike(disk[c], disk'[c])
  BY <1>1, <1>3, HeadNext
<1>6. disk'[n].type = "FREE"
  BY <1>1, <1>5 DEF Freeing, Alike
<1>7. FileGone(n, p, k, more, stack)'
  BY <1>2, <1>3, <1>4, <1>6 DEF FileGone
<1>8. AtRemoveFile(more, stack)'
  BY <1>5, <1>7, RemovesStill DEF AtRemoveFile
<1> QED BY <1>4, <1>8, Arrive

LEMMA OwnHeadOfBlock ==
  ASSUME TypeOK, FreeBlockHead, NEW list \in Lists, NEW stack \in Stacks,
         Waiting(disk, stack, list), NEW n \in Addr, NEW p \in Addr, NEW k \in 1 .. Slots,
         Removes(n, p, k, stack), NEW i \in 1 .. Slots + 1, NEW b \in Addr,
         FileBlockHead(n, p, i, b, list, stack)
  PROVE  Ownership'
<1>0. PICK given : given = {n} \X (1 .. i - 1)
  OBVIOUS
<1>1. /\ todo = <<FreeHead(b), Release(disk[n].ptr, i), FreeBody(n), Unlink(n, p)>> \o stack
      /\ Sound(given, {b}, {}, list) /\ Freeing(b) /\ disk[n].kind = "file"
  BY <1>0 DEF FileBlockHead
<1>2. /\ Head(todo) = FreeHead(b)
      /\ Tail(todo) = <<Release(disk[n].ptr, i), FreeBody(n), Unlink(n, p)>> \o stack
  BY <1>1, Tops
<1>3. disk' = WithHead(disk, b) /\ todo' = Tail(todo) /\ fd_table' = fd_table
  BY <1>2, HeadFreed
<1>4. PICK more \in Lists : Sound(given, {}, {}, more)' /\ Waiting(disk', stack, more)
  BY <1>1, <1>3, HeadNext
<1>5. SameTree(disk, disk')
  BY <1>1, <1>3, HeadNext
<1>6. disk'[n].ptr = disk[n].ptr /\ disk'[n].kind = "file"
  BY <1>1, <1>5 DEF SameTree
<1>7. FileBlocks(n, p, i, more, stack)'
  BY <1>0, <1>2, <1>3, <1>4, <1>6 DEF FileBlocks
<1>8. AtRemoveFile(more, stack)'
  BY <1>5, <1>7, RemovesStill DEF AtRemoveFile
<1> QED BY <1>4, <1>8, Arrive

(* Where tfs_writeFile is, told from the step. *)
LEMMA WhereWrite ==
  ASSUME NEW list, AtWrite(list), NEW op, Doing(op)
  PROVE  \E g \in WriteSteps, n \in Addr :
           /\ WritesTo(g, n)
           /\ op \in {"release", "freeHead"} =>
                \E i \in 1 .. Slots + 1, held \in 0 .. Slots :
                  /\ GaveBack(g, n, i, held)
                  /\ op = "release" => GivesBlock(g, n, i, held, list)
                  /\ op = "freeHead" => \E b \in Addr : GivesHead(g, n, i, held, b, list)
           /\ op \in {"grab", "fill", "point"} =>
                /\ g.op = op /\ todo = <<g>> /\ Took(g, n)
                /\ op = "grab" => Grabs(g, n, list)
                /\ op # "grab" => Places(g, n, list)
<1>1. PICK g \in WriteSteps, n \in Addr :
        WritesTo(g, n) /\ (GivesBack(g, n, list) \/ Takes(g, n, list))
  BY DEF AtWrite
<1>2. ASSUME GivesBack(g, n, list)
      PROVE  /\ op \notin {"grab", "fill", "point"}
             /\ \E i \in 1 .. Slots + 1, held \in 0 .. Slots :
                  /\ GaveBack(g, n, i, held)
                  /\ op = "release" => GivesBlock(g, n, i, held, list)
                  /\ op = "freeHead" => \E b \in Addr : GivesHead(g, n, i, held, b, list)
  <2>1. PICK i \in 1 .. Slots + 1, held \in 0 .. Slots :
          /\ GaveBack(g, n, i, held)
          /\ \/ GivesBlock(g, n, i, held, list)
             \/ \E b \in Addr : GivesHead(g, n, i, held, b, list)
    BY <1>2 DEF GivesBack
  <2>2. /\ GivesBlock(g, n, i, held, list) => Head(todo).op = "release"
        /\ \A b : GivesHead(g, n, i, held, b, list) => Head(todo).op = "freeHead"
    BY DEF GivesBlock, GivesHead, Release, FreeHead
  <2> QED BY <2>1, <2>2 DEF Doing
<1>3. ASSUME Takes(g, n, list)
      PROVE  /\ g.op = op /\ todo = <<g>> /\ Took(g, n)
             /\ op \in {"grab", "fill", "point"}
             /\ op = "grab" => Grabs(g, n, list)
             /\ op # "grab" => Places(g, n, list)
  BY <1>3 DEF Takes, Grabs, Places, Doing
<1> QED BY <1>1, <1>2, <1>3

LEMMA OwnHeadOfWrite ==
  ASSUME TypeOK, FreeBlockHead, NEW list \in Lists, NEW g \in WriteSteps, NEW n \in Addr,
         WritesTo(g, n), NEW i \in 1 .. Slots + 1, NEW held \in 0 .. Slots,
         GaveBack(g, n, i, held), NEW b \in Addr, GivesHead(g, n, i, held, b, list)
  PROVE  Ownership'
<1>0. PICK given : given = {n} \X (1 .. i - 1)
  OBVIOUS
<1>1. /\ todo = <<FreeHead(b), Release(disk[n].ptr, i), g>>
      /\ Sound(given, {b}, {}, list) /\ Freeing(b)
      /\ BlocksFor(g.inode.size) <= Len(list) + 1 + held - (i - 1)
  BY <1>0 DEF GivesHead
<1>2. Head(todo) = FreeHead(b) /\ Tail(todo) = <<Release(disk[n].ptr, i), g>>
  BY <1>1
<1>3. disk' = WithHead(disk, b) /\ todo' = Tail(todo) /\ fd_table' = fd_table
  BY <1>2, HeadFreed
<1>4. PICK more \in Lists : /\ Len(more) = Len(list) + 1
                            /\ Sound(given, {}, {}, more)'
  BY <1>1, <1>3, HeadNext, NoneWaits
<1>5. SameTree(disk, disk')
  BY <1>1, <1>3, HeadNext, NoneWaits
<1>6. disk'[n].ptr = disk[n].ptr /\ disk'[n].kind = disk[n].kind
  BY <1>5 DEF SameTree
<1>7. GivesBlock(g, n, i, held, more)'
  BY <1>0, <1>1, <1>2, <1>3, <1>4, <1>6 DEF GivesBlock
<1>8. WritesTo(g, n)' /\ GaveBack(g, n, i, held)'
  BY <1>3, <1>6 DEF WritesTo, GaveBack
<1>9. GivesBack(g, n, more)'
  BY <1>7, <1>8 DEF GivesBack
<1>10. AtWrite(more)'
  BY <1>8, <1>9 DEF AtWrite
<1> QED BY <1>10, Arrive, NoneWaits

LEMMA OwnFreeBlockHead ==
  ASSUME Ownership, TypeOK, FreeBlockHead PROVE Ownership'
<1>1. Doing("freeHead")
  BY DEF FreeBlockHead
<1>2. PICK list \in Lists, stack \in Stacks :
        /\ Waiting(disk, stack, list)
        /\ AtRemoveDir(list, stack) \/ AtRemoveFile(list, stack) \/ AtWrite(list)
  BY <1>1, Where
<1>3. CASE AtRemoveDir(list, stack)
  BY <1>1, <1>2, <1>3, WhereDir, OwnHeadOfDir
<1>4. CASE AtRemoveFile(list, stack)
  <2>1. PICK n \in Addr, p \in Addr, k \in 1 .. Slots :
          /\ Removes(n, p, k, stack)
          /\ \/ FileHead(n, p, k, list, stack)
             \/ \E i \in 1 .. Slots + 1, b \in Addr :
                  FileBlockHead(n, p, i, b, list, stack)
    BY <1>1, <1>4, WhereFile
  <2> QED BY <1>2, <2>1, OwnHeadOfFile, OwnHeadOfBlock
<1>5. CASE AtWrite(list)
  <2>1. PICK g \in WriteSteps, n \in Addr :
          /\ WritesTo(g, n)
          /\ \E i \in 1 .. Slots + 1, held \in 0 .. Slots :
               /\ GaveBack(g, n, i, held)
               /\ \E b \in Addr : GivesHead(g, n, i, held, b, list)
    BY <1>1, <1>5, WhereWrite
  <2> QED BY <2>1, OwnHeadOfWrite
<1> QED BY <1>2, <1>3, <1>4, <1>5

(* The next block of a file that gives up its blocks. *)
NextBlock(d, given, other, n, b) ==
  \E i \in 1 .. Slots :
    /\ b = d[n].ptr[i] /\ b # 0
    /\ given = {n} \X (1 .. i - 1) /\ other = {n} \X (1 .. i)

(* The entry at work of the call that waits is still there. *)
AtEntry(d, stack) == stack # <<>> => d[stack[1].dir].ptr[stack[1].at] # 0

LEMMA FileBlockNext ==
  ASSUME TypeOK, TypeOK', NEW list \in Lists, NEW stack \in Stacks,
         Waiting(disk, stack, list),
         NEW n \in Addr, disk[n].kind = "file", NEW given, NEW other, NEW b,
         NextBlock(disk, given, other, n, b), Sound(given, {}, {}, list),
         AtEntry(disk, stack),
         disk' = FreedOn(disk, b), fd_table' = fd_table
  PROVE  /\ Sound(other, {b}, {}, list)' /\ Freeing(b)'
         /\ Waiting(disk', stack, list)
         /\ disk[b].kind = "none" /\ disk[b].type = "FILEEX"
<1>0. PICK i \in 1 .. Slots :
        /\ b = disk[n].ptr[i] /\ b # 0
        /\ given = {n} \X (1 .. i - 1) /\ other = {n} \X (1 .. i)
  BY DEF NextBlock
<1>1. Owns(disk, given, {}, list) /\ disk \in Disks
  BY DEF Sound, TypeOK, Disks
<1>2. Counts(disk, given, n, i)
  BY <1>0 DEF Counts
<1>3. /\ disk[b].type = "FILEEX"
      /\ \A y \in Addr, j \in 1 .. Slots :
           Counts(disk, given, y, j) /\ disk[y].ptr[j] = b => y = n /\ j = i
  BY <1>0, <1>1, <1>2, OneOwnerOf
<1>4. b \in Addr
  BY <1>0, <1>1, DiskFields
<1>5. disk[b].kind = "none" /\ \A j \in 1 .. Slots : disk[b].ptr[j] = 0
  BY <1>1, <1>3, <1>4, Ends DEF Owns, Shaped
<1>6. GivesUp(disk, given, other, b)
  <2>1. \A j \in 1 .. Slots : ~ Counts(disk, given, b, j)
    BY <1>5 DEF Counts
  <2>2. \A y \in Addr, j \in 1 .. Slots :
          Counts(disk, other, y, j) <=> Counts(disk, given, y, j) /\ ~ (y = n /\ j = i)
    BY <1>0 DEF Counts
  <2> QED BY <1>0, <1>3, <2>1, <2>2 DEF GivesUp
<1>7. disk[n].type = "INODE" /\ n # 0 /\ ~ IsDirOn(disk, n)
  BY <1>1, Ends DEF Owns, Shaped, IsDirOn
<1>8. OffTree(disk, stack, b)
  <2>1. \A x \in Addr, l \in 1 .. Slots : IsDirOn(disk, x) => disk[x].ptr[l] # b
    BY <1>0, <1>3, <1>7 DEF Counts
  <2> QED BY <1>5, <2>1 DEF OffTree, AtEntry
<1>9. Spent(disk, given)
  BY <1>0, <1>7 DEF Spent
<1>10. PICK coming : coming = IF disk[b].kind = "file" THEN {b} ELSE {}
  OBVIOUS
<1>11. coming = {} /\ disk[b].type # "FREE"
  BY <1>3, <1>5, <1>10
<1>12. /\ Sound(other, {b}, coming, list)' /\ Freeing(b)'
       /\ Waiting(disk', stack, list)
  BY <1>0, <1>4, <1>6, <1>8, <1>9, <1>10, <1>11, FreeNext
<1> QED BY <1>3, <1>5, <1>11, <1>12

(* What is left when the pointers are at their end. *)
LEMMA NoMoreBlocks ==
  ASSUME NEW list, NEW n \in Addr, disk[n].kind = "file", NEW i \in 1 .. Slots + 1,
         n # 0, Sound({n} \X (1 .. i - 1), {}, {}, list), NoBlock(disk[n].ptr, i)
  PROVE  /\ Owns(disk, {n} \X (1 .. Slots), {}, list)
         /\ DirNames(disk) /\ OnFiles(disk, fd_table, {})
<1>1. PICK given, other : given = {n} \X (1 .. i - 1) /\ other = {n} \X (1 .. Slots)
  OBVIOUS
<1>2. Owns(disk, given, {}, list) /\ DirNames(disk) /\ OnFiles(disk, fd_table, {})
  BY <1>1 DEF Sound
<1>3. Gapless(disk[n].ptr)
  BY <1>2, Ends DEF Owns, Shaped
<1>4. \A j \in 1 .. Slots : j >= i => disk[n].ptr[j] = 0
  BY <1>3, Bounds DEF Gapless, NoBlock
<1>5. \A x \in Addr, j \in 1 .. Slots :
        Counts(disk, other, x, j) <=> Counts(disk, given, x, j)
  BY <1>1, <1>4 DEF Counts
<1> QED BY <1>1, <1>2, <1>5, GivenUp

LEMMA ReleasesNext ==
  ASSUME ReleaseBlocks, NEW ptr, NEW i, Head(todo) = Release(ptr, i)
  PROVE  /\ fd_table' = fd_table
         /\ \/ NoBlock(ptr, i) /\ disk' = disk /\ todo' = <<>> \o Tail(todo)
            \/ /\ ~ NoBlock(ptr, i)
               /\ disk' = FreedOn(disk, ptr[i])
               /\ todo' = <<FreeHead(ptr[i]), Release(ptr, i + 1)>> \o Tail(todo)
<1>1. Head(todo).ptr = ptr /\ Head(todo).at = i
  BY DEF Release
<1> QED BY <1>1, FreedIs DEF ReleaseBlocks, Resume, process

LEMMA OwnBlockOfFile ==
  ASSUME TypeOK, TypeOK', ReleaseBlocks, NEW list \in Lists, NEW stack \in Stacks,
         Waiting(disk, stack, list), NEW n \in Addr, NEW p \in Addr, NEW k \in 1 .. Slots,
         Removes(n, p, k, stack), NEW i \in 1 .. Slots + 1,
         FileBlocks(n, p, i, list, stack)
  PROVE  Ownership'
<1>0. PICK given, other : given = {n} \X (1 .. i - 1) /\ other = {n} \X (1 .. i)
  OBVIOUS
<1>1. /\ todo = <<Release(disk[n].ptr, i), FreeBody(n), Unlink(n, p)>> \o stack
      /\ Sound(given, {}, {}, list) /\ disk[n].kind = "file"
  BY <1>0 DEF FileBlocks
<1>2. /\ Head(todo) = Release(disk[n].ptr, i)
      /\ Tail(todo) = <<FreeBody(n), Unlink(n, p)>> \o stack
  BY <1>1, Tops
<1>p. PICK ptr : ptr = disk[n].ptr
  OBVIOUS
<1>3. /\ fd_table' = fd_table
      /\ \/ NoBlock(ptr, i) /\ disk' = disk /\ todo' = <<>> \o Tail(todo)
         \/ /\ ~ NoBlock(ptr, i)
            /\ disk' = FreedOn(disk, ptr[i])
            /\ todo' = <<FreeHead(ptr[i]), Release(ptr, i + 1)>> \o Tail(todo)
  BY <1>2, <1>p, ReleasesNext
<1>4. /\ n # 0 /\ p \in Addr /\ IsDirOn(disk, p) /\ disk[p].ptr[k] = n
      /\ (stack # <<>> => p = stack[1].dir /\ k = stack[1].at)
  BY DEF Removes, InDir
<1>5. CASE /\ NoBlock(ptr, i)
           /\ disk' = disk /\ todo' = <<>> \o Tail(todo)
  <2>1. Owns(disk, {n} \X (1 .. Slots), {}, list) /\ DirNames(disk) /\ OnFiles(disk, fd_table, {})
    BY <1>0, <1>1, <1>4, <1>5, <1>p, NoMoreBlocks
  <2>2. PICK all : all = {n} \X (1 .. Slots)
    OBVIOUS
  <2>3. Sound(all, {}, {}, list)'
    BY <1>3, <1>5, <2>1, <2>2, Settled
  <2>4. todo' = <<FreeBody(n), Unlink(n, p)>> \o stack
    BY <1>2, <1>5
  <2>5. FileBody(n, p, list, stack)'
    BY <1>1, <1>5, <2>2, <2>3, <2>4 DEF FileBody
  <2>6. Removes(n, p, k, stack)'
    BY <1>5 DEF Removes, InDir, IsDirOn
  <2>7. AtRemoveFile(list, stack)'
    BY <2>5, <2>6 DEF AtRemoveFile
  <2>8. Waiting(disk', stack, list)
    BY <1>5
  <2> QED BY <2>7, <2>8, Arrive
<1>6. CASE /\ ~ NoBlock(ptr, i)
           /\ disk' = FreedOn(disk, ptr[i])
           /\ todo' = <<FreeHead(ptr[i]), Release(ptr, i + 1)>> \o Tail(todo)
  <2>1. PICK b, m : b = ptr[i] /\ m = i + 1
    OBVIOUS
  <2>2. i \in 1 .. Slots /\ b # 0 /\ b = disk[n].ptr[i] /\ m \in 1 .. Slots + 1
    BY <1>6, <1>p, <2>1, Bounds DEF NoBlock
  <2>3. AtEntry(disk, stack)
    BY <1>4 DEF AtEntry
  <2>4. disk' = FreedOn(disk, b) /\ todo' = <<FreeHead(b), Release(ptr, m)>> \o Tail(todo)
    BY <1>6, <2>1
  <2>5. /\ Sound(other, {b}, {}, list)' /\ Freeing(b)'
        /\ Waiting(disk', stack, list)
        /\ disk[b].kind = "none" /\ disk[b].type = "FILEEX"
    <3>1. NextBlock(disk, given, other, n, b)
      BY <1>0, <2>2 DEF NextBlock
    <3>2. fd_table' = fd_table /\ Sound(given, {}, {}, list) /\ disk[n].kind = "file"
      BY <1>1, <1>3
    <3> QED BY <2>3, <2>4, <3>1, <3>2, FileBlockNext
  <2>6. \A c \in Addr \ {b} : disk'[c] = disk[c]
    BY <2>4 DEF FreedOn, TypeOK
  <2>7. n # b /\ p # b
    BY <1>1, <1>4, <2>2, <2>5, Ends DEF IsDirOn
  <2>8. disk'[n] = disk[n] /\ disk'[p] = disk[p]
    BY <1>4, <2>6, <2>7
  <2>9. todo' = <<FreeHead(b), Release(disk[n].ptr, m), FreeBody(n), Unlink(n, p)>> \o stack
    <3>1. PICK x : x = <<FreeBody(n), Unlink(n, p)>> \o stack
      OBVIOUS
    <3>2. <<FreeHead(b), Release(ptr, m)>> \o x
             = <<FreeHead(b), Release(ptr, m), FreeBody(n), Unlink(n, p)>> \o stack
      BY <3>1, PushTwo, SMTT(30)
    <3> QED BY <1>2, <1>p, <2>4, <3>1, <3>2
  <2>10. Sound({n} \X (1 .. m - 1), {b}, {}, list)'
    <3>1. other = {n} \X (1 .. m - 1)
      BY <1>0, <2>1, <2>2
    <3> QED BY <2>5, <3>1
  <2>11. FileBlockHead(n, p, m, b, list, stack)'
    BY <1>1, <2>5, <2>8, <2>9, <2>10 DEF FileBlockHead
  <2>12. Removes(n, p, k, stack)'
    BY <1>4, <2>8 DEF Removes, InDir, IsDirOn
  <2>13. b \in Addr
    BY <2>2, DiskFields DEF TypeOK, Disks
  <2>14. AtRemoveFile(list, stack)'
    BY <2>2, <2>11, <2>12, <2>13 DEF AtRemoveFile
  <2> QED BY <2>5, <2>14, Arrive
<1> QED BY <1>3, <1>5, <1>6

LEMMA TwoAndOne == ASSUME NEW a, NEW b, NEW c PROVE <<a, b>> \o <<c>> = <<a, b, c>>
<1>1. PICK S : S = {a, b, c}
  OBVIOUS
<1>2. <<a, b>> \in Seq(S) /\ <<c>> \in Seq(S) /\ <<a, b, c>> \in Seq(S)
  BY <1>1
<1>3. PICK x : x = <<a, b>> \o <<c>>
  OBVIOUS
<1>4. x \in Seq(S) /\ Len(x) = 3 /\ x[1] = a /\ x[2] = b /\ x[3] = c
  BY <1>2, <1>3
<1>5. x = <<a, b, c>>
  BY <1>2, <1>4
<1> QED BY <1>3, <1>5

(* A file needs a number of blocks that a disk may have. *)
LEMMA NeedOf ==
  ASSUME NEW g \in WriteSteps, NEW n \in Addr, n # 0
  PROVE  BlocksFor(g.inode.size) \in Nat /\ BlocksFor(g.inode.size) <= Slots
<1>1. NumBlocks >= 2
  BY Bounds DEF Addr
<1>2. g.inode.size \in Sizes \cup {0}
  BY DEF WriteSteps, Sized
<1> QED BY <1>1, <1>2, Needs

LEMMA OwnBlockOfWrite ==
  ASSUME TypeOK, TypeOK', ReleaseBlocks, NEW list \in Lists, NEW g \in WriteSteps,
         NEW n \in Addr, WritesTo(g, n), NEW i \in 1 .. Slots + 1, NEW held \in 0 .. Slots,
         GaveBack(g, n, i, held), GivesBlock(g, n, i, held, list)
  PROVE  Ownership'
<1>0. PICK given, other : given = {n} \X (1 .. i - 1) /\ other = {n} \X (1 .. i)
  OBVIOUS
<1>1. /\ todo = <<Release(disk[n].ptr, i), g>>
      /\ Sound(given, {}, {}, list)
      /\ BlocksFor(g.inode.size) <= Len(list) + held - (i - 1)
  BY <1>0 DEF GivesBlock
<1>w. n # 0 /\ disk[n].kind = "file"
  BY DEF WritesTo
<1>g. /\ g.op = "grab" /\ g.at = 0 /\ i <= held + 1 /\ held <= BlocksFor(g.inode.size)
      /\ \A j \in 1 .. Slots : disk[n].ptr[j] # 0 <=> j <= held
  BY DEF GaveBack
<1>b. BlocksFor(g.inode.size) \in Nat /\ Len(list) \in Nat
  BY <1>w, NeedOf DEF Lists
<1>2. Head(todo) = Release(disk[n].ptr, i) /\ Tail(todo) = <<g>>
  BY <1>1
<1>p. PICK ptr : ptr = disk[n].ptr
  OBVIOUS
<1>3. /\ fd_table' = fd_table
      /\ \/ NoBlock(ptr, i) /\ disk' = disk /\ todo' = <<>> \o Tail(todo)
         \/ /\ ~ NoBlock(ptr, i)
            /\ disk' = FreedOn(disk, ptr[i])
            /\ todo' = <<FreeHead(ptr[i]), Release(ptr, i + 1)>> \o Tail(todo)
  BY <1>2, <1>p, ReleasesNext
<1>5. CASE /\ NoBlock(ptr, i)
           /\ disk' = disk /\ todo' = <<>> \o Tail(todo)
  <2>1. /\ Owns(disk, {n} \X (1 .. Slots), {}, list)
        /\ DirNames(disk) /\ OnFiles(disk, fd_table, {})
    BY <1>0, <1>1, <1>w, <1>5, <1>p, NoMoreBlocks
  <2>2. PICK all : all = {n} \X (1 .. Slots)
    OBVIOUS
  <2>3. Sound(all, {}, {}, list)'
    BY <1>3, <1>5, <2>1, <2>2, Settled
  <2>4. todo' = <<g>>
    BY <1>2, <1>5
  <2>5. i = held + 1
    BY <1>5, <1>g, <1>p, Bounds DEF NoBlock
  <2>6. Took(g, n)'
    BY <1>5, <1>g, <1>b DEF Took
  <2>7. Grabs(g, n, list)'
    <3>1. Sound({n} \X (g.at + 1 .. Slots), {}, {}, list)'
      BY <1>g, <2>2, <2>3
    <3>2. BlocksFor(g.inode.size) <= Len(list) + g.at
      BY <1>1, <1>b, <1>g, <2>5
    <3> QED BY <1>g, <3>1, <3>2 DEF Grabs
  <2>8. WritesTo(g, n)'
    BY <1>3, <1>5 DEF WritesTo
  <2>9. AtWrite(list)'
    BY <2>4, <2>6, <2>7, <2>8 DEF AtWrite, Takes
  <2> QED BY <2>9, Arrive, NoneWaits
<1>6. CASE /\ ~ NoBlock(ptr, i)
           /\ disk' = FreedOn(disk, ptr[i])
           /\ todo' = <<FreeHead(ptr[i]), Release(ptr, i + 1)>> \o Tail(todo)
  <2>1. PICK b, m : b = ptr[i] /\ m = i + 1
    OBVIOUS
  <2>2. i \in 1 .. Slots /\ b # 0 /\ b = disk[n].ptr[i] /\ m \in 1 .. Slots + 1 /\ i <= held
    BY <1>6, <1>g, <1>p, <2>1, Bounds DEF NoBlock
  <2>3. AtEntry(disk, <<>>)
    BY DEF AtEntry
  <2>4. disk' = FreedOn(disk, b) /\ todo' = <<FreeHead(b), Release(ptr, m)>> \o Tail(todo)
    BY <1>6, <2>1
  <2>5. /\ Sound(other, {b}, {}, list)' /\ Freeing(b)'
        /\ disk[b].kind = "none" /\ disk[b].type = "FILEEX"
    <3>1. NextBlock(disk, given, other, n, b)
      BY <1>0, <2>2 DEF NextBlock
    <3>2. fd_table' = fd_table /\ Sound(given, {}, {}, list) /\ disk[n].kind = "file"
      BY <1>1, <1>3, <1>w
    <3> QED BY <2>3, <2>4, <3>1, <3>2, NoneWaits, FileBlockNext
  <2>6. \A c \in Addr \ {b} : disk'[c] = disk[c]
    BY <2>4 DEF FreedOn, TypeOK
  <2>8. disk'[n] = disk[n]
    BY <1>w, <2>5, <2>6
  <2>9. todo' = <<FreeHead(b), Release(disk[n].ptr, m), g>>
    <3>1. PICK x, y : x = FreeHead(b) /\ y = Release(disk[n].ptr, m)
      OBVIOUS
    <3>2. <<x, y>> \o <<g>> = <<x, y, g>>
      BY TwoAndOne
    <3> QED BY <1>2, <1>p, <2>4, <3>1, <3>2
  <2>10. Sound({n} \X (1 .. m - 1), {b}, {}, list)'
    <3>1. other = {n} \X (1 .. m - 1)
      BY <1>0, <2>1, <2>2
    <3> QED BY <2>5, <3>1
  <2>11. GivesHead(g, n, m, held, b, list)'
    <3>1. BlocksFor(g.inode.size) <= Len(list) + 1 + held - (m - 1)
      BY <1>1, <1>b, <2>1, <2>2
    <3> QED BY <2>5, <2>8, <2>9, <2>10, <3>1 DEF GivesHead
  <2>12. WritesTo(g, n)' /\ GaveBack(g, n, m, held)'
    BY <1>3, <1>g, <2>1, <2>2, <2>8 DEF WritesTo, GaveBack
  <2>13. b \in Addr
    BY <2>2, DiskFields DEF TypeOK, Disks
  <2>14. GivesBack(g, n, list)'
    BY <2>2, <2>11, <2>12, <2>13 DEF GivesBack
  <2>15. AtWrite(list)'
    BY <2>12, <2>14 DEF AtWrite
  <2> QED BY <2>15, Arrive, NoneWaits
<1> QED BY <1>3, <1>5, <1>6

LEMMA OwnReleaseBlocks ==
  ASSUME Ownership, TypeOK, TypeOK', ReleaseBlocks PROVE Ownership'
<1>1. Doing("release")
  BY DEF ReleaseBlocks
<1>2. PICK list \in Lists, stack \in Stacks :
        /\ Waiting(disk, stack, list)
        /\ AtRemoveFile(list, stack) \/ AtWrite(list)
  BY <1>1, Where
<1>3. CASE AtRemoveFile(list, stack)
  BY <1>1, <1>2, <1>3, WhereFile, OwnBlockOfFile
<1>4. CASE AtWrite(list)
  <2>1. PICK g \in WriteSteps, n \in Addr :
          /\ WritesTo(g, n)
          /\ \E i \in 1 .. Slots + 1, held \in 0 .. Slots :
               GaveBack(g, n, i, held) /\ GivesBlock(g, n, i, held, list)
    BY <1>1, <1>4, WhereWrite
  <2> QED BY <2>1, OwnBlockOfWrite
<1> QED BY <1>2, <1>3, <1>4

(* A pointer to a freed block is the one that is to be cleared. *)
LeftAt(d, n, p, k) == \A i \in 1 .. Slots : d[p].ptr[i] = n <=> i = k

LEMMA OnlyLeft ==
  ASSUME NEW coming, NEW list, NEW n, NEW p \in Addr, NEW k \in 1 .. Slots, NEW stack,
         Sound({<<p, k>>}, {}, coming, list), Removes(n, p, k, stack),
         disk[n].type = "FREE"
  PROVE  LeftAt(disk, n, p, k)
<1>1. Owns(disk, {<<p, k>>}, {}, list) /\ n # 0 /\ disk[p].ptr[k] = n
  BY DEF Sound, Removes
<1>2. ASSUME NEW i \in 1 .. Slots, disk[p].ptr[i] = n, i # k PROVE FALSE
  <2>1. Counts(disk, {<<p, k>>}, p, i)
    BY <1>1, <1>2 DEF Counts
  <2>2. PICK given : given = {<<p, k>>}
    OBVIOUS
  <2>3. Owns(disk, given, {}, list) /\ Counts(disk, given, p, i)
    BY <1>1, <2>1, <2>2
  <2>4. disk[disk[p].ptr[i]].type = IF disk[p].kind = "file" THEN "FILEEX" ELSE "INODE"
    BY <2>3, OneOwnerOf
  <2> QED BY <1>2, <2>4
<1> QED BY <1>1, <1>2 DEF LeftAt

LEMMA OwnUnlinkFile ==
  ASSUME Ownership, TypeOK, TypeOK', UnlinkFile PROVE Ownership'
<1>1. Doing("unlink")
  BY DEF UnlinkFile
<1>2. PICK list \in Lists, stack \in Stacks :
        Waiting(disk, stack, list) /\ AtRemoveFile(list, stack)
  BY <1>1, Where
<1>3. PICK n \in Addr, p \in Addr, k \in 1 .. Slots :
        Removes(n, p, k, stack) /\ FileGone(n, p, k, list, stack)
  BY <1>1, <1>2, WhereFile
<1>4. /\ todo = <<Unlink(n, p)>> \o stack
      /\ Sound({<<p, k>>}, {}, {n}, list) /\ disk[n].type = "FREE"
  BY <1>3 DEF FileGone
<1>5. Head(todo) = Unlink(n, p) /\ Tail(todo) = stack
  BY <1>4, Tops
<1>6. Head(todo).blk = n /\ Head(todo).dir = p
  BY <1>5 DEF Unlink
<1>7. PICK coming : coming = {n}
  OBVIOUS
<1>8. Sound({<<p, k>>}, {}, coming, list)
  BY <1>4, <1>7
<1>9. \A i \in 1 .. Slots : disk[p].ptr[i] = n <=> i = k
  <2>1. LeftAt(disk, n, p, k)
    BY <1>3, <1>4, <1>8, OnlyLeft
  <2> QED BY <2>1 DEF LeftAt
<1>10. \A i : First({j \in 1 .. Slots : disk[p].ptr[j] = n}, i) => i = k
  BY <1>9 DEF First
<1>11. {j \in 1 .. Slots : disk[p].ptr[j] = n} # {}
  BY <1>9
<1>12. /\ disk' = WithPtr(disk, p, k, 0)
       /\ fd_table' = Closed(n) /\ todo' = <<>> \o stack
  BY <1>5, <1>6, <1>10, <1>11 DEF UnlinkFile, Resume, WithPtr
<1>13. todo' = stack
  BY <1>12 DEF Stacks
<1>14. \A fd \in FDs : \/ fd_table'[fd] = 0
                       \/ fd_table'[fd] = fd_table[fd] /\ fd_table[fd] \notin coming
  BY <1>7, <1>12 DEF Closed
<1> QED BY <1>2, <1>3, <1>4, <1>8, <1>12, <1>13, <1>14, ClearNext

LEMMA OwnUnlinkDirectory ==
  ASSUME Ownership, TypeOK, TypeOK', UnlinkDirectory PROVE Ownership'
<1>1. Doing("unlinkDir")
  BY DEF UnlinkDirectory
<1>2. PICK list \in Lists, stack \in Stacks :
        Waiting(disk, stack, list) /\ AtRemoveDir(list, stack)
  BY <1>1, Where
<1>3. PICK n \in Addr, p \in Addr, k \in 1 .. Slots :
        Removes(n, p, k, stack) /\ DirGone(n, p, k, list, stack)
  BY <1>1, <1>2, WhereDir
<1>4. /\ todo = <<UnlinkDir(n, p)>> \o stack
      /\ Sound({<<p, k>>}, {}, {}, list) /\ disk[n].type = "FREE"
  BY <1>3 DEF DirGone
<1>5. Head(todo) = UnlinkDir(n, p) /\ Tail(todo) = stack
  BY <1>4, Tops
<1>6. Head(todo).blk = n /\ Head(todo).dir = p
  BY <1>5 DEF UnlinkDir
<1>7. PICK coming : coming = {}
  OBVIOUS
<1>8. Sound({<<p, k>>}, {}, coming, list)
  BY <1>4, <1>7
<1>9. \A i \in 1 .. Slots : disk[p].ptr[i] = n <=> i = k
  <2>1. LeftAt(disk, n, p, k)
    BY <1>3, <1>4, <1>8, OnlyLeft
  <2> QED BY <2>1 DEF LeftAt
<1>10. PICK q : q = [i \in 1 .. Slots |-> IF disk[p].ptr[i] = n THEN 0 ELSE disk[p].ptr[i]]
  OBVIOUS
<1>11. q = [disk[p].ptr EXCEPT ![k] = 0]
  <2>1. disk[p].ptr \in [1 .. Slots -> Addr]
    BY DiskFields DEF TypeOK, Disks, Ptrs
  <2>2. disk[p].ptr = [i \in 1 .. Slots |-> disk[p].ptr[i]]
    BY <2>1
  <2> QED BY <1>9, <1>10, <2>1, <2>2
<1>12. disk' = [disk EXCEPT ![p].ptr = q]
  <2>1. p \in DOMAIN disk
    BY DEF TypeOK
  <2>2. disk' = [disk EXCEPT ![p].ptr =
                   [i \in 1 .. Slots |-> IF @[i] = n THEN 0 ELSE @[i]]]
    BY <1>6 DEF UnlinkDirectory
  <2> QED BY <1>10, <2>1, <2>2
<1>13. disk' = WithPtr(disk, p, k, 0)
  BY <1>11, <1>12 DEF WithPtr
<1>14. fd_table' = fd_table /\ todo' = <<>> \o stack
  BY <1>5 DEF UnlinkDirectory, Resume, process
<1>15. todo' = stack
  BY <1>14 DEF Stacks
<1>16. \A fd \in FDs : \/ fd_table'[fd] = 0
                       \/ fd_table'[fd] = fd_table[fd] /\ fd_table[fd] \notin coming
  BY <1>7, <1>14
<1> QED BY <1>2, <1>3, <1>4, <1>8, <1>13, <1>15, <1>16, ClearNext

---------------------------------------------------------------------------
(* tfs_removeAll goes through a directory. *)

LEMMA Regroup ==
  ASSUME NEW s \in Stacks, NEW r, NEW T, NEW x \in Seq(T)
  PROVE  (x \o <<r>>) \o s = x \o (<<r>> \o s)
<1>1. PICK S : s \in Seq(S)
  BY DEF Stacks
<1>2. PICK U : U = S \cup T \cup {r}
  OBVIOUS
<1>3. x \in Seq(U) /\ <<r>> \in Seq(U) /\ s \in Seq(U)
  BY <1>1, <1>2
<1>4. PICK y : y = <<r>>
  OBVIOUS
<1>5. (x \o y) \o s = x \o (y \o s)
  BY <1>3, <1>4, ConcatAssociative
<1> QED BY <1>4, <1>5

LEMMA WhereScan ==
  ASSUME Ownership, TypeOK, Doing("scan"), NEW s, s = Head(todo)
  PROVE  \E list \in Lists, stack \in Stacks :
           Waiting(disk, stack, list) /\ s \in ScanSteps /\ Scans(s, list, stack)
<1>1. PICK list \in Lists, stack \in Stacks :
        Waiting(disk, stack, list) /\ AtScan(list, stack)
  BY Where
<1>2. PICK v \in ScanSteps : Scans(v, list, stack)
  BY <1>1 DEF AtScan
<1>3. v = s
  BY <1>2, OnStack DEF Scans
<1> QED BY <1>1, <1>2, <1>3

LEMMA ScanIs ==
  ASSUME NEW s \in ScanSteps
  PROVE  /\ s.path \in AnyPath /\ Len(s.path) \in Nat /\ s.dir \in Addr
         /\ s.copy \in Sized /\ s.at \in Nat
         /\ s.dir = 0 \/ s.path # <<>>
  BY Ends DEF ScanSteps, AnyPath

(* The call that removes the entry i of the directory of s waits.          *)
LEMMA WaitsToRewrite ==
  ASSUME TypeOK, NEW list \in Lists, NEW stack \in Stacks, Waiting(disk, stack, list),
         NEW s \in ScanSteps, Scans(s, list, stack),
         NEW i \in 1 .. Slots, s.copy.ptr[i] # 0,
         NEW r, r = Rewrite(s.path, s.dir, s.copy, i)
  PROVE  <<r>> \o stack \in Stacks /\ Waiting(disk, <<r>> \o stack, list)
<1>1. /\ r.op = "rewrite" /\ r.path = s.path /\ r.dir = s.dir /\ r.copy = s.copy
      /\ r.at = i
  BY DEF Rewrite
<1>2. /\ AtRest(list) /\ s.copy = disk[s.dir] /\ Leads(disk, s.path, Len(s.path), s.dir)
      /\ s.dir = SUPERBLOCK_DISKLOC =>
           Keeps("rootStays", \A j \in 1 .. Slots : s.copy.ptr[j] = 0)
      /\ stack # <<>> => Pending(disk, stack[1], s.dir, s.path)
  BY DEF Scans
<1>3. r \in ScanSteps
  <2>1. s.path \in AnyPath /\ s.dir \in Addr /\ s.copy \in Sized
        /\ (s.dir = 0 \/ s.path # <<>>)
    BY ScanIs
  <2>2. i \in Nat
    BY Bounds
  <2>3. r \in Steps
    BY <2>1, <2>2, NewWork
  <2> QED BY <1>1, <2>3, StepOf
<1>4. WaitsFor(disk, r, list)
  <2>1. Alike(r.copy, disk[r.dir])
    BY <1>1, <1>2 DEF Alike
  <2>2. ASSUME r.dir = SUPERBLOCK_DISKLOC
        PROVE  /\ "rootStays" \notin Promises
               /\ r.copy.next = 0 \/ \E j \in 1 .. Len(list) : list[j] = r.copy.next
    <3>1. "rootStays" \notin Promises
      BY <1>1, <1>2, <2>2 DEF Keeps
    <3>2. Owns(disk, {}, {}, list) /\ disk \in Disks
      BY <1>2 DEF AtRest, Sound, TypeOK, Disks
    <3>3. list # <<>> => list[1] = disk[0].next /\ 1 \in 1 .. Len(list)
      BY <3>2, ListFacts DEF Owns
    <3>4. list = <<>> => disk[0].next = 0
      BY <3>2, ListFacts DEF Owns
    <3> QED BY <1>1, <1>2, <2>2, <3>1, <3>3, <3>4, Ends
  <2> QED BY <1>1, <1>2, <2>1, <2>2 DEF WaitsFor
<1>5. stack # <<>> => Pending(disk, stack[1], r.dir, r.path)
  BY <1>1, <1>2
<1> QED BY <1>1, <1>3, <1>4, <1>5, PushFrame

(* The removal of a file starts: it has given up none of its blocks. *)
LEMMA NoneGivenUp ==
  ASSUME NEW list \in Lists, AtRest(list), UNCHANGED <<disk, fd_table>>,
         NEW n, NEW one, one = 1
  PROVE  Sound({n} \X (1 .. one - 1), {}, {}, list)'
<1>1. PICK given, none : given = {n} \X (1 .. one - 1) /\ none = {}
  OBVIOUS
<1>2. Owns(disk, none, {}, list) /\ DirNames(disk) /\ OnFiles(disk, fd_table, {})
  BY <1>1 DEF AtRest, Sound
<1>3. \A x \in Addr, j \in 1 .. Slots : Counts(disk, given, x, j) <=> Counts(disk, none, x, j)
  BY <1>1 DEF Counts
<1>4. Owns(disk, given, {}, list)
  BY <1>2, <1>3, GivenUp
<1>5. Sound(given, {}, {}, list)'
  BY <1>2, <1>4, Settled
<1> QED BY <1>1, <1>5

LEMMA StartsRemoving ==
  ASSUME NEW list \in Lists, NEW stack \in Stacks, Waiting(disk, stack, list),
         AtRest(list), UNCHANGED <<disk, fd_table>>,
         NEW n \in Addr, NEW p \in Addr, NEW k \in 1 .. Slots,
         disk[n].kind = "file", Removes(n, p, k, stack),
         todo' = <<Release(disk[n].ptr, 1), FreeBody(n), Unlink(n, p)>> \o stack
  PROVE  Ownership'
<1>1. PICK one : one = 1
  OBVIOUS
<1>2. Sound({n} \X (1 .. one - 1), {}, {}, list)'
  BY <1>1, NoneGivenUp
<1>3. FileBlocks(n, p, one, list, stack)'
  BY <1>1, <1>2 DEF FileBlocks
<1>4. one \in 1 .. Slots + 1
  BY <1>1, Bounds
<1>5. Removes(n, p, k, stack)'
  BY DEF Removes, InDir
<1>6. AtRemoveFile(list, stack)'
  BY <1>3, <1>4, <1>5 DEF AtRemoveFile
<1>7. Waiting(disk', stack, list)
  OBVIOUS
<1> QED BY <1>6, <1>7, Arrive

(* The next entry of a directory is a file: it is removed. *)
LEMMA OwnScanFile ==
  ASSUME TypeOK, TypeOK', NEW list \in Lists, NEW stack \in Stacks,
         Waiting(disk, stack, list),
         NEW s \in ScanSteps, Scans(s, list, stack), UNCHANGED <<disk, fd_table>>,
         NEW i \in 1 .. Slots, NEW n, n = s.copy.ptr[i], n # 0, disk[n].kind = "file",
         todo' = (RemoveInode(n, s.dir) \o <<Rewrite(s.path, s.dir, s.copy, i)>>) \o stack
  PROVE  Ownership'
<1>1. PICK r : r = Rewrite(s.path, s.dir, s.copy, i)
  OBVIOUS
<1>2. r.path = s.path /\ r.dir = s.dir /\ r.copy = s.copy /\ r.at = i
  BY <1>1 DEF Rewrite
<1>3. AtRest(list) /\ s.copy = disk[s.dir] /\ Leads(disk, s.path, Len(s.path), s.dir)
  BY DEF Scans
<1>4. PICK p : p = s.dir
  OBVIOUS
<1>5. p \in Addr /\ IsDirOn(disk, p) /\ disk[p].ptr[i] = n
  BY <1>3, <1>4, ScanIs, LeadsToDir
<1>6. n \in Addr
  BY <1>5, DiskFields DEF TypeOK, Disks
<1>7. PICK long : long = <<r>> \o stack
  OBVIOUS
<1>8. long \in Stacks /\ Waiting(disk, long, list)
  BY <1>1, <1>7, WaitsToRewrite
<1>9. long[1] = r
  <2>1. stack \in Seq({v \in ScanSteps : v.op = "rewrite"})
    BY DEF Stacks
  <2> QED BY <1>7, <2>1, OnTop
<1>10. todo' = <<Release(disk[n].ptr, 1), FreeBody(n), Unlink(n, p)>> \o long
  <2>1. PICK x : x = RemoveInode(n, p)
    OBVIOUS
  <2>2. PICK T : T = {Release(disk[n].ptr, 1), FreeBody(n), Unlink(n, p)}
    OBVIOUS
  <2>3. x \in Seq(T)
    BY <2>1, <2>2 DEF RemoveInode
  <2>4. (x \o <<r>>) \o stack = x \o (<<r>> \o stack)
    BY <2>3, Regroup
  <2>5. todo' = x \o long
    BY <1>1, <1>4, <1>7, <2>1, <2>4
  <2> QED BY <2>1, <2>5 DEF RemoveInode
<1>11. Removes(n, p, i, long)
  BY <1>2, <1>4, <1>5, <1>9 DEF Removes, InDir
<1> QED BY <1>3, <1>5, <1>6, <1>8, <1>10, <1>11, StartsRemoving

(* It is a directory: tfs_removeAll is called on its path.                 *)
LEMMA OwnScanDir ==
  ASSUME TypeOK, TypeOK', NEW list \in Lists, NEW stack \in Stacks,
         Waiting(disk, stack, list),
         NEW s \in ScanSteps, Scans(s, list, stack), UNCHANGED <<disk, fd_table>>,
         NEW i \in 1 .. Slots, NEW n, n = s.copy.ptr[i], n # 0, disk[n].kind = "dir",
         todo' = (<<Walk("removeAll", Append(s.path, disk[n].name), 1, SUPERBLOCK_DISKLOC)>>
                    \o <<Rewrite(s.path, s.dir, s.copy, i)>>) \o stack
  PROVE  Ownership'
<1>1. PICK r, w : /\ r = Rewrite(s.path, s.dir, s.copy, i)
                  /\ w = Walk("removeAll", Append(s.path, disk[n].name), 1, SUPERBLOCK_DISKLOC)
  OBVIOUS
<1>2. /\ r.path = s.path /\ r.dir = s.dir /\ r.copy = s.copy /\ r.at = i
      /\ w.op = "walk" /\ w.call = "removeAll" /\ w.path = Append(s.path, disk[n].name)
      /\ w.at = 1 /\ w.dir = 0
  BY <1>1, Ends DEF Rewrite, Walk
<1>3. AtRest(list) /\ s.copy = disk[s.dir]
  BY DEF Scans
<1>4. PICK p : p = s.dir
  OBVIOUS
<1>5. p \in Addr /\ disk[p].ptr[i] = n
  BY <1>3, <1>4, ScanIs
<1>6. n \in Addr
  BY <1>5, DiskFields DEF TypeOK, Disks
<1>7. PICK long : long = <<r>> \o stack
  OBVIOUS
<1>8. long \in Stacks /\ Waiting(disk, long, list)
  BY <1>1, <1>7, WaitsToRewrite
<1>9. long[1] = r /\ long # <<>>
  <2>1. stack \in Seq({v \in ScanSteps : v.op = "rewrite"})
    BY DEF Stacks
  <2> QED BY <1>7, <2>1, OnTop
<1>10. todo' = <<w>> \o long
  <2>1. PICK x : x = <<w>>
    OBVIOUS
  <2>2. PICK T : T = {w}
    OBVIOUS
  <2>3. x \in Seq(T)
    BY <2>1, <2>2
  <2>4. (x \o <<r>>) \o stack = x \o (<<r>> \o stack)
    BY <2>3, Regroup
  <2>5. todo' = x \o long
    BY <1>1, <1>7, <2>1, <2>4
  <2> QED BY <2>1, <2>5
<1>11. w \in WalkSteps
  BY <1>2, <1>8, <1>10, NextOnStack, StepOf
<1>12. AtRest(list)'
  BY <1>3 DEF AtRest, Sound
<1>13. Leads(disk', w.path, w.at - 1, w.dir)
  BY <1>2, LeadsStart
<1>14. Pending(disk', long[1], n, w.path)
  BY <1>2, <1>3, <1>4, <1>5, <1>9 DEF Pending
<1>15. LooksUp(w, list, long)'
  BY <1>2, <1>6, <1>10, <1>12, <1>13, <1>14 DEF LooksUp
<1>16. AtWalk(list, long)'
  BY <1>11, <1>15 DEF AtWalk
<1>17. Waiting(disk', long, list)
  BY <1>8
<1> QED BY <1>8, <1>16, <1>17, Arrive

(* There is no entry left: the directory itself is removed, but the root.  *)
LEMMA OwnScanDone ==
  ASSUME TypeOK, TypeOK', NEW list \in Lists, NEW stack \in Stacks,
         Waiting(disk, stack, list),
         NEW s \in ScanSteps, Scans(s, list, stack), UNCHANGED <<disk, fd_table>>,
         IF s.dir = SUPERBLOCK_DISKLOC THEN todo' = stack
         ELSE todo' = <<Walk("removeDir", s.path, 1, SUPERBLOCK_DISKLOC)>> \o stack
  PROVE  Ownership'
<1>1. /\ AtRest(list) /\ (stack # <<>> => Pending(disk, stack[1], s.dir, s.path))
  BY DEF Scans
<1>2. AtRest(list)' /\ Waiting(disk', stack, list)
  BY <1>1 DEF AtRest, Sound
<1>3. CASE s.dir = SUPERBLOCK_DISKLOC
  <2>1. stack = <<>> /\ todo' = <<>>
    BY <1>1, <1>3, Ends DEF Pending
  <2> QED BY <1>2, <2>1, Arrive
<1>4. CASE s.dir # SUPERBLOCK_DISKLOC
  <2>1. PICK w : w = Walk("removeDir", s.path, 1, SUPERBLOCK_DISKLOC)
    OBVIOUS
  <2>2. /\ w.op = "walk" /\ w.call = "removeDir" /\ w.path = s.path /\ w.at = 1
        /\ w.dir = 0
    BY <2>1, Ends DEF Walk
  <2>3. todo' = <<w>> \o stack
    BY <1>4, <2>1
  <2>4. w \in WalkSteps
    BY <2>2, <2>3, NextOnStack, StepOf
  <2>5. Leads(disk', w.path, w.at - 1, w.dir)
    BY <2>2, LeadsStart
  <2>6. stack # <<>> => \E n \in Addr : Pending(disk', stack[1], n, w.path)
    BY <1>1, <2>2, ScanIs
  <2>7. LooksUp(w, list, stack)'
    BY <1>2, <2>2, <2>3, <2>5, <2>6 DEF LooksUp
  <2>8. AtWalk(list, stack)'
    BY <2>4, <2>7 DEF AtWalk
  <2> QED BY <1>2, <2>8, Arrive
<1> QED BY <1>3, <1>4

LEMMA OwnScanNext ==
  ASSUME Ownership, TypeOK, TypeOK', ScanNext PROVE Ownership'
<1>0. PICK s : s = Head(todo)
  OBVIOUS
<1>1. Doing("scan") /\ UNCHANGED <<disk, process>>
  BY DEF ScanNext
<1>2. PICK list \in Lists, stack \in Stacks :
        Waiting(disk, stack, list) /\ s \in ScanSteps /\ Scans(s, list, stack)
  BY <1>0, <1>1, WhereScan
<1>3. /\ todo = <<s>> \o stack /\ AtRest(list) /\ s.copy = disk[s.dir]
      /\ Leads(disk, s.path, Len(s.path), s.dir)
  BY <1>2 DEF Scans
<1>4. \A steps : Resume(steps) => todo' = steps \o stack
  BY <1>3, OnStack
<1>5. UNCHANGED <<disk, fd_table>>
  BY <1>1 DEF process
<1>6. CASE IF s.dir = SUPERBLOCK_DISKLOC THEN Resume(<<>>)
           ELSE Resume(<<Walk("removeDir", s.path, 1, SUPERBLOCK_DISKLOC)>>)
  <2>1. IF s.dir = SUPERBLOCK_DISKLOC THEN todo' = <<>> \o stack
        ELSE todo' = <<Walk("removeDir", s.path, 1, SUPERBLOCK_DISKLOC)>> \o stack
    <3>1. PICK steps : /\ Resume(steps)
                       /\ steps = IF s.dir = SUPERBLOCK_DISKLOC THEN <<>>
                                  ELSE <<Walk("removeDir", s.path, 1, SUPERBLOCK_DISKLOC)>>
      BY <1>6
    <3>2. todo' = steps \o stack
      BY <1>4, <3>1
    <3> QED BY <3>1, <3>2
  <2>2. <<>> \o stack = stack
    BY DEF Stacks
  <2>3. IF s.dir = SUPERBLOCK_DISKLOC THEN todo' = stack
        ELSE todo' = <<Walk("removeDir", s.path, 1, SUPERBLOCK_DISKLOC)>> \o stack
    BY <2>1, <2>2
  <2> QED BY <1>2, <1>5, <2>3, OwnScanDone
<1>7. ASSUME NEW i \in 1 .. Slots, First(Entries(s), i),
             NEW n, n = s.copy.ptr[i],
             NEW path, path = Append(s.path, disk[n].name),
             NEW then, then = <<Rewrite(s.path, s.dir, s.copy, i)>>,
             CASE disk[n].kind = "file" -> Resume(RemoveInode(n, s.dir) \o then)
               [] disk[n].kind = "dir" ->
                    /\ Len(path) <= NumBlocks
                    /\ Resume(<<Walk("removeAll", path, 1, SUPERBLOCK_DISKLOC)>> \o then)
               [] OTHER -> Resume(then)
      PROVE  Ownership'
  <2>1. n # 0
    BY <1>7 DEF First, Entries
  <2>2. s.dir \in Addr /\ IsDirOn(disk, s.dir) /\ disk[s.dir].ptr[i] = n
    BY <1>2, <1>3, <1>7, ScanIs, LeadsToDir
  <2>3. disk[n].kind \in {"file", "dir"}
    BY <1>3, <2>1, <2>2, EntryIs
  <2>4. CASE disk[n].kind = "file"
    <3>1. Resume(RemoveInode(n, s.dir) \o then)
      BY <1>7, <2>4
    <3>2. todo' = (RemoveInode(n, s.dir) \o then) \o stack
      BY <1>4, <3>1
    <3> QED BY <1>2, <1>5, <1>7, <2>1, <2>4, <3>2, OwnScanFile
  <2>5. CASE disk[n].kind = "dir"
    <3>1. Resume(<<Walk("removeAll", path, 1, SUPERBLOCK_DISKLOC)>> \o then)
      BY <1>7, <2>5
    <3>2. todo' = (<<Walk("removeAll", path, 1, SUPERBLOCK_DISKLOC)>> \o then) \o stack
      BY <1>4, <3>1
    <3> QED BY <1>2, <1>5, <1>7, <2>1, <2>5, <3>2, OwnScanDir
  <2> QED BY <2>3, <2>4, <2>5
<1>8. \/ IF s.dir = SUPERBLOCK_DISKLOC THEN Resume(<<>>)
         ELSE Resume(<<Walk("removeDir", s.path, 1, SUPERBLOCK_DISKLOC)>>)
      \/ \E i \in 1 .. Slots :
           /\ First(Entries(s), i)
           /\ CASE disk[s.copy.ptr[i]].kind = "file" ->
                     Resume(RemoveInode(s.copy.ptr[i], s.dir)
                              \o <<Rewrite(s.path, s.dir, s.copy, i)>>)
                [] disk[s.copy.ptr[i]].kind = "dir" ->
                     /\ Len(Append(s.path, disk[s.copy.ptr[i]].name)) <= NumBlocks
                     /\ Resume(<<Walk("removeAll",
                                     Append(s.path, disk[s.copy.ptr[i]].name), 1,
                                     SUPERBLOCK_DISKLOC)>>
                                 \o <<Rewrite(s.path, s.dir, s.copy, i)>>)
                [] OTHER -> Resume(<<Rewrite(s.path, s.dir, s.copy, i)>>)
  BY <1>0 DEF ScanNext
<1> QED BY <1>6, <1>7, <1>8

LEMMA OwnRecursionOverflows ==
  ASSUME Ownership, TypeOK, RecursionOverflows PROVE Ownership'
<1>1. Doing("scan") /\ Die
  BY DEF RecursionOverflows
<1>2. PICK list \in Lists, stack \in Stacks : Scans(Head(todo), list, stack)
  BY <1>1, WhereScan
<1> QED BY <1>1, <1>2, DieAtRest DEF Scans

LEMMA SameBlock ==
  ASSUME NEW a \in Sized, NEW b \in Sized, Alike(a, b), a.ptr = b.ptr
  PROVE  /\ a.next = b.next => a = b
         /\ a = [b EXCEPT !.next = a.next]
<1>1. a \in Block /\ b \in Block
  BY DEF Sized
<1>2. /\ a.type = b.type /\ a.kind = b.kind /\ a.name = b.name
      /\ a.size = b.size /\ a.off = b.off /\ a.data = b.data /\ a.ptr = b.ptr
  BY DEF Alike
<1>3. a.next = b.next => a = b
  BY <1>1, <1>2 DEF Block
<1>4. a = [b EXCEPT !.next = a.next]
  BY <1>1, <1>2 DEF Block
<1> QED BY <1>3, <1>4

(* The copy that is written back is what is on the disk, but for where the *)
(* free list starts.                                                       *)
CopyOf(r) == [r.copy EXCEPT !.ptr[r.at] = 0]
Rewritten(d, r) == [d EXCEPT ![r.dir] = CopyOf(r)]

LEMMA CopyIs ==
  ASSUME TypeOK, NEW list, NEW r \in ScanSteps, WaitsFor(disk, r, list),
         disk[r.dir].ptr[r.at] = 0,
         disk' = Rewritten(disk, r)
  PROVE  /\ r.dir # 0 => disk' = disk
         /\ r.dir = 0 => disk' = WithHead(disk, r.copy.next)
         /\ disk'[r.dir] = CopyOf(r)
<1>c. PICK copy : copy = CopyOf(r)
  OBVIOUS
<1>1. /\ r.at \in 1 .. Slots /\ Alike(r.copy, disk[r.dir])
      /\ \A i \in 1 .. Slots : i # r.at => r.copy.ptr[i] = disk[r.dir].ptr[i]
      /\ r.dir # 0 => r.copy.next = disk[r.dir].next
  BY Ends DEF WaitsFor
<1>2. PICK p, q : p = r.dir /\ q = [r.copy.ptr EXCEPT ![r.at] = 0]
  OBVIOUS
<1>3. p \in Addr /\ r.copy \in Sized /\ disk[p] \in Sized /\ disk \in Disks
  BY <1>2, ScanIs DEF TypeOK, Disks
<1>4. r.copy.ptr \in [1 .. Slots -> Addr] /\ disk[p].ptr \in [1 .. Slots -> Addr]
  BY <1>3 DEF Sized, Block
<1>5. q = disk[p].ptr
  BY <1>1, <1>2, <1>4
<1>6. copy = [r.copy EXCEPT !.ptr = q]
  BY <1>c, <1>2 DEF CopyOf
<1>7. copy \in Sized
  <2>1. q \in [1 .. Slots -> Addr]
    BY <1>4, <1>5
  <2> QED BY <1>3, <1>6, <2>1 DEF Sized, Block
<1>8. Alike(copy, disk[p]) /\ copy.ptr = disk[p].ptr /\ copy.next = r.copy.next
  BY <1>1, <1>2, <1>3, <1>5, <1>6, OtherFields DEF Alike
<1>9. /\ copy.next = disk[p].next => copy = disk[p]
      /\ copy = [disk[p] EXCEPT !.next = copy.next]
  BY <1>3, <1>7, <1>8, SameBlock
<1>10. disk' = [disk EXCEPT ![p] = copy]
  BY <1>c, <1>2 DEF Rewritten
<1>11. disk'[p] = copy
  BY <1>3, <1>10 DEF Disks
<1>12. ASSUME p # 0 PROVE disk' = disk
  BY <1>1, <1>2, <1>3, <1>8, <1>9, <1>10, <1>12 DEF Disks
<1>13. ASSUME p = 0 PROVE disk' = WithHead(disk, r.copy.next)
  BY <1>3, <1>8, <1>9, <1>10, <1>13 DEF WithHead, Disks
<1> QED BY <1>c, <1>2, <1>11, <1>12, <1>13

LEMMA OwnRewriteDir ==
  ASSUME Ownership, TypeOK, TypeOK', RewriteDir PROVE Ownership'
<1>1. Doing("rewrite") /\ UNCHANGED process
  BY DEF RewriteDir
<1>2. PICK list \in Lists, stack \in Stacks :
        Waiting(disk, stack, list) /\ AtRewrite(list, stack)
  BY <1>1, Where
<1>3. PICK r, rest : r = stack[1] /\ rest = Tail(stack)
  OBVIOUS
<1>4. /\ stack # <<>> /\ todo = stack /\ AtRest(list)
      /\ disk[r.dir].ptr[r.at] = 0
  BY <1>2, <1>3 DEF AtRewrite
<1>5. /\ Head(todo) = r /\ Tail(todo) = rest /\ r \in ScanSteps /\ rest \in Stacks
      /\ 1 \in 1 .. Len(stack)
  BY <1>3, <1>4, StackTop
<1>6. WaitsFor(disk, r, list)
  BY <1>2, <1>3, <1>5 DEF Waiting
<1>7. PICK copy : copy = CopyOf(r)
  OBVIOUS
<1>8. PICK s : s = Scan(r.path, r.dir, copy, r.at + 1)
  OBVIOUS
<1>9. s.op = "scan" /\ s.path = r.path /\ s.dir = r.dir /\ s.copy = copy
  BY <1>8 DEF Scan
<1>10. disk' = Rewritten(disk, r) /\ todo' = <<s>> \o rest
  BY <1>5, <1>7, <1>8 DEF RewriteDir, Resume, Rewritten, CopyOf
<1>11. s \in ScanSteps
  BY <1>5, <1>9, <1>10, NextOnStack, StepOf
<1>12. /\ r.dir # 0 => disk' = disk
       /\ r.dir = 0 => disk' = WithHead(disk, r.copy.next)
       /\ disk'[r.dir] = copy
  BY <1>4, <1>5, <1>6, <1>7, <1>10, CopyIs
<1>13. /\ Waiting(disk, rest, list)
       /\ rest # <<>> => Pending(disk, rest[1], r.dir, r.path)
  BY <1>2, <1>3, <1>4, PopFrame
<1>14. /\ Leads(disk, r.path, Len(r.path), r.dir) /\ Len(r.path) \in Nat
       /\ r.dir = 0 => /\ "rootStays" \notin Promises
                       /\ r.copy.next = 0 \/ \E i \in 1 .. Len(list) : list[i] = r.copy.next
       /\ disk \in Disks /\ r.copy \in Sized
  BY <1>5, <1>6, ScanIs, Ends DEF WaitsFor, TypeOK, Disks
<1>15. r.dir = SUPERBLOCK_DISKLOC =>
         Keeps("rootStays", \A i \in 1 .. Slots : copy.ptr[i] = 0)
  BY <1>14, Ends DEF Keeps
<1>16. CASE r.dir # 0
  <2>1. disk' = disk
    BY <1>12, <1>16
  <2>2. AtRest(list)' /\ Waiting(disk', rest, list)
    BY <1>1, <1>4, <1>13, <2>1 DEF AtRest, Sound, process
  <2>3. rest # <<>> => Pending(disk', rest[1], s.dir, s.path)
    BY <1>9, <1>13, <2>1
  <2>4. s.copy = disk'[s.dir] /\ Leads(disk', s.path, Len(s.path), s.dir)
    BY <1>9, <1>12, <1>14, <2>1
  <2>5. Scans(s, list, rest)'
    BY <1>9, <1>10, <1>15, <2>2, <2>3, <2>4 DEF Scans
  <2>6. AtScan(list, rest)'
    BY <1>11, <2>5 DEF AtScan
  <2> QED BY <1>5, <2>2, <2>6, Arrive
<1>17. CASE r.dir = 0
  <2>1. rest = <<>>
    BY <1>13, <1>17 DEF Pending
  <2>2. PICK m : m = r.copy.next
    OBVIOUS
  <2>3. disk' = WithHead(disk, m) /\ ~ LosesNone /\ m \in Addr
    BY <1>12, <1>14, <1>17, <2>2 DEF LosesNone, Sized, Block
  <2>4. m = 0 \/ \E i \in 1 .. Len(list) : list[i] = m
    BY <1>14, <1>17, <2>2
  <2>5. Owns(disk, {}, {}, list) /\ DirNames(disk) /\ OnFiles(disk, fd_table, {})
        /\ fd_table \in [FDs -> Addr]
    BY <1>4 DEF AtRest, Sound, TypeOK
  <2>6. PICK more \in Lists : Owns(disk', {}, {}, more)
    BY <1>14, <2>3, <2>4, <2>5, Restart
  <2>7. SameTree(disk, disk')
    BY <1>14, <2>3, HeadWrite
  <2>8. DirNames(disk') /\ OnFiles(disk', fd_table', {})
    BY <1>1, <1>14, <2>5, <2>7, TreeStays DEF process
  <2>9. AtRest(more)'
    BY <2>6, <2>8, Settled DEF AtRest
  <2>10. s.copy = disk'[s.dir]
    BY <1>9, <1>12
  <2>11. Leads(disk', s.path, Len(s.path), s.dir)
    BY <1>9, <1>14, <2>7, LeadsSame
  <2>12. Scans(s, more, rest)'
    BY <1>9, <1>10, <1>15, <2>1, <2>9, <2>10, <2>11 DEF Scans
  <2>13. AtScan(more, rest)'
    BY <1>11, <2>12 DEF AtScan
  <2> QED BY <2>1, <2>6, <2>13, Arrive, NoneWaits
<1> QED BY <1>16, <1>17

---------------------------------------------------------------------------
(* tfs_deleteFile and tfs_writeFile. *)

LEMMA OwnDeleteFile ==
  ASSUME Ownership, TypeOK, NEW fd \in FDs, DeleteFile(fd) PROVE Ownership'
<1>1. CASE NotReady(fd)
  BY <1>1, OwnNotReady
<1>2. CASE Refuse(ERR_BAD_DISK)
  BY <1>2, RefuseAtRest
<1>3. ASSUME Ready(fd), NEW p \in Addr, First(Parents(fd_table[fd]), p),
             Begin(RemoveInode(fd_table[fd], p)), UNCHANGED <<disk, process>>
      PROVE  Ownership'
  <2>1. PICK n : n = fd_table[fd]
    OBVIOUS
  <2>2. Idle /\ n # 0 /\ todo' = RemoveInode(n, p)
    BY <1>3, <2>1 DEF Begin, Ready
  <2>3. n \in Addr /\ disk[n].kind = "file"
    BY <2>1, <2>2, OpenIsFile
  <2>4. IsDirOn(disk, p) /\ \E k \in 1 .. Slots : disk[p].ptr[k] = n
    BY <1>3, <2>1 DEF First, Parents, IsDirOn
  <2>5. PICK k \in 1 .. Slots : disk[p].ptr[k] = n
    BY <2>4
  <2>6. PICK list \in Lists : AtRest(list)
    BY <2>2, WhereIdle
  <2>7. todo' = <<Release(disk[n].ptr, 1), FreeBody(n), Unlink(n, p)>> \o <<>>
    BY <2>2 DEF RemoveInode
  <2>8. Removes(n, p, k, <<>>)
    BY <1>3, <2>2, <2>4, <2>5 DEF Removes, InDir
  <2>9. UNCHANGED <<disk, fd_table>>
    BY <1>3 DEF process
  <2> QED BY <1>3, <2>3, <2>6, <2>7, <2>8, <2>9, NoneWaits, StartsRemoving
<1> QED BY <1>1, <1>2, <1>3 DEF DeleteFile

LEMMA OwnWriteFile ==
  ASSUME Ownership, TypeOK, TypeOK', Mindful, NEW fd \in FDs, NEW tag \in Tags,
         NEW size \in Sizes, WritesWell(fd, size), WriteFile(fd, tag, size)
  PROVE  Ownership'
<1>1. CASE NotReady(fd)
  BY <1>1, OwnNotReady
<1>2. ASSUME Ready(fd), NEW inode, inode = [disk[fd_table[fd]] EXCEPT !.size = size],
             Begin(<<Release(inode.ptr, 1), Grab(fd, tag, inode, 0)>>),
             UNCHANGED <<disk, process>>
      PROVE  Ownership'
  <2>1. PICK n, g : n = fd_table[fd] /\ g = Grab(fd, tag, inode, 0)
    OBVIOUS
  <2>2. Idle /\ n # 0 /\ todo' = <<Release(inode.ptr, 1), g>>
    BY <1>2, <2>1 DEF Begin, Ready
  <2>3. n \in Addr /\ disk[n].kind = "file"
    BY <2>1, <2>2, OpenIsFile
  <2>4. PICK list \in Lists : AtRest(list)
    BY <2>2, WhereIdle
  <2>5. Owns(disk, {}, {}, list) /\ disk \in Disks /\ disk[n] \in Sized
    BY <2>3, <2>4 DEF AtRest, Sound, TypeOK, Disks
  <2>6. inode \in Sized
    BY <1>2, <2>1, <2>5, CallsAssumption DEF Sized, Block
  <2>7. /\ inode.ptr = disk[n].ptr /\ inode.type = disk[n].type
        /\ inode.kind = disk[n].kind /\ inode.size = size
    BY <1>2, <2>1, <2>5 DEF Sized, Block
  <2>8. g.op = "grab" /\ g.fd = fd /\ g.inode = inode /\ g.at = 0
    BY <2>1 DEF Grab
  <2>9. g \in WriteSteps
    BY <2>1, <2>6 DEF Grab, WriteSteps
  <2>10. disk[n].type = "INODE" /\ Gapless(disk[n].ptr) /\ disk[n].ptr \in Ptrs
    BY <2>2, <2>3, <2>5, DiskFields, Ends DEF Owns, Shaped
  <2>11. PICK held : held = UsedCount(disk[n].ptr)
    OBVIOUS
  <2>12. held \in 0 .. Slots /\ \A j \in 1 .. Slots : disk[n].ptr[j] # 0 <=> j <= held
    BY <2>10, <2>11, HeldSlots
  <2>13. PICK free : free = Cardinality(Listed \ {SUPERBLOCK_DISKLOC})
    OBVIOUS
  <2>14. BlocksFor(size) >= held /\ BlocksFor(size) <= held + free
    BY <2>1, <2>2, <2>11, <2>13 DEF WritesWell, Keeps, Mindful
  <2>15. free \in Nat /\ free <= Len(list)
    BY <2>5, <2>13, ListedCount, Ends DEF Owns
  <2>16. BlocksFor(size) \in Nat
    BY <2>2, <2>3, <2>7, <2>8, <2>9, NeedOf
  <2>17. PICK one : one = 1
    OBVIOUS
  <2>18. WritesTo(g, n)'
    BY <1>2, <2>1, <2>2, <2>3, <2>7, <2>8, <2>10 DEF WritesTo, process
  <2>19. GaveBack(g, n, one, held)'
    BY <1>2, <2>7, <2>8, <2>12, <2>14, <2>16, <2>17 DEF GaveBack
  <2>20. Sound({n} \X (1 .. one - 1), {}, {}, list)'
    BY <1>2, <2>4, <2>17, NoneGivenUp DEF process
  <2>21. BlocksFor(g.inode.size) <= Len(list) + held - (one - 1)
    BY <2>7, <2>8, <2>12, <2>14, <2>15, <2>16, <2>17 DEF Lists
  <2>22. GivesBlock(g, n, one, held, list)'
    BY <1>2, <2>2, <2>7, <2>17, <2>20, <2>21 DEF GivesBlock
  <2>23. one \in 1 .. Slots + 1
    BY <2>17, Bounds
  <2>24. GivesBack(g, n, list)'
    BY <2>12, <2>19, <2>22, <2>23 DEF GivesBack
  <2>25. AtWrite(list)'
    BY <2>3, <2>9, <2>18, <2>24 DEF AtWrite
  <2> QED BY <2>25, Arrive, NoneWaits
<1> QED BY <1>1, <1>2 DEF WriteFile

(* Where a call of tfs_writeFile is that takes blocks. *)
LEMMA WritesAt ==
  ASSUME Ownership, TypeOK, NEW op \in {"grab", "fill", "point"}, Doing(op)
  PROVE  \E list \in Lists, g \in WriteSteps, n \in Addr :
           /\ WritesTo(g, n) /\ Took(g, n) /\ todo = <<g>> /\ g.op = op
           /\ op = "grab" => Grabs(g, n, list)
           /\ op # "grab" => Places(g, n, list)
<1>1. PICK list \in Lists : AtWrite(list)
  BY Where
<1> QED BY <1>1, WhereWrite

LEMMA WriteFacts ==
  ASSUME TypeOK, NEW g \in WriteSteps, NEW n \in Addr, WritesTo(g, n), Took(g, n),
         todo = <<g>>
  PROVE  /\ Head(todo) = g /\ fd_table[g.fd] = n /\ n # 0 /\ disk[n].kind = "file"
         /\ \A steps : Resume(steps) => todo' = steps \o <<>>
         /\ g.fd \in FDs /\ g.tag \in Tags /\ g.inode \in Sized /\ g.at \in Nat
         /\ g.op \in {"fill", "point"} => g.blk \in Addr
         /\ g.at <= Slots
<1>1. Head(todo) = g /\ \A steps : Resume(steps) => todo' = steps \o <<>>
  BY Alone, OnStack, NoneWaits
<1>2. /\ g.fd \in FDs /\ g.tag \in Tags /\ g.inode \in Sized /\ g.at \in Nat
      /\ g.op \in {"fill", "point"} => g.blk \in Addr
  BY StepOf DEF Steps, WriteSteps
<1>3. fd_table[g.fd] = n /\ n # 0 /\ disk[n].kind = "file"
  BY DEF WritesTo
<1>4. g.at <= Slots
  BY <1>2, <1>3, NeedOf, Bounds DEF Took
<1> QED BY <1>1, <1>2, <1>3, <1>4

(* The new step of the call that writes the file n. *)
LEMMA StillWrites ==
  ASSUME NEW g, NEW h \in WriteSteps, NEW n \in Addr, WritesTo(g, n), Took(g, n),
         fd_table' = fd_table, disk'[n].ptr = disk[n].ptr, disk'[n].kind = disk[n].kind,
         h.fd = g.fd, h.inode = g.inode, h.at = g.at
  PROVE  WritesTo(h, n)' /\ Took(h, n)'
  BY DEF WritesTo, Took

LEMMA OwnGrabBlock ==
  ASSUME Ownership, TypeOK, TypeOK', GrabBlock PROVE Ownership'
<1>0. Doing("grab") /\ UNCHANGED process
  BY DEF GrabBlock
<1>1. PICK list \in Lists, g \in WriteSteps, n \in Addr :
        /\ WritesTo(g, n) /\ Took(g, n) /\ todo = <<g>> /\ g.op = "grab"
        /\ Grabs(g, n, list)
  BY <1>0, WritesAt
<1>2. /\ Head(todo) = g /\ fd_table[g.fd] = n /\ n # 0 /\ disk[n].kind = "file"
      /\ \A steps : Resume(steps) => todo' = steps \o <<>>
      /\ g.fd \in FDs /\ g.tag \in Tags /\ g.inode \in Sized /\ g.at \in Nat
      /\ g.at <= Slots
  BY <1>1, WriteFacts
<1>3. PICK given : given = {n} \X (g.at + 1 .. Slots)
  OBVIOUS
<1>4. Sound(given, {}, {}, list) /\ BlocksFor(g.inode.size) <= Len(list) + g.at
  BY <1>1, <1>3 DEF Grabs
<1>5. /\ Owns(disk, given, {}, list) /\ DirNames(disk) /\ OnFiles(disk, fd_table, {})
      /\ disk \in Disks /\ fd_table \in [FDs -> Addr] /\ fd_table' = fd_table
  BY <1>0, <1>4 DEF Sound, TypeOK, Disks, process
<1>6. /\ BlocksFor(g.inode.size) \in Nat /\ BlocksFor(g.inode.size) <= Slots
      /\ Len(list) \in Nat
  BY <1>2, NeedOf DEF Lists
<1>7. CASE g.at < BlocksFor(g.inode.size)
  <2>1. list # <<>>
    BY <1>2, <1>4, <1>6, <1>7
  <2>2. PICK b : b = disk[0].next
    OBVIOUS
  <2>3. b # 0 /\ b \in Addr
    BY <1>5, <2>1, <2>2, ListFacts, DiskFields, Ends DEF Owns
  <2>4. PICK h : h = Fill(g.fd, g.tag, g.inode, g.at, b)
    OBVIOUS
  <2>5. disk' = WithHead(disk, disk[disk[0].next].next) /\ Resume(<<h>>)
    BY <1>2, <1>7, <2>2, <2>3, <2>4, Ends DEF GrabBlock, FreePtr, Popped, WithHead
  <2>6. PICK rest : rest = Tail(list)
    OBVIOUS
  <2>7. /\ rest \in Lists /\ Len(rest) = Len(list) - 1
        /\ Owns(disk', given, {b}, rest) /\ disk'[b].type = "FREE"
    BY <1>5, <2>1, <2>2, <2>5, <2>6, Pop
  <2>8. SameTree(disk, disk')
    BY <1>5, <2>5, HeadWrite
  <2>9. DirNames(disk') /\ OnFiles(disk', fd_table', {})
    BY <1>5, <2>8, TreeStays
  <2>10. h.op = "fill" /\ h.fd = g.fd /\ h.inode = g.inode /\ h.at = g.at /\ h.blk = b
    BY <2>4 DEF Fill
  <2>11. h \in WriteSteps /\ todo' = <<h>>
    BY <1>2, <2>3, <2>4, <2>5, Alone DEF WriteSteps, Fill
  <2>12. WritesTo(h, n)' /\ Took(h, n)'
    BY <1>1, <1>5, <2>8, <2>10, <2>11, StillWrites DEF SameTree
  <2>13. Sound({n} \X (h.at + 1 .. Slots), {h.blk}, {}, rest)'
    BY <1>3, <2>7, <2>9, <2>10, Settled
  <2>14. Places(h, n, rest)'
    <3>1. BlocksFor(h.inode.size) <= Len(rest) + h.at + 1
      BY <1>2, <1>4, <1>6, <2>7, <2>10
    <3> QED BY <1>7, <2>3, <2>7, <2>10, <2>13, <3>1 DEF Places
  <2>15. AtWrite(rest)'
    BY <2>11, <2>12, <2>14 DEF AtWrite, Takes
  <2> QED BY <2>7, <2>15, Arrive, NoneWaits
<1>8. CASE ~ (g.at < BlocksFor(g.inode.size))
  <2>1. disk' = [disk EXCEPT ![n].off = 0] /\ Resume(<<>>)
    BY <1>2, <1>8 DEF GrabBlock
  <2>2. \A j \in 1 .. Slots : disk[n].ptr[j] # 0 => j <= g.at
    BY <1>1, <1>2, <1>6, <1>8 DEF Took
  <2>3. ASSUME NEW x \in Addr, NEW i \in 1 .. Slots
        PROVE  Counts(disk, {}, x, i) <=> Counts(disk, given, x, i)
    <3>1. Counts(disk, given, x, i) <=>
            disk[x].ptr[i] # 0 /\ ~ (x = n /\ i \in g.at + 1 .. Slots)
      BY <1>3 DEF Counts
    <3>2. disk[n].ptr[i] # 0 => i \notin g.at + 1 .. Slots
      BY <1>2, <2>2, Bounds
    <3> QED BY <3>1, <3>2, AllCount
  <2>4. Owns(disk, {}, {}, list)
    BY <1>5, <2>3, GivenUp
  <2>5. PICK blk : blk = [disk[n] EXCEPT !.off = 0]
    OBVIOUS
  <2>6. /\ blk.type = disk[n].type /\ blk.next = disk[n].next /\ blk.kind = disk[n].kind
        /\ blk.name = disk[n].name /\ blk.ptr = disk[n].ptr
    BY <1>5, <2>5, OtherFields, DiskFields
  <2>7. disk' = [disk EXCEPT ![n] = blk]
    BY <2>1, <2>5
  <2>8. disk'[n] = blk /\ \A b \in Addr \ {n} : disk'[b] = disk[b]
    BY <1>5, <2>7 DEF Disks
  <2>9. SameOwners(disk, disk') /\ SameTree(disk, disk')
        /\ \A b \in Addr : disk'[b].next = disk[b].next
    BY <2>6, <2>8 DEF SameOwners, SameTree
  <2>10. Owns(disk', {}, {}, list) /\ DirNames(disk') /\ OnFiles(disk', fd_table', {})
    BY <1>5, <2>4, <2>9, OwnsStay, TreeStays
  <2>11. todo' = <<>>
    BY <1>2, <2>1, OnTop, NoneWaits
  <2> QED BY <2>10, <2>11, ToRest
<1> QED BY <1>7, <1>8

LEMMA OwnFillBlock ==
  ASSUME Ownership, TypeOK, TypeOK', FillBlock PROVE Ownership'
<1>0. Doing("fill") /\ UNCHANGED process
  BY DEF FillBlock
<1>1. PICK list \in Lists, g \in WriteSteps, n \in Addr :
        /\ WritesTo(g, n) /\ Took(g, n) /\ todo = <<g>> /\ g.op = "fill"
        /\ Places(g, n, list)
  BY <1>0, WritesAt
<1>2. /\ Head(todo) = g /\ fd_table[g.fd] = n /\ n # 0 /\ disk[n].kind = "file"
      /\ \A steps : Resume(steps) => todo' = steps \o <<>>
      /\ g.fd \in FDs /\ g.tag \in Tags /\ g.inode \in Sized /\ g.at \in Nat
      /\ g.blk \in Addr
  BY <1>1, WriteFacts
<1>3. PICK given, b : given = {n} \X (g.at + 1 .. Slots) /\ b = g.blk
  OBVIOUS
<1>4. /\ Sound(given, {b}, {}, list) /\ BlocksFor(g.inode.size) <= Len(list) + g.at + 1
      /\ g.at < BlocksFor(g.inode.size) /\ b # 0 /\ b \in Addr /\ disk[b].type = "FREE"
  BY <1>1, <1>2, <1>3 DEF Places
<1>5. /\ Owns(disk, given, {b}, list) /\ DirNames(disk) /\ OnFiles(disk, fd_table, {})
      /\ disk \in Disks /\ fd_table \in [FDs -> Addr] /\ fd_table' = fd_table
  BY <1>0, <1>4 DEF Sound, TypeOK, Disks, process
<1>6. disk[b].kind = "none" /\ (\A j \in 1 .. Slots : disk[b].ptr[j] = 0) /\ disk[b] \in Sized
  BY <1>4, <1>5, DiskFields, Ends DEF Owns, Shaped
<1>7. PICK blk : blk = Filled(disk[b], g.tag, g.at)
  OBVIOUS
<1>8. /\ blk.type = "FILEEX" /\ blk.kind = disk[b].kind /\ blk.name = disk[b].name
      /\ blk.ptr = disk[b].ptr
  BY <1>6, <1>7 DEF Filled, Sized, Block
<1>9. PICK h : h = Point(g.fd, g.tag, g.inode, g.at, b)
  OBVIOUS
<1>10. disk' = [disk EXCEPT ![b] = blk] /\ Resume(<<h>>)
  BY <1>2, <1>3, <1>7, <1>9 DEF FillBlock
<1>11. disk'[b] = blk /\ \A c \in Addr \ {b} : disk'[c] = disk[c]
  BY <1>4, <1>5, <1>10 DEF Disks
<1>12. Owns(disk', given, {b}, list)
  BY <1>4, <1>5, <1>6, <1>8, <1>11, Remake
<1>13. SameTree(disk, disk')
  BY <1>8, <1>11 DEF SameTree
<1>14. DirNames(disk') /\ OnFiles(disk', fd_table', {})
  BY <1>5, <1>13, TreeStays
<1>15. h.op = "point" /\ h.fd = g.fd /\ h.inode = g.inode /\ h.at = g.at /\ h.blk = b
  BY <1>9 DEF Point
<1>16. h \in WriteSteps /\ todo' = <<h>>
  BY <1>2, <1>4, <1>9, <1>10, Alone DEF WriteSteps, Point
<1>17. WritesTo(h, n)' /\ Took(h, n)'
  BY <1>1, <1>5, <1>13, <1>15, <1>16, StillWrites DEF SameTree
<1>18. Sound({n} \X (h.at + 1 .. Slots), {h.blk}, {}, list)'
  BY <1>3, <1>12, <1>14, <1>15, Settled
<1>19. Places(h, n, list)'
  BY <1>4, <1>8, <1>11, <1>15, <1>18 DEF Places
<1>20. AtWrite(list)'
  BY <1>16, <1>17, <1>19 DEF AtWrite, Takes
<1> QED BY <1>20, Arrive, NoneWaits

LEMMA OwnPointToBlock ==
  ASSUME Ownership, TypeOK, TypeOK', PointToBlock PROVE Ownership'
<1>0. Doing("point") /\ UNCHANGED process
  BY DEF PointToBlock
<1>1. PICK list \in Lists, g \in WriteSteps, n \in Addr :
        /\ WritesTo(g, n) /\ Took(g, n) /\ todo = <<g>> /\ g.op = "point"
        /\ Places(g, n, list)
  BY <1>0, WritesAt
<1>2. /\ Head(todo) = g /\ fd_table[g.fd] = n /\ n # 0 /\ disk[n].kind = "file"
      /\ \A steps : Resume(steps) => todo' = steps \o <<>>
      /\ g.fd \in FDs /\ g.tag \in Tags /\ g.inode \in Sized /\ g.at \in Nat
      /\ g.blk \in Addr
  BY <1>1, WriteFacts
<1>3. PICK given, b, k : given = {n} \X (g.at + 1 .. Slots) /\ b = g.blk /\ k = g.at + 1
  OBVIOUS
<1>4. /\ Sound(given, {b}, {}, list) /\ BlocksFor(g.inode.size) <= Len(list) + g.at + 1
      /\ g.at < BlocksFor(g.inode.size) /\ b # 0 /\ b \in Addr /\ disk[b].type = "FILEEX"
  BY <1>1, <1>2, <1>3 DEF Places
<1>5. /\ Owns(disk, given, {b}, list) /\ DirNames(disk) /\ OnFiles(disk, fd_table, {})
      /\ disk \in Disks /\ fd_table \in [FDs -> Addr] /\ fd_table' = fd_table
  BY <1>0, <1>4 DEF Sound, TypeOK, Disks, process
<1>6. /\ BlocksFor(g.inode.size) \in Nat /\ BlocksFor(g.inode.size) <= Slots
      /\ k \in 1 .. Slots
  BY <1>2, <1>3, <1>4, NeedOf, Bounds
<1>7. /\ g.inode.ptr = disk[n].ptr /\ g.inode.type = "INODE" /\ g.inode.kind = "file"
      /\ disk[n].type = "INODE" /\ Gapless(disk[n].ptr) /\ disk[n].ptr \in Ptrs
  BY <1>1, <1>2, <1>5, DiskFields, Ends DEF WritesTo, Owns, Shaped
<1>8. PICK inode : inode = [g.inode EXCEPT !.ptr[k] = b]
  OBVIOUS
<1>9. /\ inode.type = "INODE" /\ inode.kind = "file" /\ inode.size = g.inode.size
      /\ inode.ptr = [disk[n].ptr EXCEPT ![k] = b]
  BY <1>2, <1>7, <1>8 DEF Sized, Block
<1>10. /\ inode.ptr[k] = b
       /\ \A j \in 1 .. Slots : j # k => inode.ptr[j] = disk[n].ptr[j]
  BY <1>6, <1>7, <1>9 DEF Ptrs
<1>11. PICK h : h = Grab(g.fd, g.tag, inode, k)
  OBVIOUS
<1>12. disk' = [disk EXCEPT ![n] = inode] /\ Resume(<<h>>)
  BY <1>2, <1>3, <1>8, <1>11 DEF PointToBlock
<1>13. /\ disk'[n] = inode /\ inode \in Sized
       /\ \A c \in Addr \ {n} : disk'[c] = disk[c]
  BY <1>5, <1>12 DEF Disks, TypeOK
<1>14. /\ \A j \in 1 .. Slots : disk[n].ptr[j] # 0 => j <= BlocksFor(g.inode.size)
       /\ \A j \in 1 .. Slots : j < k => disk[n].ptr[j] # 0
  BY <1>1, <1>2, <1>3, <1>6 DEF Took
<1>15. Gapless(disk'[n].ptr)
  <2>1. SUFFICES ASSUME NEW i \in 1 .. Slots, NEW j \in 1 .. Slots, i <= j,
                        inode.ptr[i] = 0
                 PROVE  inode.ptr[j] = 0
    BY <1>13 DEF Gapless
  <2>2. i > k /\ j > k /\ disk[n].ptr[i] = 0
    BY <1>4, <1>6, <1>10, <1>14, <2>1
  <2> QED BY <1>6, <1>7, <1>10, <2>1, <2>2 DEF Gapless
<1>16. Shaped(disk')
  BY <1>2, <1>5, <1>9, <1>13, <1>15, Ends DEF Owns, Shaped
<1>17. PICK other : other = {n} \X (k + 1 .. Slots)
  OBVIOUS
<1>18. ASSUME NEW y \in Addr, NEW j \in 1 .. Slots
       PROVE  /\ Counts(disk, given, y, j) <=> disk[y].ptr[j] # 0 /\ ~ (y = n /\ j >= k)
              /\ Counts(disk', other, y, j) <=> disk'[y].ptr[j] # 0 /\ ~ (y = n /\ j > k)
  BY <1>3, <1>6, <1>17 DEF Counts
<1>19. ~ Counts(disk, given, n, k) /\ disk'[n].ptr[k] = b /\ Counts(disk', other, n, k)
  BY <1>4, <1>6, <1>10, <1>13, <1>18
<1>20. ASSUME NEW y \in Addr, NEW j \in 1 .. Slots, ~ (y = n /\ j = k)
       PROVE  /\ Counts(disk', other, y, j) <=> Counts(disk, given, y, j)
              /\ Counts(disk, given, y, j) => disk'[y].ptr[j] = disk[y].ptr[j]
  <2>1. disk'[y].ptr[j] = disk[y].ptr[j]
    BY <1>10, <1>13, <1>20
  <2> QED BY <1>6, <1>18, <1>20, <2>1
<1>21. \A c \in Addr : /\ disk'[c].type = disk[c].type /\ disk'[c].kind = disk[c].kind
                       /\ disk[c].type \in {"FREE", "SUPERBLOCK"} =>
                            disk'[c].next = disk[c].next
  BY <1>2, <1>7, <1>9, <1>13
<1>22. Owns(disk', other, {}, list)
  BY <1>2, <1>4, <1>5, <1>6, <1>16, <1>19, <1>20, <1>21, Attach
<1>23. DirNames(disk')
  <2>1. \A x \in Addr, i \in 1 .. Slots : disk[x].ptr[i] \in Addr
    BY <1>5, DiskFields
  <2>2. \A x \in Addr, i \in 1 .. Slots :
          IsDirOn(disk', x) /\ disk'[x].ptr[i] # 0 /\ disk'[disk'[x].ptr[i]].kind = "dir" =>
            /\ IsDirOn(disk, x) /\ disk[x].ptr[i] = disk'[x].ptr[i]
            /\ disk[disk'[x].ptr[i]].kind = "dir"
            /\ disk[disk'[x].ptr[i]].name = disk'[disk'[x].ptr[i]].name
    BY <1>2, <1>9, <1>13, <2>1, Ends DEF IsDirOn
  <2> QED BY <1>5, <2>2, NamesStay
<1>24. OnFiles(disk', fd_table', {})
  BY <1>5, <1>21 DEF OnFiles
<1>25. h.op = "grab" /\ h.fd = g.fd /\ h.inode = inode /\ h.at = k
  BY <1>11 DEF Grab
<1>26. h \in WriteSteps /\ todo' = <<h>>
  BY <1>2, <1>6, <1>11, <1>12, <1>13, Alone DEF WriteSteps, Grab
<1>27. WritesTo(h, n)'
  BY <1>2, <1>5, <1>9, <1>13, <1>25 DEF WritesTo
<1>28. Took(h, n)'
  <2>1. k <= BlocksFor(inode.size)
    BY <1>2, <1>3, <1>4, <1>6, <1>9
  <2>2. \A j \in 1 .. Slots : inode.ptr[j] # 0 => j <= BlocksFor(inode.size)
    <3>1. SUFFICES ASSUME NEW j \in 1 .. Slots, inode.ptr[j] # 0
                   PROVE  j <= BlocksFor(inode.size)
      OBVIOUS
    <3>2. CASE j = k
      BY <2>1, <3>2
    <3>3. CASE j # k
      BY <1>9, <1>10, <1>14, <3>1, <3>3
    <3> QED BY <3>2, <3>3
  <2>3. \A j \in 1 .. k : j <= Slots /\ inode.ptr[j] # 0
    <3>1. SUFFICES ASSUME NEW j \in 1 .. k PROVE j <= Slots /\ inode.ptr[j] # 0
      OBVIOUS
    <3>2. j \in 1 .. Slots
      BY <1>6, <3>1, Bounds
    <3>3. CASE j = k
      BY <1>4, <1>10, <3>2, <3>3
    <3>4. CASE j # k
      <4>1. j < k
        BY <1>6, <3>1, <3>4
      <4> QED BY <1>10, <1>14, <3>2, <3>4, <4>1
    <3> QED BY <3>3, <3>4
  <2> QED BY <1>13, <1>25, <2>1, <2>2, <2>3 DEF Took
<1>29. Sound({n} \X (h.at + 1 .. Slots), {}, {}, list)'
  BY <1>17, <1>22, <1>23, <1>24, <1>25, Settled
<1>30. Grabs(h, n, list)'
  <2>1. BlocksFor(h.inode.size) <= Len(list) + h.at
    BY <1>2, <1>3, <1>4, <1>6, <1>9, <1>25 DEF Lists
  <2> QED BY <1>25, <1>29, <2>1 DEF Grabs
<1>31. AtWrite(list)'
  BY <1>26, <1>27, <1>28, <1>30 DEF AtWrite, Takes
<1> QED BY <1>31, Arrive, NoneWaits

---------------------------------------------------------------------------
(* The whole program. *)

LEMMA OwnInit == ClientInit => Ownership
<1> SUFFICES ASSUME ClientInit PROVE Ownership
  OBVIOUS
<1>1. disk = Formatted /\ fd_table = NoFds /\ todo = <<>>
  BY DEF ClientInit, Init
<1>2. PICK list \in Lists : Owns(Formatted, {}, {}, list) /\ DirNames(Formatted)
  BY FormattedOwns
<1>3. AtRest(list)
  BY <1>1, <1>2 DEF AtRest, Sound, OnFiles, NoFds
<1> QED BY <1>1, <1>3, NoneWaits DEF Ownership, At, Idle

LEMMA OwnStutter ==
  ASSUME Ownership, UNCHANGED <<disk, mounted, fd_table, todo>> PROVE Ownership'
<1>1. AtFormat => AtFormat'
  BY DEF AtFormat
<1>2. ASSUME NEW given, NEW hand, NEW coming, NEW list, Sound(given, hand, coming, list)
      PROVE  Sound(given, hand, coming, list)'
  BY <1>2 DEF Sound
<1>3. ASSUME NEW list, AtRest(list) PROVE AtRest(list)'
  BY <1>2, <1>3 DEF AtRest
<1>4. ASSUME NEW list, NEW stack, AtWalk(list, stack) PROVE AtWalk(list, stack)'
  <2>1. FdsFull' <=> FdsFull
    BY DEF FdsFull
  <2>2. ASSUME NEW path PROVE NamesADir(path)' <=> NamesADir(path)
    BY DEF NamesADir, Resolve, Child, Matches
  <2> QED BY <1>3, <1>4, <2>1, <2>2 DEF AtWalk, LooksUp, Keeps
<1>5. ASSUME NEW list, NEW stack, AtScan(list, stack) PROVE AtScan(list, stack)'
  BY <1>3, <1>5 DEF AtScan, Scans, Keeps
<1>6. ASSUME NEW list, NEW stack, AtRewrite(list, stack) PROVE AtRewrite(list, stack)'
  BY <1>3, <1>6 DEF AtRewrite
<1>7. ASSUME NEW list, NEW stack, AtRemoveDir(list, stack) PROVE AtRemoveDir(list, stack)'
  BY <1>2, <1>3, <1>7, ZenonT(40) DEF AtRemoveDir, Removes, InDir, DirBody, DirHead, DirGone, Freeing, FreePtr
<1>8. ASSUME NEW list, NEW stack, AtRemoveFile(list, stack) PROVE AtRemoveFile(list, stack)'
  <2>1. ASSUME NEW n, NEW p, NEW k, Removes(n, p, k, stack) PROVE Removes(n, p, k, stack)'
    BY <2>1 DEF Removes, InDir
  <2>2. ASSUME NEW n, NEW p, NEW i, FileBlocks(n, p, i, list, stack)
        PROVE  FileBlocks(n, p, i, list, stack)'
    BY <2>2, Zenon DEF FileBlocks, Sound
  <2>3. ASSUME NEW n, NEW p, NEW i, NEW b, FileBlockHead(n, p, i, b, list, stack)
        PROVE  FileBlockHead(n, p, i, b, list, stack)'
    BY <2>3, Zenon DEF FileBlockHead, Sound, Freeing, FreePtr
  <2>4. ASSUME NEW n, NEW p, FileBody(n, p, list, stack) PROVE FileBody(n, p, list, stack)'
    BY <2>4, Zenon DEF FileBody, Sound
  <2>5. ASSUME NEW n, NEW p, NEW k, FileHead(n, p, k, list, stack)
        PROVE  FileHead(n, p, k, list, stack)'
    BY <1>2, <2>5 DEF FileHead, Freeing, FreePtr
  <2>6. ASSUME NEW n, NEW p, NEW k, FileGone(n, p, k, list, stack)
        PROVE  FileGone(n, p, k, list, stack)'
    BY <1>2, <2>6 DEF FileGone
  <2> QED BY <1>8, <2>1, <2>2, <2>3, <2>4, <2>5, <2>6, ZenonT(40) DEF AtRemoveFile
<1>9. ASSUME NEW list, AtCreate(list) PROVE AtCreate(list)'
  BY <1>2, <1>3, <1>9 DEF AtCreate, InDir, Creates, WritesInode, Links, FdsFull, Keeps
<1>10. ASSUME NEW list, AtWrite(list) PROVE AtWrite(list)'
  <2>1. ASSUME NEW g, NEW n, WritesTo(g, n) PROVE WritesTo(g, n)'
    BY <2>1 DEF WritesTo
  <2>2. ASSUME NEW g, NEW n, NEW i, NEW held, GivesBlock(g, n, i, held, list)
        PROVE  GivesBlock(g, n, i, held, list)'
    BY <2>2, Zenon DEF GivesBlock, Sound
  <2>3. ASSUME NEW g, NEW n, NEW i, NEW held, NEW b, GivesHead(g, n, i, held, b, list)
        PROVE  GivesHead(g, n, i, held, b, list)'
    BY <2>3, Zenon DEF GivesHead, Sound, Freeing, FreePtr
  <2>4. ASSUME NEW g, NEW n, NEW i, NEW held, GaveBack(g, n, i, held)
        PROVE  GaveBack(g, n, i, held)'
    BY <2>4 DEF GaveBack
  <2>5. ASSUME NEW g, NEW n, Takes(g, n, list) PROVE Takes(g, n, list)'
    <3>1. Took(g, n)' /\ todo' = <<g>>
      BY <2>5 DEF Takes, Took
    <3>2. CASE Grabs(g, n, list)
      BY <3>1, <3>2, Zenon DEF Takes, Grabs, Sound
    <3>3. CASE Places(g, n, list)
      BY <3>1, <3>3, Zenon DEF Takes, Places, Sound
    <3> QED BY <2>5, <3>2, <3>3 DEF Takes
  <2>6. ASSUME NEW g, NEW n, GivesBack(g, n, list) PROVE GivesBack(g, n, list)'
    BY <2>2, <2>3, <2>4, <2>6, Zenon DEF GivesBack
  <2> QED BY <1>10, <2>1, <2>5, <2>6, Zenon DEF AtWrite
<1>11. ASSUME NEW list \in Lists, NEW stack \in Stacks, At(list, stack) PROVE At(list, stack)'
  BY <1>3, <1>4, <1>5, <1>6, <1>7, <1>8, <1>9, <1>10, <1>11 DEF At, Idle
<1> QED BY <1>1, <1>11 DEF Ownership

LEMMA OwnStep == ASSUME Ownership, TypeOK, TypeOK', Mindful, Step PROVE Ownership'
  BY OwnFormat, OwnWalkRefuses, OwnWalkOn, OwnOpenFound, OwnDirFound, OwnNotFound,
     OwnPopInode, OwnWriteInode, OwnLinkInode, OwnFreeBlockBody, OwnFreeBlockHead,
     OwnReleaseBlocks, OwnUnlinkFile, OwnUnlinkDirectory, OwnScanNext,
     OwnRecursionOverflows, OwnRewriteDir, OwnGrabBlock, OwnFillBlock, OwnPointToBlock
     DEF Step

LEMMA ClientCalls == ClientNext => Next
  BY DEF ClientNext, Next, Call, Formats, Mounts, Unmounts, RemovesRoot, Continues, Dies,
     Opens, CreatesDir, RemovesDir, RemovesAll, Closes, Deletes, Reads, Seeks, Renames, Writes

LEMMA OwnNext ==
  ASSUME Ownership, Inv, TypeOK', Mindful, ~ Dies, ClientNext PROVE Ownership'
<1>0. TypeOK
  BY DEF Inv
<1>1. CASE Formats
  BY <1>1, OwnMkfs
<1>2. CASE Mounts \/ Unmounts
  BY <1>2, OwnMount DEF Mounts, Unmounts
<1>3. CASE RemovesRoot
  BY <1>0, <1>3, OwnRemoveAllOfRoot DEF RemovesRoot
<1>4. CASE Continues
  BY <1>0, <1>4, OwnStep DEF Continues
<1>6. ASSUME NEW path \in Paths,
             Opens(path) \/ CreatesDir(path) \/ RemovesDir(path) \/ RemovesAll(path)
      PROVE  Ownership'
  BY <1>0, <1>6, OwnPathCall DEF Opens, CreatesDir, RemovesDir, RemovesAll,
     OpenFile, CreateDir, RemoveDir, RemoveAll, Lookups
<1>7. ASSUME NEW fd \in FDs, Closes(fd) \/ Deletes(fd) \/ Reads(fd) PROVE Ownership'
  BY <1>0, <1>7, OwnCloseFile, OwnDeleteFile, OwnReadByte DEF Closes, Deletes, Reads
<1>8. ASSUME NEW fd \in FDs, NEW offset \in Offsets, Seeks(fd, offset) PROVE Ownership'
  BY <1>0, <1>8, OwnSeek DEF Seeks
<1>9. ASSUME NEW fd \in FDs, NEW name \in Names, Renames(fd, name) PROVE Ownership'
  BY <1>0, <1>9, OwnRename DEF Renames
<1>10. ASSUME NEW fd \in FDs, NEW tag \in Tags, NEW size \in Sizes, Writes(fd, tag, size)
       PROVE  Ownership'
  BY <1>0, <1>10, OwnWriteFile DEF Writes
<1> QED BY <1>1, <1>2, <1>3, <1>4, <1>6, <1>7, <1>8, <1>9, <1>10 DEF ClientNext

LEMMA OwnAlways == ASSUME Careful PROVE ClientSpec => [](Inv /\ Ownership)
<1>1. ClientInit => Inv /\ Ownership
  BY OwnInit, InvInit DEF ClientInit
<1>2. Inv /\ Ownership /\ [ClientNext]_cvars => (Inv /\ Ownership)'
  <2> SUFFICES ASSUME Inv, Ownership, [ClientNext]_cvars PROVE Inv' /\ Ownership'
    OBVIOUS
  <2>1. [Next]_vars
    BY ClientCalls DEF cvars
  <2>2. Inv' /\ TypeOK'
    BY <2>1, InvNext DEF Inv
  <2>3. CASE ClientNext
    BY <2>2, <2>3, OwnNext DEF Careful, Dies, May
  <2>4. CASE UNCHANGED cvars
    BY <2>2, <2>4, OwnStutter DEF cvars, vars
  <2> QED BY <2>2, <2>3, <2>4
<1> QED BY <1>1, <1>2, PTL DEF ClientSpec

(* Of a program that opens files only, shrinks none, writes what there is  *)
(* room for, formats no mounted disk and does not die, in whatever order   *)
(* it calls tfs_openFile, tfs_writeFile, tfs_deleteFile, tfs_createDir,    *)
(* tfs_removeDir and tfs_removeAll: at every disk write each block has the *)
(* owner the call that is running expects.                                 *)
THEOREM BlocksHaveOwners == ASSUME Careful PROVE ClientSpec => []Ownership
  BY OwnAlways, PTL

LEMMA Single ==
  ASSUME NEW S, S # {}, \A x, y \in S : x = y PROVE Cardinality(S) = 1
<1>1. PICK x : S = {x}
  OBVIOUS
<1> QED BY <1>1, FS_Singleton

LEMMA NoneOf == ASSUME NEW S, S = {} PROVE Cardinality(S) = 0
  BY FS_EmptySet

(* Between calls, what leads to the block b. *)
LEMMA RestFacts ==
  ASSUME Inv, NEW list \in Lists, AtRest(list)
  PROVE  /\ Owns(disk, {}, {}, list) /\ Shaped(disk) /\ Chain(disk, list)
         /\ disk \in Disks /\ fd_table \in [FDs -> Addr] /\ OnFiles(disk, fd_table, {})
         /\ \A x \in Addr : disk[x].kind \in {"none", "file", "dir"}
         /\ \A x \in Addr : disk[x].type = "SUPERBLOCK" <=> x = 0
  <1>1. Owns(disk, {}, {}, list) /\ OnFiles(disk, fd_table, {})
    BY DEF AtRest, Sound
  <1>2. disk \in Disks /\ fd_table \in [FDs -> Addr]
    BY DEF Inv, TypeOK, Disks
  <1>3. Shaped(disk) /\ Chain(disk, list)
    BY <1>1 DEF Owns
  <1>4. \A x \in Addr : disk[x].kind \in {"none", "file", "dir"}
    BY <1>2, Fields DEF Kinds, Disks
  <1>5. \A x \in Addr : disk[x].type = "SUPERBLOCK" <=> x = 0
    BY <1>3, Ends DEF Shaped
  <1> QED BY <1>1, <1>2, <1>3, <1>4, <1>5

LEMMA FreeRefs ==
  ASSUME Inv, NEW list \in Lists, AtRest(list), NEW b \in Addr, b # 0,
         NEW S \in SUBSET Refs(b, "FREE"),
         \A x \in S : x = 0 \/ \E i \in 1 .. Len(list) : list[i] = x
  PROVE  (S # {} => disk[b].type = "FREE") /\ \A x, y \in S : x = y
<1>1. /\ Chain(disk, list) /\ Len(list) \in Nat
      /\ \A i \in 1 .. Len(list) : list[i] # 0
  BY RestFacts, Ends DEF Lists
<1>2. \A x \in S : x \in Addr /\ disk[x].next = b
  BY DEF Refs
<1>3. ASSUME NEW x \in S
      PROVE  \E k \in 1 .. Len(list) :
               list[k] = b /\ (IF k = 1 THEN x = 0 ELSE x = list[k - 1])
  <2>1. CASE x = 0
    <3>1. disk[0].next = b
      BY <1>2, <2>1
    <3>2. list # <<>> /\ list[1] = b
      BY <1>1, <3>1, Ends DEF Chain
    <3>3. 1 \in 1 .. Len(list)
      BY <1>1, <3>2
    <3> QED BY <2>1, <3>2, <3>3
  <2>2. ASSUME NEW i \in 1 .. Len(list), list[i] = x
        PROVE  \E k \in 1 .. Len(list) :
                 list[k] = b /\ (IF k = 1 THEN x = 0 ELSE x = list[k - 1])
    <3>1. i < Len(list) /\ list[i + 1] = b
      BY <1>1, <1>2, <2>2 DEF Chain
    <3>2. PICK k : k = i + 1
      OBVIOUS
    <3>3. k \in 1 .. Len(list) /\ k # 1 /\ k - 1 = i
      BY <1>1, <3>1, <3>2
    <3> QED BY <2>2, <3>1, <3>2, <3>3
  <2> QED BY <1>3, <2>1, <2>2
<1>4. S # {} => disk[b].type = "FREE"
  BY <1>1, <1>3 DEF Chain
<1>5. ASSUME NEW x \in S, NEW y \in S PROVE x = y
  <2>1. PICK k \in 1 .. Len(list) :
          list[k] = b /\ (IF k = 1 THEN x = 0 ELSE x = list[k - 1])
    BY <1>3
  <2>2. PICK l \in 1 .. Len(list) :
          list[l] = b /\ (IF l = 1 THEN y = 0 ELSE y = list[l - 1])
    BY <1>3
  <2>3. k = l
    BY <1>1, <2>1, <2>2 DEF Chain
  <2> QED BY <2>1, <2>2, <2>3
<1> QED BY <1>4, <1>5

LEMMA PtrRefs ==
  ASSUME Inv, NEW list \in Lists, AtRest(list), NEW b \in Addr, b # 0,
         NEW as \in {"INODE", "FILEEX"}
  PROVE  /\ Refs(b, as) # {} => disk[b].type = as
         /\ \A s, t \in Refs(b, as) : s = t
<1>1. ASSUME NEW s \in Refs(b, as)
      PROVE  /\ s \in Addr \X (1 .. Slots) /\ Counts(disk, {}, s[1], s[2])
             /\ disk[s[1]].ptr[s[2]] = b
             /\ disk[s[1]].kind = "file" <=> as = "FILEEX"
  <2>1. s \in Addr \X (1 .. Slots) /\ disk[s[1]].ptr[s[2]] = b
    BY DEF Refs
  <2>2. disk[s[1]].kind = "file" <=> as = "FILEEX"
    <3>1. CASE as = "FILEEX"
      BY <3>1 DEF Refs
    <3>2. CASE as = "INODE"
      <4>1. disk[s[1]].type = "SUPERBLOCK" \/ disk[s[1]].kind = "dir"
        BY <3>2 DEF Refs
      <4>2. Shaped(disk) /\ \A x \in Addr : disk[x].type = "SUPERBLOCK" <=> x = 0
        BY RestFacts
      <4> QED BY <2>1, <3>2, <4>1, <4>2, Ends DEF Shaped
    <3> QED BY <3>1, <3>2
  <2> QED BY <2>1, <2>2, AllCount
<1>2. PICK d : d = disk
  OBVIOUS
<1>3. Owns(d, {}, {}, list)
  BY <1>2, RestFacts
<1>4. ASSUME NEW s \in Refs(b, as), NEW t \in Refs(b, as) PROVE s = t
  <2>1. PICK x, i, y, j : x = s[1] /\ i = s[2] /\ y = t[1] /\ j = t[2]
    OBVIOUS
  <2>2. /\ x \in Addr /\ i \in 1 .. Slots /\ Counts(d, {}, x, i) /\ d[x].ptr[i] = b
        /\ y \in Addr /\ j \in 1 .. Slots /\ Counts(d, {}, y, j) /\ d[y].ptr[j] = b
    BY <1>1, <1>2, <2>1
  <2>3. y = x /\ j = i
    BY <1>3, <2>2, OneOwnerOf
  <2>4. s[1] = t[1] /\ s[2] = t[2] /\ s \in Addr \X (1 .. Slots) /\ t \in Addr \X (1 .. Slots)
    BY <1>1, <2>1, <2>3
  <2> QED BY <2>4
<1>5. ASSUME NEW s \in Refs(b, as) PROVE disk[b].type = as
  <2>1. PICK x, i : x = s[1] /\ i = s[2]
    OBVIOUS
  <2>2. /\ x \in Addr /\ i \in 1 .. Slots /\ Counts(d, {}, x, i) /\ d[x].ptr[i] = b
        /\ d[x].kind = "file" <=> as = "FILEEX"
    BY <1>1, <1>2, <2>1
  <2>3. d[b].type = IF d[x].kind = "file" THEN "FILEEX" ELSE "INODE"
    BY <1>3, <2>2, OneOwnerOf
  <2> QED BY <1>2, <2>2, <2>3
<1> QED BY <1>4, <1>5

(* What leads to a file is a pointer of a directory. *)
LEMMA HasParent ==
  ASSUME Inv, NEW list \in Lists, AtRest(list), NEW b \in Addr, b # 0,
         disk[b].type \in {"INODE", "FILEEX"}
  PROVE  Refs(b, disk[b].type) # {} /\ (disk[b].type = "INODE" => Parents(b) # {})
<1>1. PICK x \in Addr, i \in 1 .. Slots : disk[x].ptr[i] = b /\ Counts(disk, {}, x, i)
  BY RestFacts, Ends DEF Owns, Held
<1>2. disk[b].type = IF disk[x].kind = "file" THEN "FILEEX" ELSE "INODE"
  <2>1. Owns(disk, {}, {}, list)
    BY RestFacts
  <2> QED BY <1>1, <2>1, OneOwnerOf
<1>3. x # 0 /\ disk[x].kind # "file" => disk[x].kind = "dir" /\ disk[x].type = "INODE"
  <2>1. Shaped(disk) /\ disk[x].kind \in {"none", "file", "dir"}
    BY RestFacts
  <2> QED BY <1>1, <2>1, Ends DEF Shaped
<1>4. x = 0 => disk[x].type = "SUPERBLOCK" /\ disk[x].kind = "none"
  BY RestFacts, Ends DEF Shaped
<1>5. <<x, i>> \in Refs(b, disk[b].type)
  BY <1>1, <1>2, <1>3, <1>4 DEF Refs
<1>6. disk[b].type = "INODE" => x \in Parents(b)
  BY <1>1, <1>2, <1>3, Ends DEF Parents
<1> QED BY <1>5, <1>6

LEMMA RestOwners ==
  ASSUME Inv, NEW list \in Lists, AtRest(list), NEW b \in Addr, b # 0
  PROVE  LET owners == [FREE   |-> Refs(b, "FREE") \cap Listed,
                        INODE  |-> Refs(b, "INODE"),
                        FILEEX |-> Refs(b, "FILEEX")]
             kinds  == {as \in DOMAIN owners : owners[as] # {}}
         IN  /\ kinds \subseteq {disk[b].type}
             /\ \A as \in kinds : Cardinality(owners[as]) = 1
<1> DEFINE free == Refs(b, "FREE") \cap Listed
<1>1. (free # {} => disk[b].type = "FREE") /\ \A x, y \in free : x = y
  <2>1. \A x \in free : x = 0 \/ \E i \in 1 .. Len(list) : list[i] = x
    BY RestFacts, ListedIs
  <2>2. free \in SUBSET Refs(b, "FREE")
    OBVIOUS
  <2> HIDE DEF free
  <2> QED BY <2>1, <2>2, FreeRefs
<1>2. free # {} => Cardinality(free) = 1
  BY <1>1, Single
<1>3. \A as \in {"INODE", "FILEEX"} :
        Refs(b, as) # {} => disk[b].type = as /\ Cardinality(Refs(b, as)) = 1
  BY PtrRefs, Single
<1> QED BY <1>1, <1>2, <1>3

(* Between two calls of such a program, also of one that asks for a        *)
(* descriptor when there is none or has all of the root removed, no block  *)
(* has two owners or one of another kind: two writes of the free list, a   *)
(* directory or a file never lead to one block.                            *)
THEOREM NeverTwoOwners == ASSUME Careful PROVE ClientSpec => []NoTwoOwners
<1>1. Inv /\ Ownership => NoTwoOwners
  BY WhereIdle, RestOwners, Ends DEF NoTwoOwners
<1> QED BY <1>1, OwnAlways, PTL

LEMMA RestOwned ==
  ASSUME Inv, LosesNone, NEW list \in Lists, AtRest(list), NEW b \in Addr, b # 0
  PROVE  Owned(b)
<1>1. Shaped(disk) /\ Chain(disk, list) /\ AllListed(disk, {}, list) /\ Len(list) \in Nat
  BY RestFacts DEF Owns, Lists
<1>2. disk[b].type \in {"FREE", "INODE", "FILEEX"}
  BY <1>1, Ends DEF Shaped
<1>3. \A x \in Refs(b, "FREE") : x = 0 \/ \E i \in 1 .. Len(list) : list[i] = x
  <2>1. ASSUME NEW x \in Refs(b, "FREE"), x # 0
        PROVE  \E i \in 1 .. Len(list) : list[i] = x
    <3>1. x \in Addr /\ disk[x].type = "FREE"
      BY <2>1, RestFacts DEF Refs
    <3> QED BY <1>1, <2>1, <3>1, Ends DEF AllListed
  <2> QED BY <2>1
<1>4. /\ Refs(b, "FREE") # {} => disk[b].type = "FREE"
      /\ \A x, y \in Refs(b, "FREE") : x = y
  BY <1>3, FreeRefs
<1>5. disk[b].type = "FREE" => Refs(b, "FREE") # {}
  <2>1. SUFFICES ASSUME disk[b].type = "FREE" PROVE \E x \in Addr : x \in Refs(b, "FREE")
    OBVIOUS
  <2>2. PICK i \in 1 .. Len(list) : list[i] = b
    BY <1>1, <2>1, Ends DEF AllListed
  <2>3. CASE i = 1
    <3>1. disk[0].next = b /\ disk[0].type = "SUPERBLOCK"
      BY <1>1, <2>2, <2>3, Ends DEF Chain, Shaped
    <3> QED BY <3>1, Ends DEF Refs
  <2>4. CASE i # 1
    <3>1. PICK j : j = i - 1
      OBVIOUS
    <3>2. j \in 1 .. Len(list) /\ j < Len(list) /\ list[j + 1] = b
      BY <1>1, <2>2, <2>4, <3>1
    <3>3. list[j] \in Addr /\ disk[list[j]].type = "FREE" /\ disk[list[j]].next = b
      BY <1>1, <3>2 DEF Chain, Lists
    <3> QED BY <3>3 DEF Refs
  <2> QED BY <2>3, <2>4
<1>6. \A as \in {"INODE", "FILEEX"} :
        /\ Refs(b, as) # {} => disk[b].type = as
        /\ \A s, t \in Refs(b, as) : s = t
  BY PtrRefs
<1>7. disk[b].type \in {"INODE", "FILEEX"} => Refs(b, disk[b].type) # {}
  BY HasParent
<1>8. ASSUME NEW as \in {"FREE", "INODE", "FILEEX"}, as # disk[b].type
      PROVE  Refs(b, as) = {}
  <2>1. CASE as = "FREE"
    BY <1>4, <1>8, <2>1
  <2>2. CASE as # "FREE"
    <3>1. as \in {"INODE", "FILEEX"}
      BY <2>2
    <3>2. Refs(b, as) # {} => disk[b].type = as
      BY <3>1, PtrRefs
    <3> QED BY <1>8, <3>2
  <2> QED BY <2>1, <2>2
<1>9. ASSUME NEW as \in {"FREE", "INODE", "FILEEX"}
      PROVE  Cardinality(Refs(b, as)) = IF as = disk[b].type THEN 1 ELSE 0
  <2>1. CASE as = disk[b].type
    <3>1. CASE as = "FREE"
      BY <1>4, <1>5, <2>1, <3>1, Single
    <3>2. CASE as # "FREE"
      <4>1. as \in {"INODE", "FILEEX"} /\ Refs(b, as) # {}
        BY <1>7, <2>1, <3>2
      <4>2. \A s, t \in Refs(b, as) : s = t
        BY <4>1, PtrRefs
      <4> QED BY <2>1, <4>1, <4>2, Single
    <3> QED BY <3>1, <3>2
  <2>2. CASE as # disk[b].type
    <3>1. Refs(b, as) = {}
      BY <1>8, <2>2
    <3> QED BY <2>2, <3>1, NoneOf
  <2> QED BY <2>1, <2>2
<1> QED BY <1>2, <1>9 DEF Owned

(* A careful program that also opens no file without a descriptor left and *)
(* empties the root itself loses no block: between two calls each block is *)
(* once on the free list, or in one directory, or in one file.             *)
THEOREM EveryBlockOwned ==
  ASSUME Careful, LosesNone PROVE ClientSpec => []OneOwner
<1>1. Inv /\ Ownership => OneOwner
  BY WhereIdle, RestOwned, Ends DEF OneOwner
<1> QED BY <1>1, OwnAlways, PTL

(* What a descriptor leads to between two calls. *)
LEMMA LiveFile ==
  ASSUME Inv, Ownership, Idle, NEW fd \in FDs, fd_table[fd] # 0
  PROVE  LET n == fd_table[fd] IN
         /\ n \in Addr /\ disk[n] \in Sized
         /\ disk[n].type = "INODE" /\ disk[n].kind = "file" /\ Parents(n) # {}
<1>1. PICK list \in Lists : AtRest(list)
  BY WhereIdle
<1>2. PICK n : n = fd_table[fd]
  OBVIOUS
<1>3. n \in Addr /\ disk[n].kind = "file" /\ disk[n] \in Sized
  BY <1>2, OpenIsFile, DiskFields DEF Inv, TypeOK, Disks
<1>4. disk[n].type = "INODE"
  BY <1>1, <1>2, <1>3, RestFacts, Ends DEF Shaped
<1>5. n # 0 /\ Parents(n) # {}
  BY <1>1, <1>2, <1>3, <1>4, HasParent
<1> QED BY <1>2, <1>3, <1>4, <1>5

(* No call leaves a descriptor of a file that is gone, or of a block that  *)
(* was taken for something else since: all descriptors of a deleted file   *)
(* are closed, and tfs_openFile never ends with one of no file.            *)
THEOREM DescriptorsStayLive == ASSUME Careful PROVE ClientSpec => []DescriptorsLive
<1>1. Inv /\ Ownership => DescriptorsLive
  BY LiveFile DEF DescriptorsLive
<1> QED BY <1>1, OwnAlways, PTL

(* Only tfs_readByte returns a byte. *)
NoByteReturned == ret' = ret \/ ret'.byte = NoByte

LEMMA Byteless ==
  /\ \A code : ret' = Returned(code) => NoByteReturned
  /\ Die => NoByteReturned
  /\ \A code : Fail(code) \/ Finish(code) => NoByteReturned
  /\ \A code : Refuse(code) \/ Return(code) => NoByteReturned
  /\ \A steps : Begin(steps) \/ Resume(steps) => NoByteReturned
  BY DEF NoByteReturned, Returned, Die, Fail, Finish, Refuse, Return, Begin, Resume

LEMMA BytelessStep == ASSUME Step PROVE NoByteReturned
<1>1. Format => NoByteReturned
  BY Byteless DEF Format
<1>2. WalkRefuses \/ WalkOn => NoByteReturned
  BY Byteless DEF WalkRefuses, WalkOn
<1>3. OpenFound \/ DirFound \/ NotFound => NoByteReturned
  BY Byteless DEF OpenFound, DirFound, NotFound
<1>4. PopInode \/ WriteInode \/ LinkInode => NoByteReturned
  BY Byteless DEF PopInode, WriteInode, LinkInode
<1>5. FreeBlockBody \/ FreeBlockHead \/ ReleaseBlocks => NoByteReturned
  BY Byteless DEF FreeBlockBody, FreeBlockHead, ReleaseBlocks
<1>6. UnlinkFile \/ UnlinkDirectory => NoByteReturned
  BY Byteless DEF UnlinkFile, UnlinkDirectory
<1>7. ScanNext => NoByteReturned
  <2>1. ScanNext => \E steps : Resume(steps)
    BY DEF ScanNext
  <2> QED BY <2>1, Byteless
<1>8. RecursionOverflows \/ RewriteDir => NoByteReturned
  BY Byteless DEF RecursionOverflows, RewriteDir
<1>9. GrabBlock \/ FillBlock \/ PointToBlock => NoByteReturned
  BY Byteless DEF GrabBlock, FillBlock, PointToBlock
<1> QED BY <1>1, <1>2, <1>3, <1>4, <1>5, <1>6, <1>7, <1>8, <1>9 DEF Step

LEMMA BytelessCalls ==
  ASSUME ClientNext
  PROVE  NoByteReturned \/ \E fd \in FDs : Reads(fd)
<1>1. Formats \/ Mounts \/ Unmounts \/ RemovesRoot => NoByteReturned
  BY Byteless DEF Formats, Mkfs, Mounts, Mount, MountOverflows, Unmounts, Unmount,
     RemovesRoot, RemoveAllOfRoot
<1>2. Continues \/ Dies => NoByteReturned
  BY BytelessStep, Byteless DEF Continues, Dies, Crash
<1>3. \A call, path : PathCall(call, path) => NoByteReturned
  BY Byteless DEF PathCall
<1>4. \A path : Opens(path) \/ CreatesDir(path) \/ RemovesDir(path) \/ RemovesAll(path)
                  => NoByteReturned
  BY <1>3 DEF Opens, OpenFile, CreatesDir, CreateDir, RemovesDir, RemoveDir, RemovesAll, RemoveAll
<1>5. \A fd : NotReady(fd) => NoByteReturned
  BY Byteless DEF NotReady
<1>6. \A fd : Closes(fd) \/ Deletes(fd) => NoByteReturned
  BY <1>5, Byteless DEF Closes, CloseFile, Deletes, DeleteFile
<1>7. \A fd, offset : Seeks(fd, offset) => NoByteReturned
  BY <1>5, Byteless DEF Seeks, Seek
<1>8. \A fd, name : Renames(fd, name) => NoByteReturned
  BY <1>5, Byteless DEF Renames, Rename
<1>9. \A fd, tag, size : Writes(fd, tag, size) => NoByteReturned
  BY <1>5, Byteless DEF Writes, WriteFile
<1> QED BY <1>1, <1>2, <1>4, <1>5, <1>6, <1>7, <1>8, <1>9 DEF ClientNext

(* The block a byte of the file n is in, and where in it. *)
LEMMA ByteOf ==
  ASSUME Inv, disk[0].type = "SUPERBLOCK", NEW n \in Addr, n # 0,
         disk[n].type = "INODE", Parents(n) # {}, NEW o \in Nat, o < disk[n].size
  PROVE  /\ Tree(disk)[n].bytes[o + 1] = ByteAt(disk, disk[n], o)
         /\ o \div MAX_DATA_SPACE + 1 \in 1 .. Slots
<1>1. disk[n] \in Sized
  BY DEF Inv, TypeOK
<1>2. o \in 0 .. disk[n].size - 1 /\ disk[n].size \in Nat /\ disk[n].size \in Sizes
  BY <1>1, Fields
<1>3. DirOf(disk, n) # {}
  BY Ends DEF DirOf, Parents
<1>4. n \in Inodes(disk)
  BY <1>3 DEF Inodes
<1>5. Tree(disk)[n] = Node(disk, n)
  BY <1>4 DEF Tree
<1>6. o + 1 \in 1 .. disk[n].size /\ (o + 1) - 1 = o
  BY <1>2
<1>7. Node(disk, n).bytes[o + 1] = ByteAt(disk, disk[n], o)
  BY <1>6 DEF Node
<1>8. o \div MAX_DATA_SPACE < Slots /\ o \div MAX_DATA_SPACE \in Nat
  BY <1>2, CallsAssumption, Bounds
<1>9. o \div MAX_DATA_SPACE + 1 \in 1 .. Slots
  BY <1>8, Bounds
<1> QED BY <1>5, <1>7, <1>9

LEMMA ReadsTheByte ==
  ASSUME Inv, Ownership, NEW fd \in FDs, Reads(fd), ~ NoByteReturned
  PROVE  LET n == fd_table[fd]
             got == ret'.byte
         IN  /\ n # 0
             /\ disk'[n].off = disk[n].off + 1
             /\ Tree(disk)[n].bytes[disk[n].off + 1] =
                  <<got.data.tag, got.data.idx * MAX_DATA_SPACE + got.at>>
<1>1. PICK n, inode : n = fd_table[fd] /\ inode = disk[n]
  OBVIOUS
<1>2. /\ Idle /\ n # 0 /\ inode.off < inode.size
      /\ disk' = [disk EXCEPT ![n].off = inode.off + 1]
      /\ ret' = [code |-> TFS_SUCCESS,
                 byte |-> [data |-> disk'[inode.ptr[BlockNum(inode.off)]].data,
                           at |-> inode.off % MAX_DATA_SPACE]]
  BY <1>1, Byteless DEF Reads, ReadByte, NotReady, Ready
<1>3. /\ n \in Addr /\ inode \in Sized /\ inode.type = "INODE" /\ inode.kind = "file"
      /\ Parents(n) # {}
  BY <1>1, <1>2, LiveFile
<1>4. disk[0].type = "SUPERBLOCK"
  BY <1>2, WhereIdle, RestFacts, Ends
<1>5. PICK o : o = inode.off
  OBVIOUS
<1>6. o \in Nat
  BY <1>3, <1>5, Fields
<1>7. /\ Tree(disk)[n].bytes[o + 1] = ByteAt(disk, inode, o)
      /\ o \div MAX_DATA_SPACE + 1 \in 1 .. Slots
  BY <1>1, <1>2, <1>3, <1>4, <1>5, <1>6, ByteOf
<1>8. PICK b : b = inode.ptr[o \div MAX_DATA_SPACE + 1]
  OBVIOUS
<1>9. b \in Addr
  BY <1>3, <1>7, <1>8, Fields
<1>10. disk \in Disks
  BY DEF Inv, TypeOK, Disks
<1>11. disk'[n].off = o + 1 /\ disk'[b].data = disk[b].data
  BY <1>2, <1>3, <1>5, <1>9, <1>10 DEF Disks, Sized, Block
<1>12. /\ ret'.byte.data = disk[b].data
       /\ ret'.byte.at = o % MAX_DATA_SPACE
  BY <1>2, <1>5, <1>8, <1>11 DEF BlockNum
<1>13. ByteAt(disk, inode, o) =
         <<disk[b].data.tag, disk[b].data.idx * MAX_DATA_SPACE + (o % MAX_DATA_SPACE)>>
  BY <1>8 DEF ByteAt
<1> QED BY <1>1, <1>2, <1>5, <1>7, <1>11, <1>12, <1>13

(* The byte tfs_readByte returns is the one at the file's offset, of the   *)
(* blocks the file had before the call: the offset that is moved on the    *)
(* disk first, and the block number computed from it, are those of the     *)
(* byte asked for, and the block is one of the file's own.                 *)
THEOREM ReadsAreRight == ASSUME Careful PROVE ClientSpec => ReadsReturnTheFile
<1> DEFINE Right ==
      ret' # ret /\ ret'.byte # NoByte =>
        \E fd \in FDs :
          LET n == fd_table[fd]
              got == ret'.byte
          IN  /\ n # 0
              /\ disk'[n].off = disk[n].off + 1
              /\ Tree(disk)[n].bytes[disk[n].off + 1] =
                   <<got.data.tag, got.data.idx * MAX_DATA_SPACE + got.at>>
<1>1. ASSUME Inv, Ownership, [ClientNext]_cvars PROVE Right
  <2>1. SUFFICES ASSUME ~ NoByteReturned PROVE Right
    BY DEF NoByteReturned
  <2>2. CASE ClientNext
    BY <1>1, <2>1, <2>2, BytelessCalls, ReadsTheByte
  <2>3. CASE UNCHANGED cvars
    BY <2>1, <2>3 DEF cvars, vars, NoByteReturned
  <2> QED BY <1>1, <2>2, <2>3
<1>2. [](Inv /\ Ownership) /\ [][ClientNext]_cvars => [][Right]_cvars
  BY <1>1, PTL
<1> QED BY <1>2, OwnAlways, PTL DEF ClientSpec, ReadsReturnTheFile

---------------------------------------------------------------------------
(* What the check of tfs_mount has found of a disk it accepts. *)

Sealed(d, S) == 0 \in S /\ \A b \in S, i \in 0 .. Slots : To(d, b, i) \in S

Checked(d) ==
  /\ d[0].type = "SUPERBLOCK"
  /\ \A b \in Addr, i \in 0 .. Slots :
       To(d, b, i) # 0 => d[To(d, b, i)].type = RefAs(d[b], i)
  /\ \A S \in SUBSET Addr : Sealed(d, S) => S = Addr

(* What it has seen leads to what it has seen or will visit, and there is  *)
(* no other way to either.                                                 *)
Tracked(d, w) ==
  /\ \A b \in w.seen, i \in 0 .. Slots :
       To(d, b, i) # 0 =>
         \/ To(d, b, i) \in w.seen /\ d[To(d, b, i)].type = RefAs(d[b], i)
         \/ \E k \in Nat : /\ ToVisit(w, k)
                           /\ w.work[k].blk = To(d, b, i) /\ w.work[k].as = RefAs(d[b], i)
  /\ \A S \in SUBSET Addr : Sealed(d, S) =>
       w.seen \subseteq S /\ \A k \in Nat : ToVisit(w, k) => w.work[k].blk \in S

LEMMA TrackedPasses ==
  ASSUME NEW d, NEW w \in Walks, w.work # <<>>, Tracked(d, w), Nowhere(Head(w.work)),
         NEW x, x = Pass(w)
  PROVE  Tracked(d, x)
<1>1. /\ x.seen = w.seen /\ Len(x.work) = Len(w.work) - 1 /\ Len(w.work) \in Nat
      /\ \A k \in 1 .. Len(x.work) :
           k + 1 \in 1 .. Len(w.work) /\ x.work[k] = w.work[k + 1]
      /\ 1 \in 1 .. Len(w.work) /\ Head(w.work) = w.work[1]
  BY PassFields, WalkFields
<1>2. \A k \in Nat : ToVisit(x, k) =>
        k + 1 \in Nat /\ ToVisit(w, k + 1) /\ x.work[k] = w.work[k + 1]
  BY <1>1 DEF ToVisit
<1>3. \A k \in Nat : ToVisit(w, k) =>
        k - 1 \in Nat /\ ToVisit(x, k - 1) /\ x.work[k - 1] = w.work[k]
  <2> SUFFICES ASSUME NEW k \in Nat, ToVisit(w, k)
               PROVE  k - 1 \in Nat /\ ToVisit(x, k - 1) /\ x.work[k - 1] = w.work[k]
    OBVIOUS
  <2>1. k # 1 /\ k \in 1 .. Len(w.work)
    BY <1>1 DEF ToVisit
  <2>2. k - 1 \in 1 .. Len(x.work) /\ k - 1 \in Nat /\ (k - 1) + 1 = k
    BY <1>1, <2>1
  <2> QED BY <1>1, <2>2 DEF ToVisit
<1>4. ASSUME NEW b \in x.seen, NEW i \in 0 .. Slots, To(d, b, i) # 0
      PROVE  \/ To(d, b, i) \in x.seen /\ d[To(d, b, i)].type = RefAs(d[b], i)
             \/ \E k \in Nat : /\ ToVisit(x, k)
                               /\ x.work[k].blk = To(d, b, i) /\ x.work[k].as = RefAs(d[b], i)
  <2>1. CASE To(d, b, i) \in w.seen /\ d[To(d, b, i)].type = RefAs(d[b], i)
    BY <1>1, <2>1
  <2>2. ASSUME NEW k \in Nat, ToVisit(w, k), w.work[k].blk = To(d, b, i),
               w.work[k].as = RefAs(d[b], i)
        PROVE  \E l \in Nat : /\ ToVisit(x, l)
                              /\ x.work[l].blk = To(d, b, i) /\ x.work[l].as = RefAs(d[b], i)
    BY <1>3, <2>2
  <2> QED BY <1>1, <1>4, <2>1, <2>2 DEF Tracked
<1> QED BY <1>1, <1>2, <1>4 DEF Tracked

LEMMA TrackedSteps ==
  ASSUME NEW d, NEW w \in Walks, w.work # <<>>, Tracked(d, w),
         NEW v, v = Head(w.work), ~ Nowhere(v), v.as = d[v.blk].type,
         NEW x, x = WalkStep(d, w)
  PROVE  Tracked(d, x)
<1>1. /\ x.seen = w.seen \cup {v.blk}
      /\ Len(x.work) = Len(w.work) + Slots
      /\ \A i \in 0 .. Slots :
           /\ i + 1 \in 1 .. Len(x.work)
           /\ x.work[i + 1] = [blk |-> To(d, v.blk, i), as |-> RefAs(d[v.blk], i),
                               depth |-> v.depth + 1]
      /\ \A k \in 1 .. Len(x.work) : k > Slots + 1 =>
           k - Slots \in 2 .. Len(w.work) /\ x.work[k] = w.work[k - Slots]
      /\ \A k \in 2 .. Len(w.work) :
           k + Slots \in 1 .. Len(x.work) /\ x.work[k + Slots] = w.work[k]
  BY StepFields
<1>2. /\ 1 \in 1 .. Len(w.work) /\ v = w.work[1] /\ Slots \in Nat /\ Len(w.work) \in Nat
      /\ ToVisit(w, 1)
  BY WalkFields, Bounds DEF ToVisit
<1>3. \A k \in Nat : ToVisit(w, k) /\ k # 1 =>
        k + Slots \in Nat /\ ToVisit(x, k + Slots) /\ x.work[k + Slots] = w.work[k]
  BY <1>1, <1>2 DEF ToVisit
<1>6. ASSUME NEW i \in 0 .. Slots
      PROVE  /\ i + 1 \in 1 .. Len(x.work)
             /\ x.work[i + 1].blk = To(d, v.blk, i) /\ x.work[i + 1].as = RefAs(d[v.blk], i)
  <2>1. PICK u : u = [blk |-> To(d, v.blk, i), as |-> RefAs(d[v.blk], i), depth |-> v.depth + 1]
    OBVIOUS
  <2>2. i + 1 \in 1 .. Len(x.work) /\ x.work[i + 1] = u
    BY <1>1, <2>1
  <2> QED BY <2>1, <2>2
<1>4. ASSUME NEW b \in x.seen, NEW i \in 0 .. Slots, To(d, b, i) # 0
      PROVE  \/ To(d, b, i) \in x.seen /\ d[To(d, b, i)].type = RefAs(d[b], i)
             \/ \E k \in Nat : /\ ToVisit(x, k)
                               /\ x.work[k].blk = To(d, b, i) /\ x.work[k].as = RefAs(d[b], i)
  <2>1. CASE b = v.blk
    <3>1. PICK l : l = i + 1
      OBVIOUS
    <3>2. /\ l \in Nat /\ l \in 1 .. Len(x.work)
          /\ x.work[l].blk = To(d, b, i) /\ x.work[l].as = RefAs(d[b], i)
      BY <1>2, <1>6, <2>1, <3>1
    <3>3. ToVisit(x, l)
      BY <1>4, <3>2 DEF ToVisit, Nowhere
    <3> QED BY <3>2, <3>3
  <2>2. CASE b \in w.seen
    <3>1. CASE To(d, b, i) \in w.seen /\ d[To(d, b, i)].type = RefAs(d[b], i)
      BY <1>1, <3>1
    <3>2. ASSUME NEW k \in Nat, ToVisit(w, k), w.work[k].blk = To(d, b, i),
                 w.work[k].as = RefAs(d[b], i), k = 1
          PROVE  To(d, b, i) \in x.seen /\ d[To(d, b, i)].type = RefAs(d[b], i)
      BY <1>1, <1>2, <3>2
    <3>3. ASSUME NEW k \in Nat, ToVisit(w, k), w.work[k].blk = To(d, b, i),
                 w.work[k].as = RefAs(d[b], i), k # 1
          PROVE  \E l \in Nat : /\ ToVisit(x, l)
                                /\ x.work[l].blk = To(d, b, i) /\ x.work[l].as = RefAs(d[b], i)
      BY <1>3, <3>3
    <3> QED BY <1>4, <2>2, <3>1, <3>2, <3>3 DEF Tracked
  <2> QED BY <1>1, <2>1, <2>2
<1>5. ASSUME NEW S \in SUBSET Addr, Sealed(d, S)
      PROVE  x.seen \subseteq S /\ \A k \in Nat : ToVisit(x, k) => x.work[k].blk \in S
  <2>1. w.seen \subseteq S /\ \A k \in Nat : ToVisit(w, k) => w.work[k].blk \in S
    BY <1>5 DEF Tracked
  <2>2. v.blk \in S
    BY <1>2, <2>1
  <2>3. ASSUME NEW k \in Nat, ToVisit(x, k) PROVE x.work[k].blk \in S
    <3>1. k \in 1 .. Len(x.work)
      BY <2>3 DEF ToVisit
    <3>2. CASE k > Slots + 1
      <4>1. k - Slots \in Nat /\ ToVisit(w, k - Slots) /\ x.work[k] = w.work[k - Slots]
        BY <1>1, <1>2, <2>3, <3>1, <3>2 DEF ToVisit
      <4> QED BY <2>1, <4>1
    <3>3. CASE ~ (k > Slots + 1)
      <4>1. k - 1 \in 0 .. Slots /\ (k - 1) + 1 = k
        BY <1>2, <3>1, <3>3
      <4>2. x.work[(k - 1) + 1].blk = To(d, v.blk, k - 1)
        BY <1>6, <4>1
      <4> QED BY <1>5, <2>2, <4>1, <4>2 DEF Sealed
    <3> QED BY <3>2, <3>3
  <2> QED BY <1>1, <2>1, <2>2, <2>3
<1> QED BY <1>4, <1>5 DEF Tracked

(* The walks the check accepts in the end. *)
Accepting(d, f) == {w \in Walks : f[w] = "ok" /\ Tracked(d, w)}

LEMMA AcceptingGoes ==
  ASSUME NEW d \in [Addr -> Block], NEW f, \A w \in Walks : f[w] = CheckStep(d, f, w),
         NEW w \in Accepting(d, f), w.work # <<>>
  PROVE  /\ Goes(d, w) \in Accepting(d, f)
         /\ Nowhere(Head(w.work))
              \/ /\ ~ (Head(w.work).depth > NumBlocks)
                 /\ Head(w.work).as = d[Head(w.work).blk].type
<1>1. w \in Walks /\ f[w] = "ok" /\ Tracked(d, w) /\ f[w] = CheckStep(d, f, w)
  BY DEF Accepting
<1>2. PICK v : v = Head(w.work)
  OBVIOUS
<1>3. \/ Nowhere(v) /\ f[Pass(w)] = "ok"
      \/ /\ ~ Nowhere(v) /\ HeaderOK(d[v.blk], v.as)
         /\ ~ (v.depth > Cardinality(DOMAIN d)) /\ f[WalkStep(d, w)] = "ok"
  BY <1>1, <1>2 DEF CheckStep
<1>4. Goes(d, w) \in Walks
  BY <1>1, GoesOnWalks
<1>5. CASE Nowhere(v) /\ f[Pass(w)] = "ok"
  BY <1>1, <1>2, <1>4, <1>5, TrackedPasses DEF Goes, Accepting
<1>6. CASE /\ ~ Nowhere(v) /\ HeaderOK(d[v.blk], v.as)
           /\ ~ (v.depth > Cardinality(DOMAIN d)) /\ f[WalkStep(d, w)] = "ok"
  <2>1. Cardinality(DOMAIN d) = NumBlocks
    <3>1. DOMAIN d = 0 .. NumBlocks - 1 /\ NumBlocks \in Nat
      BY Bounds DEF Addr
    <3> QED BY <3>1, FS_Interval
  <2>2. Tracked(d, WalkStep(d, w))
    BY <1>1, <1>2, <1>6, TrackedSteps DEF HeaderOK
  <2> QED BY <1>1, <1>2, <1>4, <1>6, <2>1, <2>2 DEF Goes, Accepting, HeaderOK
<1> QED BY <1>3, <1>5, <1>6

(* From a walk of n + r visits the check comes to one of the last n, when  *)
(* the depth of the first r leaves less than m to go down.                 *)
Comes(d, f, m, r) ==
  \A w \in Accepting(d, f), n \in Nat :
    /\ Len(w.work) = n + r
    /\ \A k \in 1 .. r : w.work[k].depth + m > NumBlocks
    => \E x \in Accepting(d, f) :
         Len(x.work) = n /\ \A k \in 1 .. n : x.work[k] = w.work[k + r]

LEMMA ComesFrom ==
  ASSUME NEW d \in [Addr -> Block], NEW f, \A w \in Walks : f[w] = CheckStep(d, f, w),
         NEW m \in Nat, NEW r \in Nat, r # 0, Comes(d, f, m, r - 1),
         m # 0 => Comes(d, f, m - 1, Slots + 1)
  PROVE  Comes(d, f, m, r)
<1> SUFFICES ASSUME NEW w \in Accepting(d, f), NEW n \in Nat, Len(w.work) = n + r,
                    \A k \in 1 .. r : w.work[k].depth + m > NumBlocks
             PROVE  \E x \in Accepting(d, f) :
                      Len(x.work) = n /\ \A k \in 1 .. n : x.work[k] = w.work[k + r]
  BY DEF Comes
<1>1. PICK q : q = n + (r - 1)
  OBVIOUS
<1>2. /\ q \in Nat /\ Len(w.work) = q + 1 /\ q + 1 = n + r /\ 1 \in 1 .. r
      /\ Slots \in Nat /\ NumBlocks \in Nat
  BY <1>1, Bounds
<1>3. PICK v : v = Head(w.work)
  OBVIOUS
<1>4. w \in Walks /\ w.work # <<>> /\ v = w.work[1] /\ v.depth \in Nat
  <2>1. w \in Walks
    BY DEF Accepting
  <2>2. w.work \in Seq(Visit) /\ Len(w.work) # 0
    BY <1>2, <2>1, WalkFields
  <2>3. w.work # <<>>
    BY <2>2, EmptyHasNone
  <2> QED BY <1>2, <1>3, <2>1, <2>3, WalkFields
<1>5. ASSUME NEW y \in Accepting(d, f), Len(y.work) = q, \A k \in 1 .. q : y.work[k] = w.work[k + 1]
      PROVE  \E x \in Accepting(d, f) :
               Len(x.work) = n /\ \A k \in 1 .. n : x.work[k] = w.work[k + r]
  <2>1. \A k \in 1 .. r - 1 : y.work[k].depth + m > NumBlocks
    <3> SUFFICES ASSUME NEW k \in 1 .. r - 1 PROVE y.work[k].depth + m > NumBlocks
      OBVIOUS
    <3>1. k \in 1 .. q /\ k + 1 \in 1 .. r
      BY <1>1
    <3> QED BY <1>5, <3>1
  <2>2. PICK x \in Accepting(d, f) :
          Len(x.work) = n /\ \A k \in 1 .. n : x.work[k] = y.work[k + (r - 1)]
    <3>1. PICK p : p = r - 1
      OBVIOUS
    <3>2. Comes(d, f, m, p) /\ Len(y.work) = n + p
      BY <1>1, <1>5, <3>1
    <3>3. \A k \in 1 .. p : y.work[k].depth + m > NumBlocks
      BY <2>1, <3>1
    <3>4. \E x \in Accepting(d, f) :
            Len(x.work) = n /\ \A k \in 1 .. n : x.work[k] = y.work[k + p]
      BY <1>5, <3>2, <3>3, Zenon DEF Comes
    <3> QED BY <3>1, <3>4
  <2>3. ASSUME NEW k \in 1 .. n PROVE x.work[k] = w.work[k + r]
    <3>1. k + (r - 1) \in 1 .. q /\ (k + (r - 1)) + 1 = k + r
      BY <1>1
    <3> QED BY <1>5, <2>2, <3>1
  <2> QED BY <2>2, <2>3
<1>6. PICK y : y = Goes(d, w)
  OBVIOUS
<1>7. /\ y \in Accepting(d, f)
      /\ Nowhere(v) \/ (~ (v.depth > NumBlocks) /\ v.as = d[v.blk].type)
  BY <1>3, <1>4, <1>6, AcceptingGoes
<1>8. ASSUME Nowhere(v)
      PROVE  \E x \in Accepting(d, f) :
               Len(x.work) = n /\ \A k \in 1 .. n : x.work[k] = w.work[k + r]
  <2>1. y = Pass(w)
    BY <1>3, <1>6, <1>8 DEF Goes
  <2>2. Len(y.work) = Len(w.work) - 1 /\ \A k \in 1 .. Len(y.work) : y.work[k] = w.work[k + 1]
    BY <1>4, <2>1, PassFields
  <2>3. Len(y.work) = q
    BY <1>2, <2>2
  <2> QED BY <1>5, <1>7, <2>2, <2>3
<1>9. ASSUME ~ Nowhere(v)
      PROVE  \E x \in Accepting(d, f) :
               Len(x.work) = n /\ \A k \in 1 .. n : x.work[k] = w.work[k + r]
  <2>1. y = WalkStep(d, w) /\ v.as = d[v.blk].type
    BY <1>3, <1>6, <1>7, <1>9 DEF Goes
  <2>2. /\ Len(y.work) = Len(w.work) + Slots
        /\ \A i \in 0 .. Slots :
             y.work[i + 1] = [blk |-> To(d, v.blk, i), as |-> RefAs(d[v.blk], i),
                              depth |-> v.depth + 1]
        /\ \A k \in 1 .. Len(y.work) : k > Slots + 1 => y.work[k] = w.work[k - Slots]
    BY <1>3, <1>4, <2>1, StepFields
  <2>3. Len(y.work) = q + (Slots + 1)
    BY <1>2, <2>2
  <2>4. v.depth + m > NumBlocks /\ m # 0 /\ m - 1 \in Nat
    BY <1>2, <1>4, <1>7, <1>9
  <2>5. ASSUME NEW k \in 1 .. Slots + 1 PROVE y.work[k].depth + (m - 1) > NumBlocks
    <3>1. k - 1 \in 0 .. Slots /\ (k - 1) + 1 = k
      BY <1>2
    <3>2. PICK u : u = [blk |-> To(d, v.blk, k - 1), as |-> RefAs(d[v.blk], k - 1),
                        depth |-> v.depth + 1]
      OBVIOUS
    <3>3. y.work[k] = u
      BY <2>2, <3>1, <3>2
    <3>4. y.work[k].depth = v.depth + 1
      BY <3>2, <3>3
    <3> QED BY <1>2, <1>4, <2>4, <3>4
  <2>6. PICK x \in Accepting(d, f) :
          Len(x.work) = q /\ \A k \in 1 .. q : x.work[k] = y.work[k + (Slots + 1)]
    BY <1>2, <1>7, <2>3, <2>4, <2>5 DEF Comes
  <2>7. ASSUME NEW k \in 1 .. q PROVE x.work[k] = w.work[k + 1]
    <3>1. PICK l : l = k + (Slots + 1)
      OBVIOUS
    <3>2. l \in 1 .. Len(y.work) /\ l > Slots + 1 /\ l - Slots = k + 1
      BY <1>2, <2>3, <3>1
    <3> QED BY <2>2, <2>6, <3>1, <3>2
  <2> QED BY <1>5, <2>6, <2>7
<1> QED BY <1>8, <1>9

LEMMA AlwaysComes ==
  ASSUME NEW d \in [Addr -> Block], NEW f, \A w \in Walks : f[w] = CheckStep(d, f, w),
         NEW m \in Nat, NEW r \in Nat
  PROVE  Comes(d, f, m, r)
<1> DEFINE Deep == {k \in Nat : \E q \in Nat : ~ Comes(d, f, k, q)}
<1>1. ASSUME Deep # {} PROVE FALSE
  <2>1. PICK k \in Deep : \A j \in Deep : k <= j
    <3>1. Deep \in SUBSET Nat
      OBVIOUS
    <3> QED BY <1>1, <3>1, LeastNumber
  <2> DEFINE Long == {q \in Nat : ~ Comes(d, f, k, q)}
  <2>2. Long \in SUBSET Nat /\ Long # {}
    BY <2>1
  <2>3. PICK q \in Long : \A j \in Long : q <= j
    BY <2>2, LeastNumber
  <2>4. k \in Nat /\ q \in Nat /\ Slots + 1 \in Nat
    BY <2>1, <2>3, Bounds
  <2>5. k # 0 => Comes(d, f, k - 1, Slots + 1)
    BY <2>1, <2>4
  <2>6. q # 0
    <3>1. Comes(d, f, k, 0)
      BY WalkFields DEF Comes, Accepting
    <3> QED BY <2>3, <3>1
  <2>7. Comes(d, f, k, q - 1)
    BY <2>3, <2>4, <2>6
  <2>8. Comes(d, f, k, q)
    BY <2>4, <2>5, <2>6, <2>7, ComesFrom
  <2> QED BY <2>3, <2>8
<1> QED BY <1>1

(* A disk that is accepted is one block's tree, of references of the right *)
(* kinds.                                                                  *)
LEMMA Accepted ==
  ASSUME NEW d \in [Addr -> Block], MountCheck(d) = "ok"
  PROVE  Checked(d)
<1>1. PICK f : MountCheck(d) = f[StartWalk] /\ \A w \in Walks : f[w] = CheckStep(d, f, w)
  BY CheckRuns
<1>2. PICK v : v = [blk |-> SUPERBLOCK_DISKLOC, as |-> "SUPERBLOCK", depth |-> 1]
  OBVIOUS
<1>3. /\ StartWalk \in Walks /\ StartWalk.work = <<v>> /\ StartWalk.seen = {}
      /\ Len(StartWalk.work) = 1 /\ StartWalk.work[1] = v /\ v.blk = 0 /\ v.depth = 1
      /\ v.as = "SUPERBLOCK" /\ ~ Nowhere(v) /\ StartWalk.work # <<>>
      /\ Head(StartWalk.work) = v
  <2>1. v \in Visit /\ v.blk = 0 /\ v.depth = 1 /\ v.as = "SUPERBLOCK"
    BY <1>2, Ends DEF Visit, BlockTypes
  <2>2. StartWalk = [work |-> <<v>>, seen |-> {}]
    BY <1>2 DEF StartWalk
  <2>3. StartWalk.work = <<v>> /\ StartWalk.seen = {}
    BY <2>2
  <2>4. <<v>> \in Seq(Visit) /\ Len(<<v>>) = 1 /\ <<v>>[1] = v /\ Head(<<v>>) = v /\ <<v>> # <<>>
    BY <2>1
  <2>5. StartWalk \in Walks
    BY <2>2, <2>4 DEF Walks
  <2>6. ~ Nowhere(v)
    BY <2>1 DEF Nowhere
  <2> QED BY <2>1, <2>3, <2>4, <2>5, <2>6
<1>4. Tracked(d, StartWalk)
  <2>1. ASSUME NEW S \in SUBSET Addr, Sealed(d, S), NEW k \in Nat, ToVisit(StartWalk, k)
        PROVE  StartWalk.work[k].blk \in S
    BY <1>3, <2>1 DEF ToVisit, Sealed
  <2> QED BY <1>3, <2>1 DEF Tracked
<1>5. StartWalk \in Accepting(d, f)
  BY <1>1, <1>3, <1>4 DEF Accepting
<1>6. d[0].type = "SUPERBLOCK"
  <2>1. \/ Nowhere(Head(StartWalk.work))
        \/ Head(StartWalk.work).as = d[Head(StartWalk.work).blk].type
    BY <1>1, <1>3, <1>5, AcceptingGoes
  <2> QED BY <1>3, <2>1
<1>7. PICK x \in Accepting(d, f) : Len(x.work) = 0
  <2>1. NumBlocks \in Nat /\ Comes(d, f, NumBlocks, 1)
    BY <1>1, AlwaysComes, Bounds
  <2>2. \A k \in 1 .. 1 : StartWalk.work[k].depth + NumBlocks > NumBlocks
    BY <1>3, <2>1
  <2> QED BY <1>3, <1>5, <2>1, <2>2 DEF Comes
<1>8. x \in Walks /\ f[x] = "ok" /\ Tracked(d, x) /\ f[x] = CheckStep(d, f, x)
  BY <1>1 DEF Accepting
<1>9. x.work = <<>> /\ x.seen = Addr
  <2>1. x.work = <<>>
    BY <1>7, <1>8, WalkFields, EmptyHasNone
  <2> QED BY <1>8, <2>1 DEF CheckStep
<1>10. \A k \in Nat : ~ ToVisit(x, k)
  BY <1>7 DEF ToVisit
<1> QED BY <1>6, <1>8, <1>9, <1>10 DEF Tracked, Checked

---------------------------------------------------------------------------
(* What it has accepted owns its blocks, though a call was not done. *)

(* No free block is owned, none in hand is found. *)
LEMMA NotPointed ==
  ASSUME NEW d \in Disks, Checked(d), Shaped(d), NEW x \in Addr, NEW i \in 1 .. Slots,
         d[x].ptr[i] # 0
  PROVE  d[d[x].ptr[i]].type # "FREE"
<1>1. d[x].type \in {"SUPERBLOCK", "INODE"}
  BY Ends DEF Shaped
<1>2. i \in 0 .. Slots /\ i # 0
  BY Bounds
<1>3. To(d, x, i) = d[x].ptr[i]
  BY <1>1, <1>2 DEF To, Ref
<1>4. d[d[x].ptr[i]].type = RefAs(d[x], i)
  BY <1>2, <1>3 DEF Checked
<1> QED BY <1>2, <1>4 DEF RefAs

LEMMA NotInHand ==
  ASSUME NEW d \in Disks, LosesNone, Checked(d), NEW hand \in SUBSET Addr, 0 \notin hand,
         NEW list \in Lists, Owns(d, {}, hand, list)
  PROVE  hand = {}
<1>1. PICK S : S = Addr \ hand
  OBVIOUS
<1>2. 0 \in S /\ S \in SUBSET Addr
  BY <1>1, Ends
<1>3. ASSUME NEW k \in 1 .. Len(list) PROVE list[k] \in S
  BY <1>1, <1>3, ListFacts DEF Owns
<1>4. ASSUME NEW b \in S, d[b].type \in {"SUPERBLOCK", "FREE"} PROVE d[b].next \in S
  <2>1. CASE b = 0
    <3>1. list # <<>> => 1 \in 1 .. Len(list)
      BY ListFacts DEF Owns
    <3> QED BY <1>2, <1>3, <2>1, <3>1, Ends DEF Owns, Chain
  <2>2. CASE b # 0
    <3>1. b \in Addr \ {0} /\ d[b].type = "FREE" /\ b \notin hand
      BY <1>1, <1>4, <2>2, Ends DEF Owns, Shaped
    <3>2. PICK k \in 1 .. Len(list) : list[k] = b
      BY <3>1, Ends DEF Owns, AllListed
    <3>3. d[b].next = IF k < Len(list) THEN list[k + 1] ELSE 0
      BY <3>2 DEF Owns, Chain
    <3>4. k < Len(list) => k + 1 \in 1 .. Len(list)
      BY ListFacts DEF Owns
    <3> QED BY <1>2, <1>3, <3>3, <3>4
  <2> QED BY <2>1, <2>2
<1>5. ASSUME NEW b \in S, NEW i \in 1 .. Slots PROVE d[b].ptr[i] \in S
  <2>1. CASE d[b].ptr[i] = 0
    BY <1>2, <2>1
  <2>2. CASE d[b].ptr[i] # 0
    <3>1. b \in Addr /\ Counts(d, {}, b, i) /\ d[b].ptr[i] \in Addr
      BY <1>1, <2>2, DiskFields DEF Counts
    <3> QED BY <1>1, <3>1, OneOwnerOf
  <2> QED BY <2>1, <2>2
<1>6. Sealed(d, S)
  <2>1. ASSUME NEW b \in S, NEW i \in 0 .. Slots PROVE To(d, b, i) \in S
    <3>1. i # 0 => i \in 1 .. Slots
      BY Bounds
    <3> QED BY <1>2, <1>4, <1>5, <3>1 DEF To, Ref
  <2> QED BY <1>2, <2>1 DEF Sealed
<1> QED BY <1>1, <1>2, <1>6 DEF Checked

(* The pointers given up are all clear, or one of them shows.              *)
LEMMA NoneTorn ==
  ASSUME NEW d \in Disks, LosesNone, Checked(d), NEW given,
         NEW hand \in SUBSET Addr, 0 \notin hand,
         NEW list \in Lists, Owns(d, given, hand, list),
         \/ \A x \in Addr, i \in 1 .. Slots : <<x, i>> \in given => d[x].ptr[i] = 0
         \/ \E x \in Addr, i \in 1 .. Slots :
              d[x].ptr[i] # 0 /\ d[d[x].ptr[i]].type = "FREE"
  PROVE  Owns(d, {}, {}, list)
<1>1. \A x \in Addr, i \in 1 .. Slots : <<x, i>> \in given => d[x].ptr[i] = 0
  BY NotPointed DEF Owns
<1>2. \A x \in Addr, i \in 1 .. Slots : Counts(d, {}, x, i) <=> Counts(d, given, x, i)
  BY <1>1 DEF Counts
<1>3. Owns(d, {}, hand, list)
  BY <1>2, GivenUp
<1>4. hand = {}
  BY <1>3, NotInHand
<1> QED BY <1>3, <1>4

(* The pointers of n are clear, or the first one shows. *)
LEMMA FirstShows ==
  ASSUME NEW d \in Disks, NEW n \in Addr, Gapless(d[n].ptr),
         \A j \in 1 .. Slots : j = 1 /\ d[n].ptr[j] # 0 => d[d[n].ptr[j]].type = "FREE"
  PROVE  \/ \A j \in 1 .. Slots : d[n].ptr[j] = 0
         \/ \E x \in Addr, i \in 1 .. Slots :
              d[x].ptr[i] # 0 /\ d[d[x].ptr[i]].type = "FREE"
<1>1. ASSUME NEW j \in 1 .. Slots, d[n].ptr[j] # 0
      PROVE  \E i \in 1 .. Slots : d[n].ptr[i] # 0 /\ d[d[n].ptr[i]].type = "FREE"
  <2>1. 1 \in 1 .. Slots /\ 1 <= j
    BY Bounds
  <2>2. d[n].ptr[1] # 0
    BY <1>1, <2>1 DEF Gapless
  <2> QED BY <2>1, <2>2
<1> QED BY <1>1

(* The block in hand is the one that was there before.                     *)
LEMMA Replaced ==
  ASSUME NEW d \in Disks, NEW n \in Addr, NEW b \in Addr, d[n].kind = "file",
         NEW list \in Lists, Owns(d, {n} \X (1 .. Slots), {b}, list),
         1 \in 1 .. Slots, d[n].ptr[1] = b, b # 0, d[b].type = "FILEEX",
         \A j \in 1 .. Slots : d[n].ptr[j] # 0 => j = 1
  PROVE  Owns(d, {}, {}, list)
<1>1. PICK given : given = {n} \X (1 .. Slots)
  OBVIOUS
<1>2. Owns(d, given, {b}, list)
  BY <1>1
<1>3. \A x \in Addr, i \in 1 .. Slots :
        /\ Counts(d, {}, x, i) <=> Counts(d, given, x, i) \/ (x = n /\ i = 1)
        /\ Counts(d, given, x, i) => x # n
  BY <1>1 DEF Counts
<1>4. Apart(d, {}, {})
  <2> SUFFICES ASSUME NEW x \in Addr, NEW i \in 1 .. Slots, Counts(d, {}, x, i)
               PROVE  /\ d[d[x].ptr[i]].type = IF d[x].kind = "file" THEN "FILEEX" ELSE "INODE"
                      /\ \A y \in Addr, j \in 1 .. Slots :
                           Counts(d, {}, y, j) /\ d[y].ptr[j] = d[x].ptr[i] => y = x /\ j = i
    BY DEF Apart
  <2>1. CASE Counts(d, given, x, i)
    <3>1. /\ d[x].ptr[i] # b
          /\ d[d[x].ptr[i]].type = IF d[x].kind = "file" THEN "FILEEX" ELSE "INODE"
          /\ \A y \in Addr, j \in 1 .. Slots :
               Counts(d, given, y, j) /\ d[y].ptr[j] = d[x].ptr[i] => y = x /\ j = i
      BY <1>2, <2>1, OneOwnerOf
    <3> QED BY <1>3, <3>1
  <2>2. CASE x = n /\ i = 1
    <3>1. \A y \in Addr, j \in 1 .. Slots : Counts(d, given, y, j) => d[y].ptr[j] # b
      BY <1>2, OneOwnerOf
    <3> QED BY <1>3, <2>2, <3>1
  <2> QED BY <1>3, <2>1, <2>2
<1>5. Held(d, {}, {})
  <2> SUFFICES ASSUME NEW c \in Addr \ {0}, d[c].type \in {"INODE", "FILEEX"}
               PROVE  \E x \in Addr, i \in 1 .. Slots : Counts(d, {}, x, i) /\ d[x].ptr[i] = c
    BY Ends DEF Held
  <2>1. CASE c = b
    BY <1>3, <2>1
  <2>2. CASE c # b
    <3>1. \E x \in Addr, i \in 1 .. Slots : Counts(d, given, x, i) /\ d[x].ptr[i] = c
      BY <1>2, <2>2, Ends DEF Owns, Held
    <3> QED BY <1>3, <3>1
  <2> QED BY <2>1, <2>2
<1>6. LosesNone => AllListed(d, {}, list)
  BY <1>2 DEF Owns, AllListed
<1> QED BY <1>2, <1>4, <1>5, <1>6 DEF Owns

LEMMA TornRelease ==
  ASSUME LosesNone, disk \in Disks, Checked(disk), NEW n \in Addr, n # 0,
         disk[n].kind = "file", NEW i \in 1 .. Slots + 1,
         i > 1 => FreedFirst(disk[n].ptr),
         NEW hand \in SUBSET Addr, 0 \notin hand,
         NEW list \in Lists, Owns(disk, {n} \X (1 .. i - 1), hand, list)
  PROVE  Owns(disk, {}, {}, list)
<1>1. PICK ks, given : ks = 1 .. i - 1 /\ given = {n} \X ks
  OBVIOUS
<1>2. ks \in SUBSET (1 .. Slots) /\ Owns(disk, given, hand, list)
  BY <1>1, Bounds
<1>3. Gapless(disk[n].ptr)
  BY <1>2, Ends DEF Owns, Shaped
<1>4. CASE i = 1
  <2>1. \A x \in Addr, j \in 1 .. Slots : <<x, j>> \in given => disk[x].ptr[j] = 0
    BY <1>1, <1>4
  <2> QED BY <1>2, <2>1, NoneTorn
<1>5. CASE i > 1
  <2>1. \A j \in 1 .. Slots :
          j = 1 /\ disk[n].ptr[j] # 0 => disk[disk[n].ptr[j]].type = "FREE"
    BY <1>5 DEF FreedFirst
  <2>2. \/ \A j \in 1 .. Slots : disk[n].ptr[j] = 0
        \/ \E x \in Addr, j \in 1 .. Slots :
             disk[x].ptr[j] # 0 /\ disk[disk[x].ptr[j]].type = "FREE"
    BY <1>3, <2>1, FirstShows
  <2>3. ASSUME \A j \in 1 .. Slots : disk[n].ptr[j] = 0
        PROVE  \A x \in Addr, j \in 1 .. Slots : <<x, j>> \in given => disk[x].ptr[j] = 0
    BY <1>1, <2>3
  <2> QED BY <1>2, <2>2, <2>3, NoneTorn
<1> QED BY <1>4, <1>5, Bounds

LEMMA TornEntry ==
  ASSUME LosesNone, disk \in Disks, Checked(disk), NEW n \in Addr, n # 0,
         NEW p \in Addr, NEW k \in 1 .. Slots,
         NEW hand \in SUBSET Addr, 0 \notin hand,
         NEW list \in Lists, Owns(disk, {<<p, k>>}, hand, list),
         disk[p].ptr[k] = n, disk[n].type = "FREE"
  PROVE  FALSE
  BY NotPointed DEF Owns

LEMMA TornWrite ==
  ASSUME LosesNone, disk \in Disks, Checked(disk), Leftovers,
         NEW op \in {"grab", "fill", "point"}, Doing(op),
         NEW list \in Lists, NEW g \in WriteSteps, NEW n \in Addr,
         WritesTo(g, n), Took(g, n), todo = <<g>>, g.op = op,
         op = "grab" => Grabs(g, n, list),
         op # "grab" => Places(g, n, list)
  PROVE  Owns(disk, {}, {}, list)
<1>1. /\ n # 0 /\ disk[n].kind = "file" /\ fd_table[g.fd] = n /\ Head(todo) = g
      /\ op # "grab" => g.blk \in Addr /\ g.blk # 0
      /\ g.at \in Nat
  BY DEF WritesTo, Places, WriteSteps
<1>2. PICK next : next = IF op = "grab" THEN FreePtr ELSE g.blk
  OBVIOUS
<1>3. \A j \in 1 .. Slots : j > g.at /\ disk[n].ptr[j] # 0 => j = 1 /\ disk[n].ptr[j] = next
  BY <1>1, <1>2 DEF Leftovers, LeftWrite
<1>4. PICK ks, given, hand :
        /\ ks = g.at + 1 .. Slots /\ given = {n} \X ks
        /\ hand = IF op = "grab" THEN {} ELSE {g.blk}
  OBVIOUS
<1>5. Owns(disk, given, hand, list) /\ hand \in SUBSET Addr /\ 0 \notin hand
  BY <1>1, <1>4 DEF Grabs, Places, Sound
<1>6. ks \in SUBSET (1 .. Slots) /\ \A j \in ks : j > g.at
  BY <1>1, <1>4, Bounds
<1>7. CASE \A j \in ks : disk[n].ptr[j] = 0
  <2>1. \A x \in Addr, j \in 1 .. Slots : <<x, j>> \in given => disk[x].ptr[j] = 0
    BY <1>4, <1>7
  <2> QED BY <1>5, <2>1, NoneTorn
<1>8. ASSUME NEW j \in ks, disk[n].ptr[j] # 0 PROVE Owns(disk, {}, {}, list)
  <2>1. j = 1 /\ 1 \in 1 .. Slots /\ disk[n].ptr[1] = next /\ next # 0 /\ g.at = 0
    BY <1>1, <1>3, <1>6, <1>8
  <2>2. CASE op = "point"
    <3>1. next = g.blk /\ disk[next].type = "FILEEX" /\ next \in Addr
      BY <1>1, <1>2, <2>2 DEF Places
    <3>2. ks = 1 .. Slots /\ hand = {next}
      BY <1>2, <1>4, <2>1, <2>2
    <3>3. \A l \in 1 .. Slots : disk[n].ptr[l] # 0 => l = 1
      BY <1>3, <1>6, <3>2
    <3>4. Owns(disk, {n} \X (1 .. Slots), {next}, list)
      BY <1>4, <1>5, <3>2
    <3> QED BY <1>1, <2>1, <3>1, <3>3, <3>4, Replaced
  <2>3. CASE op # "point"
    <3>1. disk[next].type = "FREE"
      <4>1. CASE op = "grab"
        <5>1. next = disk[0].next /\ Shaped(disk) /\ Chain(disk, list)
          BY <1>2, <1>5, <4>1, Ends DEF FreePtr, Owns
        <5>2. list # <<>> /\ list[1] = next /\ 1 \in 1 .. Len(list)
          BY <2>1, <5>1, ListFacts
        <5> QED BY <5>1, <5>2, ListFacts
      <4>2. CASE op = "fill"
        BY <1>2, <4>2 DEF Places
      <4> QED BY <2>3, <4>1, <4>2
    <3>2. disk[n].ptr[1] # 0 /\ disk[disk[n].ptr[1]].type = "FREE"
      BY <2>1, <3>1
    <3> QED BY <1>5, <2>1, <3>2, NoneTorn
  <2> QED BY <2>2, <2>3
<1> QED BY <1>7, <1>8

LEMMA TornFile ==
  ASSUME LosesNone, disk \in Disks, Checked(disk), Leftovers,
         NEW list \in Lists, NEW stack \in Stacks, AtRemoveFile(list, stack)
  PROVE  Owns(disk, {}, {}, list) /\ DirNames(disk)
<1>1. PICK n \in Addr, p \in Addr, k \in 1 .. Slots :
        /\ Removes(n, p, k, stack)
        /\ \/ \E i \in 1 .. Slots + 1 :
                \/ FileBlocks(n, p, i, list, stack)
                \/ \E b \in Addr : FileBlockHead(n, p, i, b, list, stack)
           \/ FileBody(n, p, list, stack)
           \/ FileHead(n, p, k, list, stack)
           \/ FileGone(n, p, k, list, stack)
  BY DEF AtRemoveFile
<1>2. n # 0 /\ disk[p].ptr[k] = n
  BY <1>1 DEF Removes
<1>3. ASSUME NEW i \in 1 .. Slots + 1, FileBlocks(n, p, i, list, stack)
      PROVE  Owns(disk, {}, {}, list) /\ DirNames(disk)
  <2>1. PICK r : r = Release(disk[n].ptr, i)
    OBVIOUS
  <2>2. todo # <<>> /\ Head(todo) = r
    BY <1>3, <2>1, Tops DEF FileBlocks
  <2>3. r.op = "release" /\ r.ptr = disk[n].ptr /\ r.at = i
    BY <2>1 DEF Release
  <2>4. i > 1 => FreedFirst(disk[n].ptr)
    BY <2>2, <2>3 DEF Leftovers, LeftRelease, Doing, GaveUp
  <2>5. /\ Owns(disk, {n} \X (1 .. i - 1), {}, list) /\ DirNames(disk)
        /\ disk[n].kind = "file"
    BY <1>3 DEF FileBlocks, Sound
  <2> QED BY <1>2, <2>4, <2>5, TornRelease
<1>4. ASSUME NEW i \in 1 .. Slots + 1, NEW b \in Addr, FileBlockHead(n, p, i, b, list, stack)
      PROVE  Owns(disk, {}, {}, list) /\ DirNames(disk)
  <2>1. PICK r, h : r = Release(disk[n].ptr, i) /\ h = FreeHead(b)
    OBVIOUS
  <2>2. todo # <<>> /\ Head(todo) = h /\ Second = r
    <3>1. todo = <<h, r, FreeBody(n), Unlink(n, p)>> \o stack
      BY <1>4, <2>1 DEF FileBlockHead
    <3> QED BY <3>1, Tops DEF Second
  <2>3. r.op = "release" /\ r.ptr = disk[n].ptr /\ r.at = i /\ h.op = "freeHead" /\ h.blk = b
    BY <2>1 DEF Release, FreeHead
  <2>4. FreedFirst(disk[n].ptr)
    BY <2>2, <2>3 DEF Leftovers, LeftHead, Doing, GaveUp
  <2>5. /\ Owns(disk, {n} \X (1 .. i - 1), {b}, list) /\ DirNames(disk)
        /\ disk[n].kind = "file" /\ b # 0
    BY <1>4 DEF FileBlockHead, Sound, Freeing
  <2> QED BY <1>2, <2>4, <2>5, TornRelease
<1>5. ASSUME FileBody(n, p, list, stack)
      PROVE  Owns(disk, {}, {}, list) /\ DirNames(disk)
  <2>1. PICK r : r = FreeBody(n)
    OBVIOUS
  <2>2. todo # <<>> /\ Head(todo) = r
    BY <1>5, <2>1, Tops DEF FileBody
  <2>3. r.op = "freeBody" /\ r.blk = n
    BY <2>1 DEF FreeBody
  <2>4. /\ Owns(disk, {n} \X (1 .. Slots), {}, list) /\ DirNames(disk)
        /\ disk[n].kind = "file"
    BY <1>5 DEF FileBody, Sound
  <2>5. FreedFirst(disk[n].ptr)
    BY <2>2, <2>3, <2>4 DEF Leftovers, LeftBody, Doing
  <2>6. PICK i : i = Slots + 1
    OBVIOUS
  <2>7. i \in 1 .. Slots + 1 /\ i - 1 = Slots
    BY <2>6, Bounds
  <2>8. Owns(disk, {n} \X (1 .. i - 1), {}, list)
    BY <2>4, <2>7
  <2> QED BY <1>2, <2>4, <2>5, <2>7, <2>8, TornRelease
<1>6. ASSUME FileHead(n, p, k, list, stack)
      PROVE  FALSE
  <2>1. Owns(disk, {<<p, k>>}, {n}, list) /\ disk[n].type = "FREE"
    BY <1>6 DEF FileHead, Sound, Freeing
  <2> QED BY <1>2, <2>1, TornEntry
<1>7. ASSUME FileGone(n, p, k, list, stack)
      PROVE  FALSE
  <2>1. Owns(disk, {<<p, k>>}, {}, list) /\ disk[n].type = "FREE"
    BY <1>7 DEF FileGone, Sound
  <2> QED BY <1>2, <2>1, TornEntry
<1> QED BY <1>1, <1>3, <1>4, <1>5, <1>6, <1>7

LEMMA TornDir ==
  ASSUME LosesNone, disk \in Disks, Checked(disk),
         NEW list \in Lists, NEW stack \in Stacks, AtRemoveDir(list, stack)
  PROVE  Owns(disk, {}, {}, list) /\ DirNames(disk)
<1>1. PICK n \in Addr, p \in Addr, k \in 1 .. Slots :
        /\ Removes(n, p, k, stack)
        /\ DirBody(n, p, list, stack) \/ DirHead(n, p, k, list, stack)
             \/ DirGone(n, p, k, list, stack)
  BY DEF AtRemoveDir
<1>2. n # 0 /\ disk[p].ptr[k] = n
  BY <1>1 DEF Removes
<1>3. CASE DirBody(n, p, list, stack)
  BY <1>3 DEF DirBody, AtRest, Sound
<1>4. ASSUME DirHead(n, p, k, list, stack)
      PROVE  FALSE
  <2>1. Owns(disk, {<<p, k>>}, {n}, list) /\ disk[n].type = "FREE"
    BY <1>4 DEF DirHead, Sound, Freeing
  <2> QED BY <1>2, <2>1, TornEntry
<1>5. ASSUME DirGone(n, p, k, list, stack)
      PROVE  FALSE
  <2>1. Owns(disk, {<<p, k>>}, {}, list) /\ disk[n].type = "FREE"
    BY <1>5 DEF DirGone, Sound
  <2> QED BY <1>2, <2>1, TornEntry
<1> QED BY <1>1, <1>3, <1>4, <1>5

LEMMA TornCreate ==
  ASSUME LosesNone, disk \in Disks, Checked(disk),
         NEW list \in Lists, AtCreate(list)
  PROVE  Owns(disk, {}, {}, list) /\ DirNames(disk)
<1>1. PICK c \in NewSteps : Creates(c, list) \/ WritesInode(c, list) \/ Links(c, list)
  BY DEF AtCreate
<1>2. CASE Creates(c, list)
  BY <1>2 DEF Creates, AtRest, Sound
<1>3. CASE WritesInode(c, list) \/ Links(c, list)
  <2>1. c.op \in {"newInode", "link"} /\ c.blk # 0
    BY <1>3, Ends DEF WritesInode, Links
  <2>2. c.blk \in Addr
    BY <2>1 DEF NewSteps
  <2>3. Owns(disk, {}, {c.blk}, list) /\ DirNames(disk)
    BY <1>3 DEF WritesInode, Links, Sound
  <2>4. {c.blk} = {}
    BY <2>1, <2>2, <2>3, NotInHand
  <2> QED BY <2>4
<1> QED BY <1>1, <1>2, <1>3

LEMMA TornWrites ==
  ASSUME LosesNone, disk \in Disks, Checked(disk), Leftovers,
         NEW list \in Lists, AtWrite(list)
  PROVE  Owns(disk, {}, {}, list) /\ DirNames(disk)
<1>1. PICK g \in WriteSteps, n \in Addr :
        WritesTo(g, n) /\ (GivesBack(g, n, list) \/ Takes(g, n, list))
  BY DEF AtWrite
<1>2. n # 0 /\ disk[n].kind = "file"
  BY <1>1 DEF WritesTo
<1>3. ASSUME NEW i \in 1 .. Slots + 1,
             todo = <<Release(disk[n].ptr, i), g>>,
             Sound({n} \X (1 .. i - 1), {}, {}, list)
      PROVE  Owns(disk, {}, {}, list) /\ DirNames(disk)
  <2>1. PICK r : r = Release(disk[n].ptr, i)
    OBVIOUS
  <2>2. todo # <<>> /\ Head(todo) = r
    BY <1>3, <2>1
  <2>3. r.op = "release" /\ r.ptr = disk[n].ptr /\ r.at = i
    BY <2>1 DEF Release
  <2>4. i > 1 => FreedFirst(disk[n].ptr)
    BY <2>2, <2>3 DEF Leftovers, LeftRelease, Doing, GaveUp
  <2>5. Owns(disk, {n} \X (1 .. i - 1), {}, list) /\ DirNames(disk)
    BY <1>3 DEF Sound
  <2> QED BY <1>2, <2>4, <2>5, TornRelease
<1>4. ASSUME NEW i \in 1 .. Slots + 1, NEW b \in Addr, b # 0,
             todo = <<FreeHead(b), Release(disk[n].ptr, i), g>>,
             Sound({n} \X (1 .. i - 1), {b}, {}, list)
      PROVE  Owns(disk, {}, {}, list) /\ DirNames(disk)
  <2>1. PICK r, h : r = Release(disk[n].ptr, i) /\ h = FreeHead(b)
    OBVIOUS
  <2>2. todo # <<>> /\ Head(todo) = h /\ Second = r
    <3>1. todo = <<h, r, g>>
      BY <1>4, <2>1
    <3> QED BY <3>1 DEF Second
  <2>3. r.op = "release" /\ r.ptr = disk[n].ptr /\ r.at = i /\ h.op = "freeHead"
    BY <2>1 DEF Release, FreeHead
  <2>4. FreedFirst(disk[n].ptr)
    BY <2>2, <2>3 DEF Leftovers, LeftHead, Doing, GaveUp
  <2>5. Owns(disk, {n} \X (1 .. i - 1), {b}, list) /\ DirNames(disk)
    BY <1>4 DEF Sound
  <2> QED BY <1>2, <1>4, <2>4, <2>5, TornRelease
<1>5. ASSUME GivesBack(g, n, list)
      PROVE  Owns(disk, {}, {}, list) /\ DirNames(disk)
  BY <1>3, <1>4, <1>5 DEF GivesBack, GivesBlock, GivesHead, Freeing
<1>6. ASSUME Takes(g, n, list)
      PROVE  Owns(disk, {}, {}, list) /\ DirNames(disk)
  <2>1. PICK op : op = g.op
    OBVIOUS
  <2>2. /\ op \in {"grab", "fill", "point"} /\ todo = <<g>> /\ Took(g, n)
        /\ op = "grab" => Grabs(g, n, list)
        /\ op # "grab" => Places(g, n, list)
    BY <1>6, <2>1 DEF Takes, Grabs, Places
  <2>3. Doing(op)
    BY <2>1, <2>2 DEF Doing
  <2>4. DirNames(disk)
    BY <1>6 DEF Takes, Grabs, Places, Sound
  <2> QED BY <1>1, <2>1, <2>2, <2>3, <2>4, TornWrite
<1> QED BY <1>1, <1>5, <1>6

LEMMA Torn ==
  ASSUME LosesNone, TypeOK, Ownership, Leftovers, MountCheck(disk) = "ok"
  PROVE  \E list \in Lists : Owns(disk, {}, {}, list) /\ DirNames(disk)
<1>1. disk \in Disks /\ disk \in [Addr -> Block]
  BY DEF TypeOK, Disks, Sized
<1>2. Checked(disk)
  BY <1>1, Accepted
<1>3. ~ AtFormat
  <2> SUFFICES ASSUME NEW i \in 1 .. NumBlocks,
                      \A b \in Addr : disk[b] = IF b \in 1 .. i - 1 THEN FormatBlk(b) ELSE Blank
               PROVE  FALSE
    BY DEF AtFormat
  <2>1. disk[0] = Blank
    BY Ends
  <2> QED BY <1>2, <2>1 DEF Checked, Blank
<1>4. PICK list \in Lists, stack \in Stacks : At(list, stack)
  BY <1>3 DEF Ownership
<1>5. ASSUME AtRest(list) PROVE Owns(disk, {}, {}, list) /\ DirNames(disk)
  BY <1>5 DEF AtRest, Sound
<1>6. AtWalk(list, stack) \/ AtScan(list, stack) \/ AtRewrite(list, stack) => AtRest(list)
  BY DEF AtWalk, LooksUp, AtScan, Scans, AtRewrite
<1>7. Owns(disk, {}, {}, list) /\ DirNames(disk)
  BY <1>1, <1>2, <1>4, <1>5, <1>6, TornFile, TornDir, TornCreate, TornWrites DEF At
<1> QED BY <1>7

---------------------------------------------------------------------------
(* Every step leaves the disk so. *)

FileWork == {"release", "freeHead", "freeBody", "grab", "fill", "point"}

LEMMA Calm ==
  ASSUME todo' = <<>> \/ Head(todo').op \notin FileWork
  PROVE  Leftovers'
  BY DEF Leftovers, LeftRelease, LeftHead, LeftBody, LeftWrite, Doing, FileWork

LEMMA ToHead ==
  ASSUME Head(todo').op = "freeHead",
         Second'.op = "release" => Second'.at > 1 /\ GaveUp(Second, Third, Head(todo).blk)'
  PROVE  Leftovers'
  BY DEF Leftovers, LeftRelease, LeftHead, LeftBody, LeftWrite, Doing

LEMMA ToRelease ==
  ASSUME Head(todo').op = "release", GaveUp(Head(todo), Second, FreePtr)'
  PROVE  Leftovers'
  BY DEF Leftovers, LeftRelease, LeftHead, LeftBody, LeftWrite, Doing

LEMMA ToBody ==
  ASSUME NEW b, Head(todo') = FreeBody(b),
         disk'[b].kind = "file" => FreedFirst(disk[b].ptr)'
  PROVE  Leftovers'
  BY DEF Leftovers, LeftRelease, LeftHead, LeftBody, LeftWrite, Doing, FreeBody

LEMMA ToWrite ==
  ASSUME NEW g, g.op \in {"grab", "fill", "point"}, todo' = <<g>>,
         NEW n, n = fd_table'[g.fd],
         \A j \in 1 .. Slots : j > g.at /\ disk'[n].ptr[j] # 0 =>
           j = 1 /\ disk'[n].ptr[j] = IF g.op = "grab" THEN FreePtr' ELSE g.blk
  PROVE  Leftovers'
<1>1. Head(todo') = g
  OBVIOUS
<1>2. LeftWrite'
  BY <1>1 DEF LeftWrite, Doing
<1> QED BY <1>1, <1>2 DEF Leftovers, LeftRelease, LeftHead, LeftBody, Doing

LEMMA GoesOn ==
  ASSUME TypeOK, todo # <<>>, NEW a
  PROVE  /\ Resume(<<a>>) => Head(todo') = a
         /\ \A b : Resume(<<a, b>>) => Head(todo') = a
  <1>1. Tail(todo) \in Seq(Steps)
    BY HeadAndTail DEF TypeOK
  <1>2. Resume(<<a>>) => Head(todo') = a
    <2>1. Resume(<<a>>) => todo' = <<a>> \o Tail(todo)
      BY DEF Resume
    <2>2. Head(<<a>> \o Tail(todo)) = a
      BY <1>1, OnTop, Zenon
    <2> QED BY <2>1, <2>2, Zenon
  <1>3. ASSUME NEW b, Resume(<<a, b>>) PROVE Head(todo') = a
    <2>1. PICK t : t = <<b>> \o Tail(todo)
      OBVIOUS
    <2>2. PICK T : T = Steps \cup {b}
      OBVIOUS
    <2>3. t \in Seq(T)
      <3>1. <<b>> \in Seq(T) /\ Tail(todo) \in Seq(T)
        BY <1>1, <2>2
      <3> QED BY <2>1, <3>1, Concatenation
    <2>4. <<a, b>> \o Tail(todo) = <<a>> \o t
      BY <1>1, <2>1, TwoOnTop
    <2>5. todo' = <<a>> \o t
      BY <1>3, <2>4, Zenon DEF Resume
    <2> QED BY <2>3, <2>5, OnTop, Zenon
  <1> QED BY <1>2, <1>3

(* The steps to calls that write no block of a file.                       *)
LEMMA CalmWalk ==
  ASSUME TypeOK, WalkRefuses \/ WalkOn \/ OpenFound \/ DirFound \/ NotFound PROVE Leftovers'
<1>1. todo # <<>>
  BY DEF WalkRefuses, WalkOn, OpenFound, DirFound, NotFound, Readable, Doing
<1>2. CASE WalkRefuses \/ OpenFound
  <2>1. todo' = <<>>
    BY <1>2 DEF WalkRefuses, OpenFound, Fail, Finish, Die
  <2> QED BY <2>1, Calm
<1>3. CASE WalkOn
  <2>1. PICK a : a.op = "walk" /\ Resume(<<a>>)
    BY <1>3 DEF WalkOn, Walk
  <2> QED BY <1>1, <2>1, GoesOn, Calm DEF FileWork
<1>4. CASE NotFound
  <2>1. PICK a : a.op = "create" /\ Resume(<<a>>)
    BY <1>4 DEF NotFound, Create
  <2> QED BY <1>1, <2>1, GoesOn, Calm DEF FileWork
<1>5. CASE DirFound
  <2>1. PICK child \in Addr :
          /\ disk[child].kind # "file" /\ UNCHANGED disk
          /\ \/ todo' = <<>>
             \/ \E b : Resume(<<FreeBody(child), b>>)
             \/ \E a : a.op = "scan" /\ Resume(<<a>>)
    BY <1>5 DEF DirFound, Finish, Scan
  <2>2. CASE todo' = <<>>
    BY <2>2, Calm
  <2>3. ASSUME NEW b, Resume(<<FreeBody(child), b>>) PROVE Leftovers'
    <3>1. Head(todo') = FreeBody(child)
      BY <1>1, <2>3, GoesOn
    <3> QED BY <2>1, <3>1, ToBody
  <2>4. ASSUME NEW a, a.op = "scan", Resume(<<a>>) PROVE Leftovers'
    BY <1>1, <2>4, GoesOn, Calm DEF FileWork
  <2> QED BY <2>1, <2>2, <2>3, <2>4
<1> QED BY <1>2, <1>3, <1>4, <1>5

LEMMA CalmCreate ==
  ASSUME TypeOK, PopInode \/ WriteInode \/ LinkInode \/ RewriteDir \/ RecursionOverflows
  PROVE Leftovers'
<1>1. todo # <<>>
  BY DEF PopInode, WriteInode, LinkInode, RewriteDir, RecursionOverflows, Doing
<1>2. ASSUME NEW a, a.op \in {"newInode", "link", "scan"}, Resume(<<a>>) PROVE Leftovers'
  BY <1>1, <1>2, GoesOn, Calm DEF FileWork
<1>3. ASSUME todo' = <<>> PROVE Leftovers'
  BY <1>3, Calm, Zenon
<1>4. CASE PopInode
  <2>1. PICK c : c = Head(todo)
    OBVIOUS
  <2>2. \/ todo' = <<>>
        \/ \E code : Resume(<<NewInode(c.kind, c.name, c.dir, FreePtr, code)>>)
    BY <1>4, <2>1, Zenon DEF PopInode, Fail, Finish
  <2>3. ASSUME NEW code, Resume(<<NewInode(c.kind, c.name, c.dir, FreePtr, code)>>)
        PROVE  Leftovers'
    <3>1. PICK a : a = NewInode(c.kind, c.name, c.dir, FreePtr, code)
      OBVIOUS
    <3>2. a.op = "newInode" /\ Resume(<<a>>)
      BY <2>3, <3>1 DEF NewInode
    <3> QED BY <1>2, <3>2
  <2> QED BY <1>3, <2>2, <2>3
<1>5. CASE WriteInode
  <2>1. \E a : a.op = "link" /\ Resume(<<a>>)
    BY <1>5 DEF WriteInode, Link
  <2> QED BY <1>2, <2>1
<1>6. CASE RewriteDir
  <2>1. PICK s, copy : Resume(<<Scan(s.path, s.dir, copy, s.at + 1)>>)
    BY <1>6, Zenon DEF RewriteDir
  <2>2. PICK a : a = Scan(s.path, s.dir, copy, s.at + 1)
    OBVIOUS
  <2>3. a.op = "scan" /\ Resume(<<a>>)
    BY <2>1, <2>2 DEF Scan
  <2> QED BY <1>2, <2>3
<1>7. CASE LinkInode \/ RecursionOverflows
  BY <1>3, <1>7 DEF LinkInode, RecursionOverflows, Finish, Die
<1> QED BY <1>4, <1>5, <1>6, <1>7

LEMMA CalmStack ==
  ASSUME NEW stack \in Stacks, todo' = stack PROVE Leftovers'
<1>1. stack # <<>> => Head(stack).op = "rewrite"
  BY StackTop
<1> QED BY <1>1, Calm DEF FileWork

LEMMA CalmFormat ==
  ASSUME Ownership, TypeOK, Format PROVE Leftovers'
<1>1. PICK i \in 1 .. NumBlocks : todo = <<FormatAt(i)>>
  BY WhereFormat DEF Format, AtFormat
<1>2. PICK f : f = FormatAt(i)
  OBVIOUS
<1>3. todo = <<f>> \o <<>>
  BY <1>1, <1>2, Alone
<1>4. todo # <<>> /\ \A steps : Resume(steps) => todo' = steps \o <<>>
  BY <1>3, OnStack, NoneWaits
<1>5. Resume(<<>>) \/ \E a : a.op = "format" /\ Resume(<<a>>)
  BY DEF Format, FormatAt
<1>6. ASSUME NEW a, a.op = "format", Resume(<<a>>) PROVE Leftovers'
  BY <1>4, <1>6, GoesOn, Calm DEF FileWork
<1>7. ASSUME Resume(<<>>) PROVE Leftovers'
  <2>1. todo' = <<>>
    BY <1>4, <1>7, OnTop, NoneWaits
  <2> QED BY <2>1, Calm
<1> QED BY <1>5, <1>6, <1>7

(* The removal of a file starts: none of its blocks is freed. *)
LEMMA LeftStart ==
  ASSUME NEW ptr, NEW b, NEW u, NEW stack \in Stacks,
         todo' = <<Release(ptr, 1), FreeBody(b), u>> \o stack
  PROVE  Leftovers'
<1>1. PICK r, f : r = Release(ptr, 1) /\ f = FreeBody(b)
  OBVIOUS
<1>2. r.op = "release" /\ r.at = 1 /\ f.op = "freeBody"
  BY <1>1 DEF Release, FreeBody
<1>3. Head(todo') = r /\ Tail(todo') = <<f, u>> \o stack
  BY <1>1, Tops
<1>4. Second' = f
  BY <1>3, Tops DEF Second
<1>5. GaveUp(Head(todo), Second, FreePtr)'
  BY <1>2, <1>3, <1>4 DEF GaveUp
<1> QED BY <1>2, <1>3, <1>5, ToRelease

LEMMA LeftScanNext ==
  ASSUME Ownership, TypeOK, ScanNext PROVE Leftovers'
<1>0. PICK s : s = Head(todo)
  OBVIOUS
<1>1. Doing("scan") /\ UNCHANGED <<disk, process>>
  BY DEF ScanNext
<1>2. PICK list \in Lists, stack \in Stacks :
        Waiting(disk, stack, list) /\ s \in ScanSteps /\ Scans(s, list, stack)
  BY <1>0, <1>1, WhereScan
<1>3. /\ todo = <<s>> \o stack /\ AtRest(list) /\ s.copy = disk[s.dir]
      /\ Leads(disk, s.path, Len(s.path), s.dir)
  BY <1>2 DEF Scans
<1>4. todo # <<>> /\ \A steps : Resume(steps) => todo' = steps \o stack
  BY <1>3, OnStack
<1>5. ASSUME NEW call, NEW path, Resume(<<Walk(call, path, 1, SUPERBLOCK_DISKLOC)>>)
      PROVE  Leftovers'
  <2>1. PICK w : w = Walk(call, path, 1, SUPERBLOCK_DISKLOC)
    OBVIOUS
  <2>2. w.op = "walk" /\ Resume(<<w>>)
    BY <1>5, <2>1 DEF Walk
  <2> QED BY <1>4, <2>2, GoesOn, Calm DEF FileWork
<1>6. ASSUME Resume(<<>>) PROVE Leftovers'
  <2>1. todo' = stack
    BY <1>4, <1>6 DEF Stacks
  <2> QED BY <2>1, CalmStack
<1>7. ASSUME NEW i \in 1 .. Slots, First(Entries(s), i),
             NEW n, n = s.copy.ptr[i],
             NEW path, NEW r,
             CASE disk[n].kind = "file" -> Resume(RemoveInode(n, s.dir) \o <<r>>)
               [] disk[n].kind = "dir" ->
                    /\ Len(path) <= NumBlocks
                    /\ Resume(<<Walk("removeAll", path, 1, SUPERBLOCK_DISKLOC)>> \o <<r>>)
               [] OTHER -> Resume(<<r>>)
      PROVE  Leftovers'
  <2>1. n # 0
    BY <1>7 DEF First, Entries
  <2>2. s.dir \in Addr /\ IsDirOn(disk, s.dir) /\ disk[s.dir].ptr[i] = n
    BY <1>2, <1>3, <1>7, ScanIs, LeadsToDir
  <2>3. disk[n].kind \in {"file", "dir"}
    BY <1>3, <2>1, <2>2, EntryIs
  <2>4. CASE disk[n].kind = "file"
    <3>1. Resume(RemoveInode(n, s.dir) \o <<r>>)
      BY <1>7, <2>4
    <3>2. PICK f, b, u : f = Release(disk[n].ptr, 1) /\ b = FreeBody(n) /\ u = Unlink(n, s.dir)
      OBVIOUS
    <3>3. RemoveInode(n, s.dir) = <<f, b, u>>
      BY <3>2 DEF RemoveInode
    <3>4. <<f, b, u>> \o <<r>> = <<f, b, u, r>>
      <4>1. PICK S : S = {f, b, u, r}
        OBVIOUS
      <4>2. <<f, b, u>> \in Seq(S) /\ <<r>> \in Seq(S) /\ <<f, b, u, r>> \in Seq(S)
        BY <4>1
      <4>3. PICK x : x = <<f, b, u>> \o <<r>>
        OBVIOUS
      <4>4. x \in Seq(S) /\ Len(x) = 4 /\ x[1] = f /\ x[2] = b /\ x[3] = u /\ x[4] = r
        BY <4>2, <4>3
      <4>5. x = <<f, b, u, r>>
        BY <4>2, <4>4
      <4> QED BY <4>3, <4>5
    <3>5. todo' = <<f, b, u, r>> \o stack
      BY <1>4, <3>1, <3>3, <3>4
    <3>6. Head(todo') = f /\ Second' = b
      <4>1. Head(todo') = f /\ Tail(todo') = <<b, u, r>> \o stack
        BY <3>5, Tops
      <4> QED BY <4>1, Tops DEF Second
    <3>7. f.op = "release" /\ f.at = 1 /\ b.op = "freeBody"
      BY <3>2 DEF Release, FreeBody
    <3>8. GaveUp(Head(todo), Second, FreePtr)'
      BY <3>6, <3>7 DEF GaveUp
    <3> QED BY <3>6, <3>7, <3>8, ToRelease
  <2>5. CASE disk[n].kind = "dir"
    <3>1. PICK w : w = Walk("removeAll", path, 1, SUPERBLOCK_DISKLOC)
      OBVIOUS
    <3>2. w.op = "walk"
      BY <3>1 DEF Walk
    <3>3. Resume(<<w>> \o <<r>>)
      BY <1>7, <2>5, <3>1
    <3>4. <<w>> \o <<r>> = <<w, r>>
      <4>1. PICK S : S = {w, r}
        OBVIOUS
      <4>2. <<w>> \in Seq(S) /\ <<r>> \in Seq(S) /\ <<w, r>> \in Seq(S)
        BY <4>1
      <4>3. PICK x : x = <<w>> \o <<r>>
        OBVIOUS
      <4>4. x \in Seq(S) /\ Len(x) = 2 /\ x[1] = w /\ x[2] = r
        BY <4>2, <4>3
      <4>5. x = <<w, r>>
        BY <4>2, <4>4
      <4> QED BY <4>3, <4>5
    <3>5. Resume(<<w, r>>)
      BY <3>3, <3>4
    <3>6. Head(todo') = w
      BY <1>4, <3>5, GoesOn
    <3> QED BY <3>2, <3>6, Calm DEF FileWork
  <2> QED BY <2>3, <2>4, <2>5
<1>8. \/ IF s.dir = SUPERBLOCK_DISKLOC THEN Resume(<<>>)
         ELSE Resume(<<Walk("removeDir", s.path, 1, SUPERBLOCK_DISKLOC)>>)
      \/ \E i \in 1 .. Slots :
           /\ First(Entries(s), i)
           /\ CASE disk[s.copy.ptr[i]].kind = "file" ->
                     Resume(RemoveInode(s.copy.ptr[i], s.dir)
                              \o <<Rewrite(s.path, s.dir, s.copy, i)>>)
                [] disk[s.copy.ptr[i]].kind = "dir" ->
                     /\ Len(Append(s.path, disk[s.copy.ptr[i]].name)) <= NumBlocks
                     /\ Resume(<<Walk("removeAll",
                                     Append(s.path, disk[s.copy.ptr[i]].name), 1,
                                     SUPERBLOCK_DISKLOC)>>
                                 \o <<Rewrite(s.path, s.dir, s.copy, i)>>)
                [] OTHER -> Resume(<<Rewrite(s.path, s.dir, s.copy, i)>>)
  BY <1>0 DEF ScanNext
<1> QED BY <1>5, <1>6, <1>7, <1>8

LEMMA LeftUnlink ==
  ASSUME Ownership, TypeOK, UnlinkFile \/ UnlinkDirectory PROVE Leftovers'
<1>0. PICK stack \in Stacks : \E a : todo = <<a>> \o stack
  <2>1. CASE UnlinkFile
    <3>1. Doing("unlink")
      BY <2>1 DEF UnlinkFile
    <3>2. PICK list \in Lists, stack \in Stacks : AtRemoveFile(list, stack)
      BY <3>1, Where
    <3>3. PICK n, p, k : FileGone(n, p, k, list, stack)
      BY <3>1, <3>2, WhereFile
    <3> QED BY <3>3 DEF FileGone
  <2>2. CASE UnlinkDirectory
    <3>1. Doing("unlinkDir")
      BY <2>2 DEF UnlinkDirectory
    <3> QED BY <3>1, Where, WhereDir DEF DirGone
  <2> QED BY <2>1, <2>2
<1>1. PICK a : todo = <<a>> \o stack
  BY <1>0
<1>2. Resume(<<>>) \/ todo' = <<>>
  BY DEF UnlinkFile, UnlinkDirectory, Die
<1>3. Resume(<<>>) => todo' = stack
  <2>1. Resume(<<>>) => todo' = <<>> \o stack
    BY <1>1, OnStack
  <2> QED BY <2>1 DEF Stacks
<1>4. todo' = stack => Leftovers'
  BY CalmStack
<1>5. todo' = <<>> => Leftovers'
  BY Calm, Zenon
<1> QED BY <1>2, <1>3, <1>4, <1>5

LEMMA LeftFreeBlockBody ==
  ASSUME Ownership, TypeOK, FreeBlockBody PROVE Leftovers'
<1>1. Doing("freeBody")
  BY DEF FreeBlockBody
<1>2. PICK list \in Lists, stack \in Stacks :
        AtRemoveDir(list, stack) \/ AtRemoveFile(list, stack)
  BY <1>1, Where
<1>3. PICK n, a : todo = <<FreeBody(n), a>> \o stack /\ a.op \in {"unlink", "unlinkDir"}
  <2>1. CASE AtRemoveDir(list, stack)
    <3>1. PICK n, p : DirBody(n, p, list, stack)
      BY <1>1, <2>1, WhereDir
    <3>2. PICK a : a = UnlinkDir(n, p)
      OBVIOUS
    <3>3. todo = <<FreeBody(n), a>> \o stack
      BY <3>1, <3>2 DEF DirBody
    <3>4. a.op \in {"unlink", "unlinkDir"}
      BY <3>2 DEF UnlinkDir
    <3> QED BY <3>3, <3>4, Zenon
  <2>2. CASE AtRemoveFile(list, stack)
    <3>1. PICK n, p : FileBody(n, p, list, stack)
      BY <1>1, <2>2, WhereFile
    <3>2. PICK a : a = Unlink(n, p)
      OBVIOUS
    <3>3. todo = <<FreeBody(n), a>> \o stack
      BY <3>1, <3>2 DEF FileBody
    <3>4. a.op \in {"unlink", "unlinkDir"}
      BY <3>2 DEF Unlink
    <3> QED BY <3>3, <3>4, Zenon
  <2> QED BY <1>2, <2>1, <2>2
<1>4. Head(todo) = FreeBody(n) /\ Tail(todo) = <<a>> \o stack
  BY <1>3, Tops
<1>5. PICK h : h = FreeHead(n)
  OBVIOUS
<1>6. todo' = <<h>> \o Tail(todo)
  BY <1>4, <1>5, BodyFreed
<1>7. todo' = <<h, a>> \o stack
  <2>1. <<h, a>> \o stack = <<h>> \o (<<a>> \o stack)
    BY TwoOnTop DEF Stacks
  <2> QED BY <1>4, <1>6, <2>1
<1>8. Head(todo') = h /\ Tail(todo') = <<a>> \o stack
  BY <1>7, Tops
<1>9. Second' = a
  BY <1>8, Tops DEF Second
<1>10. Head(todo').op = "freeHead" /\ Second'.op # "release"
  BY <1>3, <1>5, <1>8, <1>9 DEF FreeHead
<1> QED BY <1>10, ToHead

(* The release of a file's blocks goes on, on a disk of the same tree.     *)
LEMMA LeftOnward ==
  ASSUME NEW r, r.op = "release", Head(todo') = r, NEW g, Second' = g,
         r.at > 1 => FreedFirst(r.ptr)',
         g.op = "grab" => /\ OnlyFirst(r.ptr)
                          /\ r.at > 1 => \A j \in 1 .. Slots : r.ptr[j] \in {0, FreePtr'}
  PROVE  Leftovers'
<1>1. GaveUp(Head(todo), Second, FreePtr)'
  BY DEF GaveUp, OnlyFirst
<1> QED BY <1>1, ToRelease

LEMMA FreedFirstStays ==
  ASSUME NEW ptr \in Ptrs, FreedFirst(ptr),
         \A c \in Addr : disk[c].type = "FREE" => disk'[c].type = "FREE"
  PROVE  FreedFirst(ptr)'
<1>1. \A j \in 1 .. Slots : ptr[j] \in Addr
  BY DEF Ptrs
<1> QED BY <1>1 DEF FreedFirst

LEMMA LeftAfterHead ==
  ASSUME TypeOK, TypeOK', FreeBlockHead, Leftovers, NEW b \in Addr, Head(todo) = FreeHead(b),
         Tail(todo) # <<>>, Second.op = "release"
  PROVE  Leftovers'
<1>1. PICK r, g : r = Second /\ g = Third
  OBVIOUS
<1>2. disk' = WithHead(disk, b) /\ todo' = Tail(todo)
  BY HeadFreed
<1>3. Head(todo') = r /\ Second' = g
  BY <1>1, <1>2 DEF Second, Third
<1>4. Head(todo).op = "freeHead" /\ Head(todo).blk = b
  BY DEF FreeHead
<1>5. Doing("freeHead")
  BY DEF FreeBlockHead
<1>6. r.at > 1 /\ GaveUp(r, g, b)
  BY <1>1, <1>4, <1>5 DEF Leftovers, LeftHead
<1>7. r \in Steps /\ r.op = "release"
  <2>1. todo' # <<>> /\ todo' \in Seq(Steps)
    BY <1>2 DEF TypeOK
  <2> QED BY <1>1, <1>3, <2>1, HeadAndTail
<1>8. r.ptr \in Ptrs
  BY <1>7, StepOf
<1>9. FreePtr' = b /\ \A c \in Addr : disk'[c].type = disk[c].type
  <2>1. disk \in [Addr -> Sized] /\ 0 \in Addr
    BY Ends DEF TypeOK
  <2> QED BY <1>2, <2>1, Ends DEF WithHead, FreePtr, Sized, Block
<1>10. FreedFirst(r.ptr)'
  <2>1. PICK p : p = r.ptr
    OBVIOUS
  <2>2. FreedFirst(p)
    BY <1>6, <2>1 DEF GaveUp
  <2>3. FreedFirst(p)'
    BY <1>8, <1>9, <2>1, <2>2, FreedFirstStays
  <2> QED BY <2>1, <2>3
<1>11. g.op = "grab" => /\ OnlyFirst(r.ptr)
                        /\ \A j \in 1 .. Slots : r.ptr[j] \in {0, FreePtr'}
  BY <1>6, <1>9 DEF GaveUp
<1> QED BY <1>3, <1>7, <1>10, <1>11, LeftOnward

LEMMA LeftFreeBlockHead ==
  ASSUME Ownership, TypeOK, TypeOK', Leftovers, FreeBlockHead PROVE Leftovers'
<1>1. Doing("freeHead")
  BY DEF FreeBlockHead
<1>2. PICK list \in Lists, stack \in Stacks :
        AtRemoveDir(list, stack) \/ AtRemoveFile(list, stack) \/ AtWrite(list)
  BY <1>1, Where
<1>3. ASSUME NEW b, NEW a, a.op \notin FileWork, todo = <<FreeHead(b), a>> \o stack
      PROVE  Leftovers'
  <2>1. Head(todo) = FreeHead(b) /\ Tail(todo) = <<a>> \o stack
    BY <1>3, Tops
  <2>2. todo' = Tail(todo)
    BY <2>1, HeadFreed
  <2>3. Head(todo') = a
    BY <2>1, <2>2, Tops
  <2> QED BY <1>3, <2>3, Calm
<1>4. CASE AtRemoveDir(list, stack)
  <2>1. PICK n, p, k : DirHead(n, p, k, list, stack)
    BY <1>1, <1>4, WhereDir
  <2>2. PICK a : a = UnlinkDir(n, p)
    OBVIOUS
  <2>3. todo = <<FreeHead(n), a>> \o stack
    BY <2>1, <2>2 DEF DirHead
  <2>4. a.op \notin FileWork
    BY <2>2 DEF UnlinkDir, FileWork
  <2> QED BY <1>3, <2>3, <2>4
<1>5. CASE AtRemoveFile(list, stack)
  <2>1. PICK n, p, k :
           \/ FileHead(n, p, k, list, stack)
           \/ \E i \in 1 .. Slots + 1, b \in Addr : FileBlockHead(n, p, i, b, list, stack)
    BY <1>1, <1>5, WhereFile
  <2>2. CASE FileHead(n, p, k, list, stack)
    <3>1. PICK a : a = Unlink(n, p)
      OBVIOUS
    <3>2. todo = <<FreeHead(n), a>> \o stack
      BY <2>2, <3>1 DEF FileHead
    <3>3. a.op \notin FileWork
      BY <3>1 DEF Unlink, FileWork
    <3> QED BY <1>3, <3>2, <3>3
  <2>3. ASSUME NEW i \in 1 .. Slots + 1, NEW b \in Addr, FileBlockHead(n, p, i, b, list, stack)
        PROVE  Leftovers'
    <3>1. PICK r : r = Release(disk[n].ptr, i)
      OBVIOUS
    <3>2. todo = <<FreeHead(b), r, FreeBody(n), Unlink(n, p)>> \o stack
      BY <2>3, <3>1 DEF FileBlockHead
    <3>3. Head(todo) = FreeHead(b) /\ Tail(todo) = <<r, FreeBody(n), Unlink(n, p)>> \o stack
      BY <3>2, Tops
    <3>4. Tail(todo) # <<>> /\ Second = r
      BY <3>3, Tops DEF Second
    <3>5. r.op = "release"
      BY <3>1 DEF Release
    <3> QED BY <3>3, <3>4, <3>5, LeftAfterHead
  <2> QED BY <2>1, <2>2, <2>3
<1>6. CASE AtWrite(list)
  <2>1. PICK g \in WriteSteps, n \in Addr :
          \E i \in 1 .. Slots + 1, held \in 0 .. Slots :
            /\ GaveBack(g, n, i, held)
            /\ \E b \in Addr : GivesHead(g, n, i, held, b, list)
    BY <1>1, <1>6, WhereWrite
  <2>6. PICK i \in 1 .. Slots + 1, held \in 0 .. Slots, b \in Addr :
          GivesHead(g, n, i, held, b, list)
    BY <2>1
  <2>2. PICK r : r = Release(disk[n].ptr, i)
    OBVIOUS
  <2>3. todo = <<FreeHead(b), r, g>>
    BY <2>6, <2>2 DEF GivesHead
  <2>4. Head(todo) = FreeHead(b) /\ Tail(todo) # <<>> /\ Second = r
    BY <2>3 DEF Second
  <2>5. r.op = "release"
    BY <2>2 DEF Release
  <2> QED BY <2>4, <2>5, LeftAfterHead
<1> QED BY <1>2, <1>4, <1>5, <1>6

(* One more block of a file is freed.                                      *)
LEMMA LeftBlock ==
  ASSUME TypeOK, Leftovers, ReleaseBlocks, NEW ptr \in Ptrs, NEW i \in 1 .. Slots + 1,
         Head(todo) = Release(ptr, i), ~ NoBlock(ptr, i)
  PROVE  Leftovers'
<1>1. PICK b, h, r, g : b = ptr[i] /\ h = FreeHead(b) /\ r = Release(ptr, i + 1) /\ g = Second
  OBVIOUS
<1>2. disk' = FreedOn(disk, b) /\ todo' = <<h, r>> \o Tail(todo)
  BY <1>1, ReleasesNext
<1>3. i \in 1 .. Slots /\ b # 0 /\ b \in Addr /\ i + 1 > 1
  BY <1>1, Bounds DEF NoBlock, Ptrs
<1>4. Doing("release") /\ todo # <<>> /\ Head(todo).op = "release"
      /\ Head(todo).ptr = ptr /\ Head(todo).at = i
  BY DEF ReleaseBlocks, Doing, Release
<1>5. /\ i > 1 => FreedFirst(ptr)
      /\ g.op = "grab" => OnlyFirst(ptr)
  BY <1>1, <1>4 DEF Leftovers, LeftRelease, GaveUp
<1>6. Head(todo') = h /\ Second' = r /\ Third' = g
  <2>1. Tail(todo) \in Seq(Steps)
    BY <1>4, HeadAndTail DEF TypeOK
  <2>2. PICK t : t = <<r>> \o Tail(todo)
    OBVIOUS
  <2>3. Head(t) = r /\ Tail(t) = Tail(todo)
    BY <2>1, <2>2, OnTop
  <2>4. t \in Seq(Steps \cup {r})
    <3>1. PICK T : T = Steps \cup {r}
      OBVIOUS
    <3>2. <<r>> \in Seq(T) /\ Tail(todo) \in Seq(T)
      BY <2>1, <3>1
    <3> QED BY <2>2, <3>1, <3>2, Concatenation
  <2>5. todo' = <<h>> \o t
    BY <1>2, <2>1, <2>2, TwoOnTop
  <2>6. Head(todo') = h /\ Tail(todo') = t
    BY <2>4, <2>5, OnTop
  <2> QED BY <1>1, <2>3, <2>6 DEF Second, Third
<1>7. h.op = "freeHead" /\ h.blk = b /\ r.op = "release" /\ r.at = i + 1 /\ r.ptr = ptr
  BY <1>1 DEF FreeHead, Release
<1>8. \A c \in Addr : disk'[c].type = IF c = b THEN "FREE" ELSE disk[c].type
  <2>1. disk \in [Addr -> Sized]
    BY DEF TypeOK
  <2> QED BY <1>2, <1>3, <2>1 DEF FreedOn, FreeBlk
<1>9. FreedFirst(ptr)'
  <2>1. CASE i > 1
    BY <1>5, <1>8, <2>1, FreedFirstStays
  <2>2. CASE i = 1
    BY <1>1, <1>3, <1>8, <2>2 DEF FreedFirst
  <2> QED BY <1>3, <2>1, <2>2
<1>10. g.op = "grab" => \A j \in 1 .. Slots : ptr[j] \in {0, b}
  BY <1>1, <1>3, <1>5 DEF OnlyFirst
<1>11. GaveUp(r, g, b)'
  BY <1>5, <1>7, <1>9, <1>10 DEF GaveUp, OnlyFirst
<1>12. GaveUp(Second, Third, Head(todo).blk)'
  BY <1>6, <1>7, <1>11
<1> QED BY <1>3, <1>6, <1>7, <1>12, ToHead

LEMMA LeftReleaseBlocks ==
  ASSUME Ownership, TypeOK, Leftovers, ReleaseBlocks PROVE Leftovers'
<1>1. Doing("release") /\ Head(todo).op = "release"
  BY DEF ReleaseBlocks, Doing
<1>2. PICK list \in Lists, stack \in Stacks :
        AtRemoveFile(list, stack) \/ AtWrite(list)
  BY <1>1, Where
<1>3. disk \in Disks
  BY DEF TypeOK, Disks
<1>4. CASE AtRemoveFile(list, stack)
  <2>1. PICK n \in Addr, p \in Addr : \E i \in 1 .. Slots + 1 : FileBlocks(n, p, i, list, stack)
    BY <1>1, <1>4, WhereFile
  <2>2. PICK i \in 1 .. Slots + 1 : FileBlocks(n, p, i, list, stack)
    BY <2>1
  <2>3. PICK ptr, r, b, u :
          ptr = disk[n].ptr /\ r = Release(ptr, i) /\ b = FreeBody(n) /\ u = Unlink(n, p)
    OBVIOUS
  <2>4. todo = <<r, b, u>> \o stack
    BY <2>2, <2>3 DEF FileBlocks
  <2>5. Head(todo) = r /\ Tail(todo) = <<b, u>> \o stack
    BY <2>4, Tops
  <2>6. r.at = i /\ r.ptr = ptr /\ ptr \in Ptrs
    BY <1>3, <2>3, DiskFields DEF Release
  <2>7. CASE ~ NoBlock(ptr, i)
    BY <2>3, <2>5, <2>6, <2>7, LeftBlock
  <2>8. CASE NoBlock(ptr, i)
    <3>1. disk' = disk /\ todo' = <<>> \o Tail(todo)
      BY <2>3, <2>5, <2>8, ReleasesNext
    <3>2. todo' = <<b, u>> \o stack
      BY <2>5, <3>1
    <3>3. Head(todo') = FreeBody(n)
      BY <2>3, <3>2, Tops
    <3>4. FreedFirst(ptr)
      <4>1. i > 1 => FreedFirst(ptr)
        BY <1>1, <2>5, <2>6 DEF Leftovers, LeftRelease, GaveUp
      <4>2. i = 1 => FreedFirst(ptr)
        BY <2>8 DEF NoBlock, FreedFirst
      <4> QED BY <4>1, <4>2, Bounds
    <3>5. FreedFirst(disk[n].ptr)'
      BY <2>3, <3>1, <3>4 DEF FreedFirst
    <3> QED BY <3>3, <3>5, ToBody
  <2> QED BY <2>7, <2>8
<1>5. CASE AtWrite(list)
  <2>1. PICK g \in WriteSteps, n \in Addr :
          /\ WritesTo(g, n)
          /\ \E i \in 1 .. Slots + 1, held \in 0 .. Slots :
               GaveBack(g, n, i, held) /\ GivesBlock(g, n, i, held, list)
    BY <1>1, <1>5, WhereWrite
  <2>2. PICK i \in 1 .. Slots + 1, held \in 0 .. Slots :
          GaveBack(g, n, i, held) /\ GivesBlock(g, n, i, held, list)
    BY <2>1
  <2>3. PICK ptr, r : ptr = disk[n].ptr /\ r = Release(ptr, i)
    OBVIOUS
  <2>4. todo = <<r, g>> /\ g.op = "grab" /\ g.at = 0 /\ fd_table[g.fd] = n
    BY <2>1, <2>2, <2>3 DEF GaveBack, GivesBlock, WritesTo
  <2>5. Head(todo) = r /\ Tail(todo) = <<g>> /\ Second = g
    BY <2>4 DEF Second
  <2>6. r.at = i /\ r.ptr = ptr /\ ptr \in Ptrs
    BY <1>3, <2>3, DiskFields DEF Release
  <2>7. CASE ~ NoBlock(ptr, i)
    BY <2>3, <2>5, <2>6, <2>7, LeftBlock
  <2>8. CASE NoBlock(ptr, i)
    <3>1. disk' = disk /\ todo' = <<>> \o Tail(todo) /\ fd_table' = fd_table
      BY <2>3, <2>5, <2>8, ReleasesNext
    <3>2. todo' = <<g>>
      BY <2>5, <3>1
    <3>3. /\ OnlyFirst(ptr)
          /\ i > 1 => \A j \in 1 .. Slots : ptr[j] \in {0, FreePtr}
      BY <1>1, <2>4, <2>5, <2>6 DEF Leftovers, LeftRelease, GaveUp
    <3>4. i = 1 \/ i > 1
      BY Bounds
    <3>5. FreePtr' = FreePtr
      BY <3>1 DEF FreePtr
    <3>6. \A j \in 1 .. Slots : ptr[j] # 0 => j = 1 /\ ptr[j] = FreePtr'
      BY <2>8, <3>3, <3>4, <3>5 DEF OnlyFirst, NoBlock
    <3>7. n = fd_table'[g.fd] /\ disk'[n].ptr = ptr
      BY <2>3, <2>4, <3>1
    <3> QED BY <2>4, <3>2, <3>6, <3>7, ToWrite
  <2> QED BY <2>7, <2>8
<1> QED BY <1>2, <1>4, <1>5

(* A block is taken, filled and pointed to. *)
LEMMA LeftTakes ==
  ASSUME Ownership, TypeOK, TypeOK', Leftovers, GrabBlock \/ FillBlock \/ PointToBlock
  PROVE  Leftovers'
<1>1. PICK op \in {"grab", "fill", "point"} :
        /\ Doing(op)
        /\ op = "grab" => GrabBlock
        /\ op = "fill" => FillBlock
        /\ op = "point" => PointToBlock
  BY DEF GrabBlock, FillBlock, PointToBlock
<1>2. PICK list \in Lists, g \in WriteSteps, n \in Addr :
        WritesTo(g, n) /\ Took(g, n) /\ todo = <<g>> /\ g.op = op
  BY <1>1, WritesAt
<1>3. /\ Head(todo) = g /\ fd_table[g.fd] = n /\ n # 0
      /\ \A steps : Resume(steps) => todo' = steps \o <<>>
      /\ g.fd \in FDs /\ g.inode \in Sized /\ g.at \in Nat
      /\ g.op \in {"fill", "point"} => g.blk \in Addr
      /\ g.at <= Slots
  BY <1>2, WriteFacts
<1>4. PICK ptr : ptr = disk[n].ptr
  OBVIOUS
<1>5. \A j \in 1 .. Slots : j > g.at /\ ptr[j] # 0 =>
        j = 1 /\ ptr[j] = IF op = "grab" THEN FreePtr ELSE g.blk
  BY <1>1, <1>3, <1>4 DEF Leftovers, LeftWrite
<1>6. fd_table' = fd_table /\ disk \in Disks /\ disk \in [Addr -> Sized] /\ ptr \in Ptrs
  <2>1. fd_table' = fd_table
    BY DEF GrabBlock, FillBlock, PointToBlock, process
  <2>2. disk \in Disks /\ disk \in [Addr -> Sized]
    BY DEF TypeOK, Disks
  <2> QED BY <1>4, <2>1, <2>2, DiskFields
<1>7. n = fd_table'[g.fd]
  BY <1>3, <1>6
<1>8. CASE op = "grab"
  <2>1. CASE ~ (g.at < BlocksFor(g.inode.size)) \/ FreePtr = 0
    <3>1. Finish(ERR_DISK_OUT_OF_SPACE) \/ Resume(<<>>)
      BY <1>1, <1>3, <1>8, <2>1 DEF GrabBlock
    <3>2. todo' = <<>>
      BY <1>3, <3>1, OnTop, NoneWaits DEF Finish
    <3> QED BY <3>2, Calm, Zenon
  <2>2. CASE g.at < BlocksFor(g.inode.size) /\ FreePtr # 0
    <3>1. PICK h : h = Fill(g.fd, g.tag, g.inode, g.at, FreePtr)
      OBVIOUS
    <3>2. disk' = Popped /\ Resume(<<h>>)
      BY <1>1, <1>3, <1>8, <2>2, <3>1 DEF GrabBlock
    <3>3. todo' = <<h>>
      BY <1>3, <3>2, Alone
    <3>4. h.op = "fill" /\ h.fd = g.fd /\ h.at = g.at /\ h.blk = FreePtr
      BY <3>1 DEF Fill
    <3>5. disk'[n].ptr = ptr
      BY <1>3, <1>4, <1>6, <3>2, Ends DEF Popped
    <3>6. n = fd_table'[h.fd]
      BY <1>7, <3>4
    <3>7. \A j \in 1 .. Slots : j > h.at /\ disk'[n].ptr[j] # 0 =>
            j = 1 /\ disk'[n].ptr[j] = IF h.op = "grab" THEN FreePtr' ELSE h.blk
      BY <1>5, <1>8, <3>4, <3>5
    <3> QED BY <3>3, <3>4, <3>6, <3>7, ToWrite
  <2> QED BY <2>1, <2>2
<1>9. CASE op = "fill"
  <2>1. PICK h : h = Point(g.fd, g.tag, g.inode, g.at, g.blk)
    OBVIOUS
  <2>2. disk' = [disk EXCEPT ![g.blk] = Filled(@, g.tag, g.at)] /\ Resume(<<h>>)
    BY <1>1, <1>3, <1>9, <2>1 DEF FillBlock
  <2>3. todo' = <<h>>
    BY <1>3, <2>2, Alone
  <2>4. h.op = "point" /\ h.fd = g.fd /\ h.at = g.at /\ h.blk = g.blk
    BY <2>1 DEF Point
  <2>5. disk'[n].ptr = ptr
    BY <1>3, <1>4, <1>6, <2>2 DEF Filled, Sized, Block
  <2>6. n = fd_table'[h.fd]
    BY <1>7, <2>4
  <2>7. \A j \in 1 .. Slots : j > h.at /\ disk'[n].ptr[j] # 0 =>
          j = 1 /\ disk'[n].ptr[j] = IF h.op = "grab" THEN FreePtr' ELSE h.blk
    BY <1>5, <1>9, <2>4, <2>5
  <2> QED BY <2>3, <2>4, <2>6, <2>7, ToWrite
<1>10. CASE op = "point"
  <2>1. PICK inode, h : /\ inode = [g.inode EXCEPT !.ptr[g.at + 1] = g.blk]
                        /\ h = Grab(g.fd, g.tag, inode, g.at + 1)
    OBVIOUS
  <2>2. disk' = [disk EXCEPT ![n] = inode] /\ Resume(<<h>>)
    BY <1>1, <1>3, <1>10, <2>1 DEF PointToBlock
  <2>3. todo' = <<h>>
    BY <1>3, <2>2, Alone
  <2>4. h.op = "grab" /\ h.fd = g.fd /\ h.at = g.at + 1
    BY <2>1 DEF Grab
  <2>5. \A j \in 1 .. Slots : j # g.at + 1 => disk'[n].ptr[j] = ptr[j]
    <3>1. g.inode.ptr = ptr
      BY <1>2, <1>4 DEF WritesTo
    <3>2. inode.ptr = [ptr EXCEPT ![g.at + 1] = g.blk]
      BY <1>3, <2>1, <3>1 DEF Sized, Block
    <3>3. disk'[n] = inode
      BY <1>6, <2>2
    <3> QED BY <1>6, <3>2, <3>3 DEF Ptrs
  <2>6. n = fd_table'[h.fd]
    BY <1>7, <2>4
  <2>7. \A j \in 1 .. Slots : ~ (j > h.at /\ disk'[n].ptr[j] # 0)
    <3>1. SUFFICES ASSUME NEW j \in 1 .. Slots, j > g.at + 1, disk'[n].ptr[j] # 0
                   PROVE  FALSE
      BY <2>4
    <3>2. disk'[n].ptr[j] = ptr[j] /\ j > g.at /\ j > 1
      BY <1>3, <2>5, <3>1, Bounds
    <3> QED BY <1>5, <3>1, <3>2
  <2> QED BY <2>3, <2>4, <2>6, <2>7, ToWrite
<1> QED BY <1>8, <1>9, <1>10

LEMMA LeftStep ==
  ASSUME Ownership, TypeOK, TypeOK', Leftovers, Step PROVE Leftovers'
  BY CalmFormat, CalmWalk, CalmCreate, LeftFreeBlockBody, LeftFreeBlockHead,
     LeftReleaseBlocks, LeftUnlink, LeftScanNext, LeftTakes DEF Step

(* A call starts with nothing left over. *)
LEMMA LeftNone ==
  /\ \A code : Refuse(code) \/ Return(code) => Leftovers'
  /\ Die => Leftovers'
<1>1. todo' = <<>> => Leftovers'
  BY Calm, Zenon
<1>2. \A code : Refuse(code) \/ Return(code) => todo' = <<>>
  BY DEF Refuse, Return, Idle
<1>3. Die => todo' = <<>>
  BY DEF Die
<1> QED BY <1>1, <1>2, <1>3

LEMMA LeftBegins ==
  ASSUME NEW a, a.op \notin FileWork, todo' = <<a>> PROVE Leftovers'
<1>1. Head(todo') = a
  OBVIOUS
<1> QED BY <1>1, Calm

LEMMA LeftFormats == ASSUME Formats PROVE Leftovers'
<1>1. PICK a : a = FormatAt(1)
  OBVIOUS
<1>2. todo' = <<a>>
  BY <1>1 DEF Formats, Mkfs, Begin
<1>3. a.op \notin FileWork
  BY <1>1 DEF FormatAt, FileWork
<1> QED BY <1>2, <1>3, LeftBegins

LEMMA LeftDeletes ==
  ASSUME NEW fd, DeleteFile(fd) PROVE Leftovers'
<1>1. CASE NotReady(fd) \/ Refuse(ERR_BAD_DISK)
  BY <1>1, LeftNone DEF NotReady
<1>2. ASSUME NEW p, Begin(RemoveInode(fd_table[fd], p)) PROVE Leftovers'
  <2>1. PICK n, r, b, u :
          n = fd_table[fd] /\ r = Release(disk[n].ptr, 1) /\ b = FreeBody(n) /\ u = Unlink(n, p)
    OBVIOUS
  <2>2. todo' = <<r, b, u>>
    BY <1>2, <2>1 DEF Begin, RemoveInode
  <2>3. <<r, b, u>> = <<r, b, u>> \o <<>>
    <3>1. PICK S : S = {r, b, u}
      OBVIOUS
    <3>2. <<r, b, u>> \in Seq(S)
      BY <3>1
    <3> QED BY <3>2, OnTop
  <2>4. todo' = <<r, b, u>> \o <<>>
    BY <2>2, <2>3
  <2> QED BY <2>1, <2>4, LeftStart, NoneWaits
<1> QED BY <1>1, <1>2 DEF DeleteFile

LEMMA LeftWrites ==
  ASSUME Ownership, TypeOK, "smallRewrites" \in Promises, NEW fd \in FDs, NEW tag,
         NEW size, WritesWell(fd, size), WriteFile(fd, tag, size)
  PROVE  Leftovers'
<1>1. CASE NotReady(fd)
  BY <1>1, LeftNone DEF NotReady
<1>2. ASSUME Ready(fd), NEW inode, inode = [disk[fd_table[fd]] EXCEPT !.size = size],
             Begin(<<Release(inode.ptr, 1), Grab(fd, tag, inode, 0)>>)
      PROVE  Leftovers'
  <2>1. PICK n, r, g : /\ n = fd_table[fd] /\ r = Release(inode.ptr, 1)
                       /\ g = Grab(fd, tag, inode, 0)
    OBVIOUS
  <2>2. Idle /\ n # 0 /\ todo' = <<r, g>>
    BY <1>2, <2>1 DEF Begin, Ready
  <2>3. n \in Addr /\ disk[n].kind = "file"
    BY <2>1, <2>2, OpenIsFile
  <2>4. PICK list \in Lists : AtRest(list)
    BY <2>2, WhereIdle
  <2>5. Owns(disk, {}, {}, list) /\ disk \in Disks /\ disk[n] \in Sized
    BY <2>3, <2>4 DEF AtRest, Sound, TypeOK, Disks
  <2>6. inode.ptr = disk[n].ptr
    BY <1>2, <2>1, <2>5 DEF Sized, Block
  <2>7. Gapless(disk[n].ptr) /\ disk[n].ptr \in Ptrs
    BY <2>2, <2>3, <2>5, DiskFields, Ends DEF Owns, Shaped
  <2>8. PICK held : held = UsedCount(disk[n].ptr)
    OBVIOUS
  <2>9. held \in 0 .. Slots /\ \A j \in 1 .. Slots : disk[n].ptr[j] # 0 <=> j <= held
    BY <2>7, <2>8, HeldSlots
  <2>10. held <= 1
    BY <2>1, <2>2, <2>8 DEF WritesWell, Keeps
  <2>11. OnlyFirst(inode.ptr)
    BY <2>6, <2>9, <2>10, Bounds DEF OnlyFirst
  <2>12. r.op = "release" /\ r.at = 1 /\ r.ptr = inode.ptr
    BY <2>1 DEF Release
  <2>13. Head(todo') = r /\ Second' = g
    BY <2>2 DEF Second
  <2>14. GaveUp(Head(todo), Second, FreePtr)'
    BY <2>11, <2>12, <2>13 DEF GaveUp, OnlyFirst
  <2> QED BY <2>12, <2>13, <2>14, ToRelease
<1> QED BY <1>1, <1>2 DEF WriteFile

LEMMA LeftNext ==
  ASSUME Ownership, Inv, TypeOK', Leftovers, "smallRewrites" \in Promises, ClientNext
  PROVE  Leftovers'
<1>0. TypeOK
  BY DEF Inv
<1>1. CASE Formats
  BY <1>1, LeftFormats
<1>2. CASE Mounts \/ Unmounts \/ Dies
  BY <1>2, LeftNone DEF Mounts, Unmounts, Mount, MountOverflows, Unmount, Dies, Crash
<1>3. CASE RemovesRoot
  <2>1. PICK a : a = Scan(<<>>, SUPERBLOCK_DISKLOC, disk[SUPERBLOCK_DISKLOC], 1)
    OBVIOUS
  <2>2. todo' = <<a>>
    BY <1>3, <2>1 DEF RemovesRoot, RemoveAllOfRoot, Begin
  <2>3. a.op \notin FileWork
    BY <2>1 DEF Scan, FileWork
  <2> QED BY <2>2, <2>3, LeftBegins
<1>4. CASE Continues
  BY <1>0, <1>4, LeftStep DEF Continues
<1>5. ASSUME NEW call, NEW path, PathCall(call, path) PROVE Leftovers'
  <2>1. PICK a : a = Walk(call, path, 1, SUPERBLOCK_DISKLOC)
    OBVIOUS
  <2>2. Refuse(ERR_NO_DISK_MOUNTED) \/ todo' = <<a>>
    BY <1>5, <2>1 DEF PathCall, Begin
  <2>3. a.op \notin FileWork
    BY <2>1 DEF Walk, FileWork
  <2>4. todo' = <<a>> => Leftovers'
    BY <2>3, LeftBegins
  <2> QED BY <2>2, <2>4, LeftNone
<1>6. ASSUME NEW path, Opens(path) \/ CreatesDir(path) \/ RemovesDir(path) \/ RemovesAll(path)
      PROVE  Leftovers'
  BY <1>5, <1>6 DEF Opens, CreatesDir, RemovesDir, RemovesAll,
     OpenFile, CreateDir, RemoveDir, RemoveAll
<1>7. ASSUME NEW fd, Closes(fd) \/ Deletes(fd) PROVE Leftovers'
  BY <1>7, LeftNone, LeftDeletes DEF Closes, CloseFile, Deletes
<1>8. ASSUME NEW fd, Reads(fd) PROVE Leftovers'
  <2>1. NotReady(fd) \/ Refuse(ERR_FILE_PNTR_OUT_OF_BOUNDS) \/ (Idle /\ UNCHANGED todo)
    BY <1>8 DEF Reads, ReadByte
  <2>2. Idle /\ UNCHANGED todo => todo' = <<>>
    BY DEF Idle
  <2>3. todo' = <<>> => Leftovers'
    BY Calm, Zenon
  <2> QED BY <2>1, <2>2, <2>3, LeftNone DEF NotReady
<1>9. ASSUME NEW fd, NEW offset, Seeks(fd, offset) PROVE Leftovers'
  BY <1>9, LeftNone DEF Seeks, Seek, NotReady
<1>10. ASSUME NEW fd, NEW name, Renames(fd, name) PROVE Leftovers'
  BY <1>10, LeftNone DEF Renames, Rename, NotReady
<1>11. ASSUME NEW fd \in FDs, NEW tag, NEW size, Writes(fd, tag, size) PROVE Leftovers'
  BY <1>0, <1>11, LeftWrites DEF Writes
<1> QED BY <1>1, <1>2, <1>3, <1>4, <1>6, <1>7, <1>8, <1>9, <1>10, <1>11 DEF ClientNext

---------------------------------------------------------------------------
(* The whole program, which may die. *)

LEMMA LeftInit == ASSUME ClientInit PROVE Leftovers
  BY DEF ClientInit, Init, Leftovers, LeftRelease, LeftHead, LeftBody, LeftWrite, Doing

LEMMA LeftStutter == ASSUME Leftovers, UNCHANGED vars PROVE Leftovers'
  BY DEF vars, Leftovers, LeftRelease, LeftHead, LeftBody, LeftWrite, Doing, GaveUp,
     FreedFirst, OnlyFirst, Second, Third, FreePtr

LEMMA OwnDies ==
  ASSUME LosesNone, TypeOK, Ownership, Leftovers, Dies PROVE Crashed'
<1>1. Die /\ disk' = disk
  BY DEF Dies, Crash, Die
<1>2. MountCheck(disk) = "ok" => \E list \in Lists : Owns(disk, {}, {}, list) /\ DirNames(disk)
  BY Torn
<1> QED BY <1>1, <1>2 DEF Crashed, Die, Idle

LEMMA CrashedStays ==
  ASSUME Crashed, disk' = disk, todo' = todo, ~ mounted', fd_table' = NoFds
  PROVE  Crashed'
  BY DEF Crashed, Idle

LEMMA CrashedRefuses == ASSUME Crashed, NEW code, Refuse(code) PROVE Crashed'
  BY CrashedStays DEF Refuse, Return, process, Crashed

LEMMA CrashedDies == ASSUME Crashed, Die PROVE Crashed'
  BY CrashedStays DEF Die, Crashed, Idle

LEMMA CrashedMounts ==
  ASSUME Crashed, Mount PROVE (Ownership /\ Leftovers)' \/ Crashed'
<1>1. Idle /\ disk' = disk /\ todo' = todo /\ fd_table = NoFds /\ ~ mounted
  BY DEF Mount, Return, Crashed
<1>2. mounted' = (MountCheck(disk) = "ok") /\ fd_table' = NoFds
  BY <1>1 DEF Mount
<1>3. CASE MountCheck(disk) = "ok"
  <2>1. PICK list \in Lists : Owns(disk, {}, {}, list) /\ DirNames(disk)
    BY <1>3 DEF Crashed
  <2>2. OnFiles(disk', fd_table', {})
    BY <1>2 DEF OnFiles, NoFds
  <2>3. Ownership'
    <3>1. todo' = <<>> /\ Owns(disk', {}, {}, list) /\ DirNames(disk')
      BY <1>1, <2>1 DEF Idle
    <3> QED BY <2>2, <3>1, ToRest
  <2>4. Leftovers'
    BY LeftNone DEF Mount
  <2> QED BY <2>3, <2>4
<1>4. CASE MountCheck(disk) # "ok"
  BY <1>1, <1>2, <1>4, CrashedStays
<1> QED BY <1>3, <1>4

LEMMA CrashedNext ==
  ASSUME Crashed, Inv, Mindful, ClientNext PROVE (Ownership /\ Leftovers)' \/ Crashed'
<1>0. Idle /\ ~ mounted /\ fd_table = NoFds /\ todo = <<>>
  BY DEF Crashed, Idle
<1>1. CASE Formats
  BY <1>1, OwnMkfs, LeftFormats
<1>2. CASE Mounts \/ Unmounts \/ Dies
  BY <1>0, <1>2, CrashedMounts, CrashedDies, CrashedRefuses
     DEF Mounts, MountOverflows, Unmounts, Unmount, Dies, Crash
<1>3. ~ RemovesRoot
  BY <1>0 DEF RemovesRoot, RemoveAllOfRoot
<1>4. ~ Continues
  BY <1>0 DEF Continues, Step, Format, WalkRefuses, WalkOn, OpenFound, DirFound, NotFound,
     Readable, PopInode, WriteInode, LinkInode, FreeBlockBody, FreeBlockHead, ReleaseBlocks,
     UnlinkFile, UnlinkDirectory, ScanNext, RecursionOverflows, RewriteDir, GrabBlock,
     FillBlock, PointToBlock, Doing
<1>5. ASSUME NEW call, NEW path, PathCall(call, path) PROVE Crashed'
  BY <1>0, <1>5, CrashedRefuses DEF PathCall
<1>6. ASSUME NEW path, Opens(path) \/ CreatesDir(path) \/ RemovesDir(path) \/ RemovesAll(path)
      PROVE  Crashed'
  BY <1>5, <1>6 DEF Opens, CreatesDir, RemovesDir, RemovesAll,
     OpenFile, CreateDir, RemoveDir, RemoveAll
<1>7. ASSUME NEW fd \in FDs, Closes(fd) PROVE Crashed'
  BY <1>0, <1>7, CrashedRefuses DEF Closes, CloseFile, NoFds
<1>8. ASSUME NEW fd, NotReady(fd) PROVE Crashed'
  BY <1>8, CrashedRefuses DEF NotReady
<1>9. \A fd : ~ Ready(fd)
  BY <1>0 DEF Ready
<1>10. ASSUME NEW fd, Deletes(fd) \/ Reads(fd) PROVE Crashed'
  BY <1>8, <1>9, <1>10 DEF Deletes, DeleteFile, Reads, ReadByte
<1>11. ASSUME NEW fd, NEW offset, Seeks(fd, offset) PROVE Crashed'
  BY <1>8, <1>9, <1>11 DEF Seeks, Seek
<1>12. ASSUME NEW fd, NEW name, Renames(fd, name) PROVE Crashed'
  BY <1>8, <1>9, <1>12 DEF Renames, Rename
<1>13. ASSUME NEW fd, NEW tag, NEW size, Writes(fd, tag, size) PROVE Crashed'
  BY <1>8, <1>9, <1>13 DEF Writes, WriteFile
<1> QED BY <1>1, <1>2, <1>3, <1>4, <1>6, <1>7, <1>10, <1>11, <1>12, <1>13 DEF ClientNext

LEMMA RecoversAlways ==
  ASSUME Mindful, LosesNone, "smallRewrites" \in Promises
  PROVE  ClientSpec => [](Inv /\ Recovers)
<1>1. ClientInit => Inv /\ Recovers
  BY OwnInit, LeftInit, InvInit DEF ClientInit, Recovers
<1>2. Inv /\ Recovers /\ [ClientNext]_cvars => (Inv /\ Recovers)'
  <2> SUFFICES ASSUME Inv, Recovers, [ClientNext]_cvars PROVE Inv' /\ Recovers'
    OBVIOUS
  <2>1. [Next]_vars
    BY ClientCalls DEF cvars
  <2>2. Inv' /\ TypeOK' /\ TypeOK
    BY <2>1, InvNext DEF Inv
  <2>3. CASE UNCHANGED cvars
    <3>1. UNCHANGED vars /\ UNCHANGED <<disk, mounted, fd_table, todo>>
      BY <2>3 DEF cvars, vars
    <3>2. Crashed => Crashed'
      BY <3>1, CrashedStays DEF Crashed
    <3>3. Ownership /\ Leftovers => Ownership' /\ Leftovers'
      BY <3>1, OwnStutter, LeftStutter
    <3> QED BY <2>2, <3>2, <3>3 DEF Recovers
  <2>4. CASE ClientNext
    <3>1. CASE Crashed
      BY <2>2, <2>4, <3>1, CrashedNext DEF Recovers
    <3>2. CASE Ownership /\ Leftovers /\ ~ Dies
      BY <2>2, <2>4, <3>2, OwnNext, LeftNext DEF Recovers
    <3>3. CASE Ownership /\ Leftovers /\ Dies
      BY <2>2, <3>3, OwnDies DEF Recovers
    <3> QED BY <3>1, <3>2, <3>3 DEF Recovers
  <2> QED BY <2>3, <2>4
<1> QED BY <1>1, <1>2, PTL DEF ClientSpec

(* A program that opens files only, rewrites files of one block at most    *)
(* and shrinks none, writes what there is room for, asks for no descriptor *)
(* when there is none, empties the root itself and formats no mounted disk *)
(* may die at any disk write and any number of times: what it left on the  *)
(* disk, tfs_mount refuses, or each block on it is once on the free list,  *)
(* or in one directory, or in one file, and stays so as the next process   *)
(* goes on.                                                                *)
THEOREM AcceptedDisksAreSound ==
  ASSUME Mindful, LosesNone, "smallRewrites" \in Promises
  PROVE  ClientSpec => []MountedIsSound
<1>1. Inv /\ Recovers => MountedIsSound
  BY WhereIdle, RestOwned, Ends DEF MountedIsSound, OneOwner, Recovers, Crashed
<1> QED BY <1>1, RecoversAlways, PTL

=============================================================================
