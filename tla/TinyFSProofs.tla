---------------------------- MODULE TinyFSProofs ----------------------------
(***************************************************************************)
(* What holds of TinyFS for every disk size, every table of descriptors    *)
(* and every program that calls it.                                        *)
(***************************************************************************)
EXTENDS TinyFS, TLAPS

LEMMA Bounds ==
  /\ NumBlocks \in Nat /\ NumBlocks >= 1
  /\ Slots \in Nat
  /\ FD_TABLESIZE \in Nat /\ FD_TABLESIZE >= 1
  /\ MAX_DATA_SPACE \in Nat /\ MAX_DATA_SPACE >= 1
  /\ Sizes \subseteq Nat /\ Offsets \subseteq Int
  /\ Paths \subseteq Seq(Names) \ {<<>>}
  BY LayoutAssumption, CallsAssumption

USE Bounds

---------------------------------------------------------------------------
(* Sequences: the work that is left after a step. *)

LEMMA HeadAndTail ==
  ASSUME NEW S, NEW s \in Seq(S), s # <<>>
  PROVE  Head(s) \in S /\ Tail(s) \in Seq(S)
  OBVIOUS

LEMMA Concatenation ==
  ASSUME NEW S, NEW s \in Seq(S), NEW t \in Seq(S)
  PROVE  s \o t \in Seq(S)
  OBVIOUS

LEMMA ResumeKeeps ==
  ASSUME NEW S, todo \in Seq(S), todo # <<>>, NEW steps \in Seq(S), Resume(steps)
  PROVE  todo' \in Seq(S)
  BY HeadAndTail, Concatenation DEF Resume

LEMMA Results ==
  /\ \A code \in Int : Returned(code) \in Result
  /\ 0 \in Addr /\ 0 \in FDs /\ NoFds \in [FDs -> Addr]
  /\ NoData \in Payload
  BY DEF Returned, Result, Byte, NoByte, NoData, Payload, Addr, FDs, NoFds

LEMMA ResumeReturns ==
  ASSUME ret \in Result, NEW steps, Resume(steps)
  PROVE  ret' \in Result
  BY Results DEF Resume, TFS_SUCCESS

---------------------------------------------------------------------------
(* Blocks. *)

LEMMA NewBlocks ==
  /\ Blank \in Sized
  /\ \A n \in Addr : FreeBlk(n) \in Sized /\ SuperBlk(n) \in Sized
  /\ \A kind \in {"file", "dir"}, name \in AnyName : Inode(kind, name) \in Sized
  /\ \A i \in 1 .. NumBlocks - 1 : FormatBlk(i) \in Sized
  /\ FormatSuper \in Sized
  /\ Formatted \in [Addr -> Sized]
<1>1. Blank \in Sized
  BY Results DEF Sized, Block, Blank, BlockTypes, Kinds, Addr
<1>2. \A n \in Addr : FreeBlk(n) \in Sized /\ SuperBlk(n) \in Sized
  BY <1>1 DEF Sized, Block, FreeBlk, SuperBlk, BlockTypes
<1>3. \A kind \in {"file", "dir"}, name \in AnyName : Inode(kind, name) \in Sized
  BY <1>1 DEF Sized, Block, Inode, BlockTypes, Kinds, AnyName
<1>4. \A i \in 1 .. NumBlocks - 1 : FormatBlk(i) \in Sized
  <2> SUFFICES ASSUME NEW i \in 1 .. NumBlocks - 1 PROVE FormatBlk(i) \in Sized
    OBVIOUS
  <2>1. (IF i + 1 # NumBlocks THEN i + 1 ELSE 0) \in Addr
    BY DEF Addr
  <2> QED BY <1>2, <2>1 DEF FormatBlk, NextFree
<1>5. FormatSuper \in Sized
  BY <1>2 DEF FormatSuper, FirstFree, Addr
<1>6. Formatted \in [Addr -> Sized]
  BY <1>4, <1>5 DEF Formatted, Addr, SUPERBLOCK_DISKLOC
<1> QED BY <1>1, <1>2, <1>3, <1>4, <1>5, <1>6

LEMMA ChangedBlocks ==
  ASSUME NEW blk \in Sized
  PROVE  /\ \A n \in Addr : [blk EXCEPT !.next = n] \in Sized
         /\ \A o \in Nat : [blk EXCEPT !.off = o] \in Sized
         /\ \A name \in Names : [blk EXCEPT !.name = name] \in Sized
         /\ \A size \in Sizes : [blk EXCEPT !.size = size] \in Sized
         /\ \A ptr \in Ptrs : [blk EXCEPT !.ptr = ptr] \in Sized
         /\ \A i \in Nat, n \in Addr : [blk EXCEPT !.ptr[i] = n] \in Sized
         /\ \A tag \in Tags, i \in Nat :
              [blk EXCEPT !.type = "FILEEX", !.next = 0,
                          !.data = [tag |-> tag, idx |-> i]] \in Sized
  BY Results DEF Sized, Block, Ptrs, Payload, BlockTypes

LEMMA Fields ==
  ASSUME NEW blk \in Sized
  PROVE  /\ blk.next \in Addr /\ blk.off \in Nat /\ blk.ptr \in Ptrs
         /\ blk.name \in AnyName /\ blk.kind \in Kinds /\ blk.data \in Payload
         /\ blk.size \in Sizes \cup {0} /\ blk.size \in Nat
         /\ \A i \in 1 .. Slots : blk.ptr[i] \in Addr
  BY DEF Sized, Block, AnyName, Ptrs

---------------------------------------------------------------------------
(* Steps. *)

LEMMA StepOf ==
  ASSUME NEW s \in Steps
  PROVE  /\ s.op = "format" => s \in [op : {"format"}, at : 1 .. NumBlocks]
         /\ s.op = "walk" => s \in WalkSteps
         /\ s.op \in {"scan", "rewrite"} => s \in ScanSteps
         /\ s.op = "grab" =>
              s \in [op : {"grab"}, fd : FDs, tag : Tags, inode : Sized, at : Nat]
         /\ s.op \in {"fill", "point"} =>
              s \in [op : {"fill", "point"}, fd : FDs, tag : Tags,
                     inode : Sized, at : Nat, blk : Addr]
         /\ s.op = "create" =>
              s \in [op : {"create"}, kind : {"file", "dir"}, name : AnyName,
                     dir : Addr]
         /\ s.op = "newInode" =>
              s \in [op : {"newInode"}, kind : {"file", "dir"}, name : AnyName,
                     dir : Addr, blk : Addr, code : Int]
         /\ s.op = "link" =>
              s \in [op : {"link"}, blk : Addr, dir : Addr, code : Int]
         /\ s.op = "release" => s \in [op : {"release"}, ptr : Ptrs, at : Nat]
         /\ s.op \in {"freeBody", "freeHead"} =>
              s \in [op : {"freeBody", "freeHead"}, blk : Addr]
         /\ s.op \in {"unlink", "unlinkDir"} =>
              s \in [op : {"unlink", "unlinkDir"}, blk : Addr, dir : Addr]
  BY DEF Steps, WalkSteps, ScanSteps, WriteSteps, NewSteps, FreeSteps

LEMMA NewWork ==
  /\ \A i \in 1 .. NumBlocks : FormatAt(i) \in Steps
  /\ \A call \in Lookups, path \in AnyPath, dir \in Addr :
       \A i \in 1 .. Len(path) : Walk(call, path, i, dir) \in Steps
  /\ \A ptr \in Ptrs, i \in Nat : Release(ptr, i) \in Steps
  /\ \A b \in Addr : FreeBody(b) \in Steps /\ FreeHead(b) \in Steps
  /\ \A b, dir \in Addr : Unlink(b, dir) \in Steps /\ UnlinkDir(b, dir) \in Steps
  /\ \A kind \in {"file", "dir"}, name \in AnyName, dir \in Addr :
       /\ Create(kind, name, dir) \in Steps
       /\ \A b \in Addr, code \in Int : NewInode(kind, name, dir, b, code) \in Steps
  /\ \A b, dir \in Addr, code \in Int : Link(b, dir, code) \in Steps
  /\ \A fd \in FDs, tag \in Tags, inode \in Sized, i \in Nat :
       /\ Grab(fd, tag, inode, i) \in Steps
       /\ \A b \in Addr : /\ Fill(fd, tag, inode, i, b) \in Steps
                          /\ Point(fd, tag, inode, i, b) \in Steps
  /\ \A path \in AnyPath, dir \in Addr, copy \in Sized, i \in Nat :
       dir = 0 \/ path # <<>> =>
         Scan(path, dir, copy, i) \in Steps /\ Rewrite(path, dir, copy, i) \in Steps
<1> USE DEF Steps
<1>1. \A i \in 1 .. NumBlocks : FormatAt(i) \in Steps
  BY DEF FormatAt
<1>2. \A call \in Lookups, path \in AnyPath, dir \in Addr :
        \A i \in 1 .. Len(path) : Walk(call, path, i, dir) \in Steps
  BY DEF Walk, WalkSteps, AnyPath
<1>3. \A ptr \in Ptrs, i \in Nat : Release(ptr, i) \in Steps
  BY DEF Release, FreeSteps
<1>4. \A b \in Addr : FreeBody(b) \in Steps /\ FreeHead(b) \in Steps
  BY DEF FreeBody, FreeHead, FreeSteps
<1>5. \A b, dir \in Addr : Unlink(b, dir) \in Steps /\ UnlinkDir(b, dir) \in Steps
  BY DEF Unlink, UnlinkDir, FreeSteps
<1>6. \A kind \in {"file", "dir"}, name \in AnyName, dir \in Addr :
        /\ Create(kind, name, dir) \in Steps
        /\ \A b \in Addr, code \in Int : NewInode(kind, name, dir, b, code) \in Steps
  BY DEF Create, NewInode, NewSteps
<1>7. \A b, dir \in Addr, code \in Int : Link(b, dir, code) \in Steps
  BY DEF Link, NewSteps
<1>8. \A fd \in FDs, tag \in Tags, inode \in Sized, i \in Nat :
        /\ Grab(fd, tag, inode, i) \in Steps
        /\ \A b \in Addr : /\ Fill(fd, tag, inode, i, b) \in Steps
                           /\ Point(fd, tag, inode, i, b) \in Steps
  BY DEF Grab, Fill, Point, WriteSteps
<1>9. \A path \in AnyPath, dir \in Addr, copy \in Sized, i \in Nat :
        dir = 0 \/ path # <<>> =>
          Scan(path, dir, copy, i) \in Steps /\ Rewrite(path, dir, copy, i) \in Steps
  BY DEF Scan, Rewrite, ScanSteps, SUPERBLOCK_DISKLOC
<1> QED BY <1>1, <1>2, <1>3, <1>4, <1>5, <1>6, <1>7, <1>8, <1>9

---------------------------------------------------------------------------
(* Type correctness, action by action. *)

LEMMA Returning ==
  ASSUME todo \in Seq(Steps), NEW code \in Int, Return(code)
  PROVE  todo' \in Seq(Steps) /\ ret' \in Result
  BY Results DEF Return

LEMMA Finishing ==
  ASSUME NEW code \in Int, Finish(code)
  PROVE  todo' \in Seq(Steps) /\ ret' \in Result
  BY Results DEF Finish

LEMMA Beginning ==
  ASSUME NEW steps \in Seq(Steps), Begin(steps)
  PROVE  todo' \in Seq(Steps) /\ ret' \in Result
  BY Results DEF Begin, PENDING

LEMMA NoSteps == <<>> \in Seq(Steps)
  OBVIOUS

LEMMA Resuming ==
  ASSUME TypeOK, todo # <<>>, NEW steps \in Seq(Steps), Resume(steps)
  PROVE  todo' \in Seq(Steps) /\ ret' \in Result
  BY ResumeKeeps, ResumeReturns DEF TypeOK

LEMMA Refusing ==
  ASSUME TypeOK, NEW code \in Int, Refuse(code) \/ Fail(code)
  PROVE  TypeOK'
  BY Returning, Finishing DEF TypeOK, Refuse, Fail, process

LEMMA Dying == ASSUME TypeOK, Die PROVE TypeOK'
  BY Results DEF TypeOK, Die, PENDING

LEMMA Doings ==
  ASSUME TypeOK, NEW op, Doing(op)
  PROVE  todo # <<>> /\ Head(todo) \in Steps /\ Head(todo).op = op
  BY HeadAndTail DEF TypeOK, Doing

(* The error codes are integers. *)
LEMMA Codes ==
  {TFS_SUCCESS, ERR_INVALID_INPUT, ERR_BAD_DISK, ERR_NO_DISK_MOUNTED,
   ERR_DISK_OUT_OF_SPACE, ERR_INVALID_FD, ERR_OUT_OF_FDS,
   ERR_FILE_PNTR_OUT_OF_BOUNDS, ERR_DIR_NOT_FOUND, ERR_NOT_A_DIR,
   ERR_DIR_ALREADY_EXISTS, ERR_DIR_NOT_EMPTY, PENDING} \subseteq Int
  BY DEF TFS_SUCCESS, ERR_INVALID_INPUT, ERR_BAD_DISK, ERR_NO_DISK_MOUNTED,
         ERR_DISK_OUT_OF_SPACE, ERR_INVALID_FD, ERR_OUT_OF_FDS,
         ERR_FILE_PNTR_OUT_OF_BOUNDS, ERR_DIR_NOT_FOUND, ERR_NOT_A_DIR,
         ERR_DIR_ALREADY_EXISTS, ERR_DIR_NOT_EMPTY, PENDING

LEMMA TypeInit == Init => TypeOK
<1> SUFFICES ASSUME Init PROVE TypeOK
  OBVIOUS
<1>1. disk \in [Addr -> Sized]
  BY NewBlocks DEF Init
<1>2. todo \in Seq(Steps) /\ ret \in Result
  BY Results, Codes DEF Init
<1> QED BY <1>1, <1>2, Results DEF Init, TypeOK

LEMMA TypeMkfs == ASSUME TypeOK, Mkfs PROVE TypeOK'
<1>1. <<FormatAt(1)>> \in Seq(Steps)
  BY NewWork
<1>2. todo' \in Seq(Steps) /\ ret' \in Result
  BY <1>1, Beginning DEF Mkfs
<1> QED BY <1>2, NewBlocks DEF Mkfs, TypeOK, process

LEMMA TypeFormat == ASSUME TypeOK, Format PROVE TypeOK'
<1> DEFINE i == Head(todo).at
<1>1. todo # <<>> /\ i \in 1 .. NumBlocks
  BY Doings, StepOf DEF Format
<1>2. CASE i < NumBlocks /\ disk' = [disk EXCEPT ![i] = FormatBlk(i)]
           /\ Resume(<<FormatAt(i + 1)>>)
  <2>1. <<FormatAt(i + 1)>> \in Seq(Steps)
    BY <1>1, <1>2, NewWork
  <2>2. todo' \in Seq(Steps) /\ ret' \in Result
    BY <1>1, <1>2, <2>1, Resuming
  <2>3. i \in 1 .. NumBlocks - 1
    BY <1>1, <1>2
  <2>4. FormatBlk(i) \in Sized
    BY <2>3, NewBlocks
  <2>5. disk' \in [Addr -> Sized]
    BY <1>2, <2>4 DEF TypeOK
  <2> QED BY <2>2, <2>5 DEF Format, TypeOK, process
<1>3. CASE disk' = [disk EXCEPT ![SUPERBLOCK_DISKLOC] = FormatSuper]
           /\ Resume(<<>>)
  <2>2. todo' \in Seq(Steps) /\ ret' \in Result
    BY <1>1, <1>3, NoSteps, Resuming
  <2>3. disk' \in [Addr -> Sized]
    BY <1>3, NewBlocks DEF TypeOK
  <2> QED BY <2>2, <2>3 DEF Format, TypeOK, process
<1> QED BY <1>2, <1>3 DEF Format

LEMMA TypeMount ==
  ASSUME TypeOK, Mount \/ MountOverflows \/ Unmount PROVE TypeOK'
<1>1. CASE Mount
  <2>1. (IF MountCheck(disk) = "ok" THEN TFS_SUCCESS ELSE ERR_BAD_DISK) \in Int
    BY Codes
  <2>2. todo' \in Seq(Steps) /\ ret' \in Result
    BY <1>1, <2>1, Returning DEF Mount, TypeOK
  <2> QED BY <1>1, <2>2, Results DEF Mount, TypeOK
<1>2. CASE MountOverflows
  BY <1>2, Dying DEF MountOverflows
<1>3. CASE Unmount
  <2>1. CASE Refuse(ERR_NO_DISK_MOUNTED)
    BY <2>1, Refusing, Codes
  <2>2. CASE Return(TFS_SUCCESS) /\ mounted' = FALSE /\ fd_table' = NoFds
             /\ UNCHANGED <<disk, fd_table_index>>
    <3>1. todo' \in Seq(Steps) /\ ret' \in Result
      BY <2>2, Returning, Codes DEF TypeOK
    <3> QED BY <2>2, <3>1, Results DEF TypeOK
  <2> QED BY <1>3, <2>1, <2>2 DEF Unmount
<1> QED BY <1>1, <1>2, <1>3

LEMMA TypePathCall ==
  ASSUME TypeOK, NEW call \in Lookups, NEW path \in Paths, PathCall(call, path)
  PROVE  TypeOK'
<1>1. CASE Refuse(ERR_NO_DISK_MOUNTED)
  BY <1>1, Refusing, Codes
<1>2. CASE Begin(<<Walk(call, path, 1, SUPERBLOCK_DISKLOC)>>)
           /\ UNCHANGED <<disk, process>>
  <2>1. path \in AnyPath /\ 1 \in 1 .. Len(path)
    BY DEF AnyPath, AnyName
  <2>2. Walk(call, path, 1, SUPERBLOCK_DISKLOC) \in Steps
    BY <2>1, NewWork, Results DEF SUPERBLOCK_DISKLOC
  <2>3. <<Walk(call, path, 1, SUPERBLOCK_DISKLOC)>> \in Seq(Steps)
    BY <2>2
  <2>4. todo' \in Seq(Steps) /\ ret' \in Result
    BY <1>2, <2>3, Beginning
  <2> QED BY <1>2, <2>4 DEF TypeOK, process
<1> QED BY <1>1, <1>2 DEF PathCall

LEMMA TypeRemoveAllOfRoot == ASSUME TypeOK, RemoveAllOfRoot PROVE TypeOK'
<1>1. <<Scan(<<>>, SUPERBLOCK_DISKLOC, disk[SUPERBLOCK_DISKLOC], 1)>> \in Seq(Steps)
  <2>1. <<>> \in AnyPath
    BY DEF AnyPath
  <2> QED BY <2>1, NewWork, Results DEF SUPERBLOCK_DISKLOC, TypeOK
<1>2. todo' \in Seq(Steps) /\ ret' \in Result
  BY <1>1, Beginning DEF RemoveAllOfRoot
<1> QED BY <1>2 DEF RemoveAllOfRoot, TypeOK, process

(* A handler that touches neither the disk nor the process keeps the types *)
(* when what it leaves to do is work.                                      *)
LEMMA QuietResume ==
  ASSUME TypeOK, todo # <<>>, NEW steps \in Seq(Steps), Resume(steps),
         UNCHANGED <<disk, process>>
  PROVE  TypeOK'
  BY Resuming DEF TypeOK, process

LEMMA WalkFacts ==
  ASSUME TypeOK, Doing("walk")
  PROVE  LET w == Head(todo) IN
         /\ todo # <<>> /\ w.call \in Lookups /\ w.path \in AnyPath /\ w.dir \in Addr
         /\ w.at \in 1 .. Len(w.path) /\ Name(w) \in AnyName /\ w.path # <<>>
<1> DEFINE w == Head(todo)
<1>1. todo # <<>> /\ w \in WalkSteps
  BY Doings, StepOf
<1>2. w.path \in AnyPath /\ w.at \in 1 .. Len(w.path) /\ w.call \in Lookups
      /\ w.dir \in Addr
  BY <1>1 DEF WalkSteps
<1> HIDE DEF w
<1>3. w.path[w.at] \in AnyName /\ w.path # <<>>
  BY <1>2 DEF AnyPath
<1> QED BY <1>1, <1>2, <1>3 DEF w, Name

LEMMA TypeWalkRefuses == ASSUME TypeOK, WalkRefuses PROVE TypeOK'
<1>1. Fail(ERR_INVALID_INPUT) \/ Fail(ERR_DIR_NOT_FOUND) \/ Fail(ERR_NOT_A_DIR)
  BY DEF WalkRefuses
<1> QED BY <1>1, Refusing, Codes

LEMMA TypeWalkOn == ASSUME TypeOK, WalkOn PROVE TypeOK'
<1> DEFINE w == Head(todo)
<1>1. Doing("walk") /\ ~ Last(w) /\ UNCHANGED <<disk, process>>
  BY DEF WalkOn, Readable
<1>2. PICK child \in Addr : Resume(<<Walk(w.call, w.path, w.at + 1, child)>>)
  BY DEF WalkOn
<1>3. /\ todo # <<>> /\ w.call \in Lookups /\ w.path \in AnyPath
      /\ w.at \in 1 .. Len(w.path)
  BY <1>1, WalkFacts
<1> HIDE DEF w
<1>4. w.at + 1 \in 1 .. Len(w.path)
  BY <1>1, <1>3 DEF Last, AnyPath
<1>5. Walk(w.call, w.path, w.at + 1, child) \in Steps
  BY <1>3, <1>4, NewWork
<1>6. <<Walk(w.call, w.path, w.at + 1, child)>> \in Seq(Steps)
  BY <1>5
<1> QED BY <1>1, <1>2, <1>3, <1>6, QuietResume

LEMMA TypeOpenFound == ASSUME TypeOK, OpenFound PROVE TypeOK'
<1>1. PICK child \in Addr :
        \/ \E fd \in FDs :
             /\ fd_table_index' = fd
             /\ fd_table' = [fd_table EXCEPT ![fd] = child]
             /\ Finish(fd)
             /\ UNCHANGED <<disk, mounted>>
        \/ Fail(ERR_OUT_OF_FDS)
        \/ Die
  BY DEF OpenFound
<1>2. CASE Fail(ERR_OUT_OF_FDS)
  BY <1>2, Finishing, Codes DEF TypeOK, Fail, process
<1>3. CASE Die
  BY <1>3, Dying
<1>4. CASE \E fd \in FDs :
             /\ fd_table_index' = fd
             /\ fd_table' = [fd_table EXCEPT ![fd] = child]
             /\ Finish(fd)
             /\ UNCHANGED <<disk, mounted>>
  <2>1. PICK fd \in FDs :
          /\ fd_table_index' = fd
          /\ fd_table' = [fd_table EXCEPT ![fd] = child]
          /\ Finish(fd)
          /\ UNCHANGED <<disk, mounted>>
    BY <1>4
  <2>2. fd \in Int
    BY DEF FDs
  <2>3. todo' \in Seq(Steps) /\ ret' \in Result
    BY <2>1, <2>2, Finishing
  <2> QED BY <2>1, <2>3 DEF TypeOK
<1> QED BY <1>1, <1>2, <1>3, <1>4

LEMMA TypeDirFound == ASSUME TypeOK, DirFound PROVE TypeOK'
<1> DEFINE w == Head(todo)
<1>1. Doing("walk") /\ UNCHANGED <<disk, process>>
  BY DEF DirFound, Readable
<1>2. PICK child \in Addr :
        \/ Finish(ERR_DIR_ALREADY_EXISTS) \/ Finish(ERR_DIR_NOT_EMPTY)
        \/ Resume(<<FreeBody(child), UnlinkDir(child, w.dir)>>)
        \/ Resume(<<Scan(w.path, child, disk[child], 1)>>)
  BY DEF DirFound
<1>3. /\ todo # <<>> /\ w.path \in AnyPath /\ w.path # <<>> /\ w.dir \in Addr
  BY <1>1, WalkFacts
<1> HIDE DEF w
<1>4. CASE Finish(ERR_DIR_ALREADY_EXISTS) \/ Finish(ERR_DIR_NOT_EMPTY)
  BY <1>1, <1>4, Finishing, Codes DEF TypeOK, process
<1>5. CASE Resume(<<FreeBody(child), UnlinkDir(child, w.dir)>>)
  <2>1. FreeBody(child) \in Steps /\ UnlinkDir(child, w.dir) \in Steps
    BY <1>3, NewWork
  <2>2. <<FreeBody(child), UnlinkDir(child, w.dir)>> \in Seq(Steps)
    BY <2>1
  <2> QED BY <1>1, <1>3, <1>5, <2>2, QuietResume
<1>6. CASE Resume(<<Scan(w.path, child, disk[child], 1)>>)
  <2>1. disk[child] \in Sized
    BY DEF TypeOK
  <2>2. Scan(w.path, child, disk[child], 1) \in Steps
    BY <1>3, <2>1, NewWork
  <2>3. <<Scan(w.path, child, disk[child], 1)>> \in Seq(Steps)
    BY <2>2
  <2> QED BY <1>1, <1>3, <1>6, <2>3, QuietResume
<1> QED BY <1>2, <1>4, <1>5, <1>6

LEMMA TypeNotFound == ASSUME TypeOK, NotFound PROVE TypeOK'
<1> DEFINE w == Head(todo)
<1>1. Doing("walk") /\ UNCHANGED <<disk, process>>
  BY DEF NotFound, Readable
<1>2. PICK kind \in {"file", "dir"} : Resume(<<Create(kind, Name(w), w.dir)>>)
  BY DEF NotFound
<1>3. todo # <<>> /\ Name(w) \in AnyName /\ w.dir \in Addr
  BY <1>1, WalkFacts
<1>4. Create(kind, Name(w), w.dir) \in Steps
  BY <1>3, NewWork
<1>5. <<Create(kind, Name(w), w.dir)>> \in Seq(Steps)
  BY <1>4
<1> QED BY <1>1, <1>2, <1>3, <1>5, QuietResume

LEMMA PoppedBlocks ==
  ASSUME TypeOK
  PROVE  FreePtr \in Addr /\ Popped \in [Addr -> Sized]
<1>1. FreePtr \in Addr
  BY Results, Fields DEF TypeOK, FreePtr, SUPERBLOCK_DISKLOC
<1>2. [disk[SUPERBLOCK_DISKLOC] EXCEPT !.next = disk[FreePtr].next] \in Sized
  <2>1. disk[SUPERBLOCK_DISKLOC] \in Sized /\ disk[FreePtr].next \in Addr
    BY <1>1, Results, Fields DEF TypeOK, SUPERBLOCK_DISKLOC
  <2> QED BY <2>1, ChangedBlocks
<1>3. Popped \in [Addr -> Sized]
  BY <1>2 DEF Popped, TypeOK
<1> QED BY <1>1, <1>3

LEMMA TypePopInode == ASSUME TypeOK, PopInode PROVE TypeOK'
<1> DEFINE c == Head(todo)
<1> DEFINE new(code) == <<NewInode(c.kind, c.name, c.dir, FreePtr, code)>>
<1>1. CASE Fail(ERR_DISK_OUT_OF_SPACE)
  BY <1>1, Refusing, Codes
<1>2. CASE disk' = Popped
           /\ \/ Resume(new(TFS_SUCCESS)) /\ UNCHANGED process
              \/ Finish(ERR_OUT_OF_FDS) /\ UNCHANGED process
              \/ /\ \E fd \in FDs :
                      /\ fd_table_index' = fd
                      /\ fd_table' = [fd_table EXCEPT ![fd] = FreePtr]
                      /\ Resume(new(fd))
                 /\ UNCHANGED mounted
  <2>1. /\ todo # <<>> /\ c.kind \in {"file", "dir"} /\ c.name \in AnyName
        /\ c.dir \in Addr
    BY Doings, StepOf DEF PopInode
  <2>2. FreePtr \in Addr /\ disk' \in [Addr -> Sized]
    BY <1>2, PoppedBlocks
  <2> HIDE DEF c
  <2>3. \A code \in Int : new(code) \in Seq(Steps)
    <3> SUFFICES ASSUME NEW code \in Int PROVE new(code) \in Seq(Steps)
      OBVIOUS
    <3>1. NewInode(c.kind, c.name, c.dir, FreePtr, code) \in Steps
      BY <2>1, <2>2, NewWork
    <3> QED BY <3>1
  <2> HIDE DEF new
  <2>4. CASE Resume(new(TFS_SUCCESS)) /\ UNCHANGED process
    <3>1. new(TFS_SUCCESS) \in Seq(Steps)
      BY <2>3, Codes
    <3>2. todo' \in Seq(Steps) /\ ret' \in Result
      BY <2>1, <2>4, <3>1, Resuming
    <3> QED BY <2>2, <2>4, <3>2 DEF TypeOK, process
  <2>5. CASE Finish(ERR_OUT_OF_FDS) /\ UNCHANGED process
    <3>1. todo' \in Seq(Steps) /\ ret' \in Result
      BY <2>5, Finishing, Codes
    <3> QED BY <2>2, <2>5, <3>1 DEF TypeOK, process
  <2>6. CASE /\ \E fd \in FDs :
                  /\ fd_table_index' = fd
                  /\ fd_table' = [fd_table EXCEPT ![fd] = FreePtr]
                  /\ Resume(new(fd))
             /\ UNCHANGED mounted
    <3>1. PICK fd \in FDs : /\ fd_table_index' = fd
                            /\ fd_table' = [fd_table EXCEPT ![fd] = FreePtr]
                            /\ Resume(new(fd))
      BY <2>6
    <3>2. new(fd) \in Seq(Steps)
      BY <2>3 DEF FDs
    <3>3. todo' \in Seq(Steps) /\ ret' \in Result
      BY <2>1, <3>1, <3>2, Resuming
    <3> QED BY <2>2, <2>6, <3>1, <3>3 DEF TypeOK
  <2> QED BY <1>2, <2>4, <2>5, <2>6
<1> QED BY <1>1, <1>2 DEF PopInode

LEMMA TypeWriteInode == ASSUME TypeOK, WriteInode PROVE TypeOK'
<1> DEFINE c == Head(todo)
<1>1. /\ todo # <<>> /\ c.kind \in {"file", "dir"} /\ c.name \in AnyName
      /\ c.dir \in Addr /\ c.blk \in Addr /\ c.code \in Int
  BY Doings, StepOf DEF WriteInode
<1>2. /\ disk' = [disk EXCEPT ![c.blk] = Inode(c.kind, c.name)]
      /\ Resume(<<Link(c.blk, c.dir, c.code)>>) /\ UNCHANGED process
  BY DEF WriteInode
<1> HIDE DEF c
<1>3. Inode(c.kind, c.name) \in Sized /\ Link(c.blk, c.dir, c.code) \in Steps
  BY <1>1, NewBlocks, NewWork
<1>4. disk' \in [Addr -> Sized]
  BY <1>2, <1>3 DEF TypeOK
<1>5. <<Link(c.blk, c.dir, c.code)>> \in Seq(Steps)
  BY <1>3
<1>6. todo' \in Seq(Steps) /\ ret' \in Result
  BY <1>1, <1>2, <1>5, Resuming
<1> QED BY <1>2, <1>4, <1>6 DEF TypeOK, process

LEMMA TypeLinkInode == ASSUME TypeOK, LinkInode PROVE TypeOK'
<1> DEFINE c == Head(todo)
<1>1. todo # <<>> /\ c.dir \in Addr /\ c.blk \in Addr /\ c.code \in Int
  BY Doings, StepOf DEF LinkInode
<1>2. /\ \/ \E i \in 1 .. Slots : disk' = [disk EXCEPT ![c.dir].ptr[i] = c.blk]
         \/ UNCHANGED disk
      /\ Finish(c.code) /\ UNCHANGED process
  BY DEF LinkInode
<1> HIDE DEF c
<1>3. \A i \in Nat : [disk[c.dir] EXCEPT !.ptr[i] = c.blk] \in Sized
  BY <1>1, ChangedBlocks DEF TypeOK
<1>4. disk' \in [Addr -> Sized]
  <2>1. CASE UNCHANGED disk
    BY <2>1 DEF TypeOK
  <2>2. ASSUME NEW i \in 1 .. Slots, disk' = [disk EXCEPT ![c.dir].ptr[i] = c.blk]
        PROVE  disk' \in [Addr -> Sized]
    <3>1. disk' = [disk EXCEPT ![c.dir] = [disk[c.dir] EXCEPT !.ptr[i] = c.blk]]
      BY <2>2
    <3>2. i \in Nat
      OBVIOUS
    <3>3. [disk[c.dir] EXCEPT !.ptr[i] = c.blk] \in Sized
      BY <1>3, <3>2
    <3> QED BY <1>1, <3>1, <3>3 DEF TypeOK
  <2> QED BY <1>2, <2>1, <2>2
<1>5. todo' \in Seq(Steps) /\ ret' \in Result
  BY <1>1, <1>2, Finishing
<1> QED BY <1>2, <1>4, <1>5 DEF TypeOK, process

LEMMA FreedBlocks ==
  ASSUME TypeOK, NEW b \in Addr PROVE Freed(b) \in [Addr -> Sized]
<1>1. FreeBlk(FreePtr) \in Sized
  BY PoppedBlocks, NewBlocks
<1> QED BY <1>1 DEF Freed, TypeOK

LEMMA TypeFreeBlockBody == ASSUME TypeOK, FreeBlockBody PROVE TypeOK'
<1> DEFINE b == Head(todo).blk
<1>1. todo # <<>> /\ b \in Addr
  BY Doings, StepOf DEF FreeBlockBody
<1>2. disk' = Freed(b) /\ Resume(<<FreeHead(b)>>) /\ UNCHANGED process
  BY DEF FreeBlockBody
<1> HIDE DEF b
<1>3. FreeHead(b) \in Steps
  BY <1>1, NewWork
<1>4. <<FreeHead(b)>> \in Seq(Steps)
  BY <1>3
<1>5. todo' \in Seq(Steps) /\ ret' \in Result
  BY <1>1, <1>2, <1>4, Resuming
<1> QED BY <1>1, <1>2, <1>5, FreedBlocks DEF TypeOK, process

LEMMA TypeFreeBlockHead == ASSUME TypeOK, FreeBlockHead PROVE TypeOK'
<1> DEFINE b == Head(todo).blk
<1>1. todo # <<>> /\ b \in Addr
  BY Doings, StepOf DEF FreeBlockHead
<1>2. /\ disk' = [disk EXCEPT ![SUPERBLOCK_DISKLOC].next = b]
      /\ Resume(<<>>) /\ UNCHANGED process
  BY DEF FreeBlockHead
<1> HIDE DEF b
<1>3. [disk[SUPERBLOCK_DISKLOC] EXCEPT !.next = b] \in Sized
  BY <1>1, ChangedBlocks, Results DEF TypeOK, SUPERBLOCK_DISKLOC
<1>4. disk' \in [Addr -> Sized]
  BY <1>2, <1>3 DEF TypeOK
<1>5. todo' \in Seq(Steps) /\ ret' \in Result
  BY <1>1, <1>2, NoSteps, Resuming
<1> QED BY <1>2, <1>4, <1>5 DEF TypeOK, process

LEMMA TypeReleaseBlocks == ASSUME TypeOK, ReleaseBlocks PROVE TypeOK'
<1> DEFINE ptr == Head(todo).ptr
           i == Head(todo).at
<1>1. todo # <<>> /\ ptr \in Ptrs /\ i \in Nat
  BY Doings, StepOf DEF ReleaseBlocks
<1>2. /\ \/ Resume(<<>>) /\ UNCHANGED disk
         \/ /\ i \in 1 .. Slots
            /\ disk' = Freed(ptr[i])
            /\ Resume(<<FreeHead(ptr[i]), Release(ptr, i + 1)>>)
      /\ UNCHANGED process
  BY DEF ReleaseBlocks, NoBlock
<1> HIDE DEF ptr, i
<1>3. CASE Resume(<<>>) /\ UNCHANGED disk
  BY <1>1, <1>2, <1>3, NoSteps, QuietResume
<1>4. CASE /\ i \in 1 .. Slots
           /\ disk' = Freed(ptr[i])
           /\ Resume(<<FreeHead(ptr[i]), Release(ptr, i + 1)>>)
  <2>1. ptr[i] \in Addr
    BY <1>1, <1>4 DEF Ptrs
  <2>2. FreeHead(ptr[i]) \in Steps /\ Release(ptr, i + 1) \in Steps
    BY <1>1, <2>1, NewWork
  <2>3. <<FreeHead(ptr[i]), Release(ptr, i + 1)>> \in Seq(Steps)
    BY <2>2
  <2>4. todo' \in Seq(Steps) /\ ret' \in Result
    BY <1>1, <1>4, <2>3, Resuming
  <2> QED BY <1>2, <1>4, <2>1, <2>4, FreedBlocks DEF TypeOK, process
<1> QED BY <1>2, <1>3, <1>4

LEMMA TypeUnlinkFile == ASSUME TypeOK, UnlinkFile PROVE TypeOK'
<1> DEFINE n == Head(todo).blk
           dir == Head(todo).dir
<1>1. todo # <<>> /\ n \in Addr /\ dir \in Addr
  BY Doings, StepOf DEF UnlinkFile
<1>2. \/ Die
      \/ /\ \/ \E i \in 1 .. Slots : disk' = [disk EXCEPT ![dir].ptr[i] = 0]
            \/ UNCHANGED disk
         /\ fd_table' = Closed(n)
         /\ Resume(<<>>)
         /\ UNCHANGED <<mounted, fd_table_index>>
  BY DEF UnlinkFile
<1> HIDE DEF n, dir
<1>3. CASE /\ \/ \E i \in 1 .. Slots : disk' = [disk EXCEPT ![dir].ptr[i] = 0]
              \/ UNCHANGED disk
           /\ fd_table' = Closed(n)
           /\ Resume(<<>>)
           /\ UNCHANGED <<mounted, fd_table_index>>
  <2>1. disk' \in [Addr -> Sized]
    <3>1. CASE UNCHANGED disk
      BY <3>1 DEF TypeOK
    <3>2. ASSUME NEW i \in 1 .. Slots, disk' = [disk EXCEPT ![dir].ptr[i] = 0]
          PROVE  disk' \in [Addr -> Sized]
      <4>1. disk' = [disk EXCEPT ![dir] = [disk[dir] EXCEPT !.ptr[i] = 0]]
        BY <3>2
      <4>2. i \in Nat /\ disk[dir] \in Sized
        BY <1>1 DEF TypeOK
      <4>3. [disk[dir] EXCEPT !.ptr[i] = 0] \in Sized
        BY <4>2, Results, ChangedBlocks
      <4> QED BY <1>1, <4>1, <4>3 DEF TypeOK
    <3> QED BY <1>3, <3>1, <3>2
  <2>2. todo' \in Seq(Steps) /\ ret' \in Result
    BY <1>1, <1>3, NoSteps, Resuming
  <2>3. fd_table' \in [FDs -> Addr]
    BY <1>3, Results DEF TypeOK, Closed
  <2> QED BY <1>3, <2>1, <2>2, <2>3 DEF TypeOK
<1> QED BY <1>2, <1>3, Dying

LEMMA TypeUnlinkDirectory == ASSUME TypeOK, UnlinkDirectory PROVE TypeOK'
<1> DEFINE n == Head(todo).blk
           dir == Head(todo).dir
           ptr == [i \in 1 .. Slots |-> IF disk[dir].ptr[i] = n THEN 0 ELSE disk[dir].ptr[i]]
<1>1. todo # <<>> /\ n \in Addr /\ dir \in Addr
  BY Doings, StepOf DEF UnlinkDirectory
<1>2. disk[dir] \in Sized
  BY <1>1 DEF TypeOK
<1>3. disk' = [disk EXCEPT ![dir] = [disk[dir] EXCEPT !.ptr = ptr]]
  BY <1>1, <1>2 DEF UnlinkDirectory, TypeOK
<1>4. Resume(<<>>) /\ UNCHANGED process
  BY DEF UnlinkDirectory
<1>5. ptr \in Ptrs
  BY <1>2, Fields, Results DEF Ptrs
<1> HIDE DEF ptr
<1>6. [disk[dir] EXCEPT !.ptr = ptr] \in Sized
  BY <1>2, <1>5, ChangedBlocks
<1>7. disk' \in [Addr -> Sized]
  BY <1>1, <1>3, <1>6 DEF TypeOK
<1>8. todo' \in Seq(Steps) /\ ret' \in Result
  BY <1>1, <1>4, NoSteps, Resuming
<1> QED BY <1>4, <1>7, <1>8 DEF TypeOK, process

LEMMA ScanFacts ==
  ASSUME TypeOK, Doing("scan") \/ Doing("rewrite")
  PROVE  LET s == Head(todo) IN
         /\ todo # <<>> /\ s.path \in AnyPath /\ s.dir \in Addr /\ s.copy \in Sized
         /\ s.at \in Nat /\ (s.dir # 0 => s.path # <<>>)
<1>1. todo # <<>> /\ Head(todo) \in ScanSteps
  BY Doings, StepOf
<1> QED BY <1>1 DEF ScanSteps, SUPERBLOCK_DISKLOC

LEMMA TypeScanNext == ASSUME TypeOK, ScanNext PROVE TypeOK'
<1> DEFINE s == Head(todo)
           then(i) == <<Rewrite(s.path, s.dir, s.copy, i)>>
           path(n) == Append(s.path, disk[n].name)
<1>1. Doing("scan") /\ UNCHANGED <<disk, process>>
  BY DEF ScanNext
<1>2. \/ s.dir = SUPERBLOCK_DISKLOC /\ Resume(<<>>)
      \/ /\ s.dir # SUPERBLOCK_DISKLOC
         /\ Resume(<<Walk("removeDir", s.path, 1, SUPERBLOCK_DISKLOC)>>)
      \/ \E i \in 1 .. Slots :
           LET n == s.copy.ptr[i]
           IN  \/ Resume(RemoveInode(n, s.dir) \o then(i))
               \/ Resume(<<Walk("removeAll", path(n), 1, SUPERBLOCK_DISKLOC)>> \o then(i))
               \/ Resume(then(i))
  BY DEF ScanNext
<1>3. /\ todo # <<>> /\ s.path \in AnyPath /\ s.dir \in Addr /\ s.copy \in Sized
      /\ s.at \in Nat /\ (s.dir # 0 => s.path # <<>>)
  BY <1>1, ScanFacts
<1> HIDE DEF s
<1>4. CASE Resume(<<>>)
  BY <1>1, <1>3, <1>4, NoSteps, QuietResume
<1>5. CASE s.dir # SUPERBLOCK_DISKLOC
           /\ Resume(<<Walk("removeDir", s.path, 1, SUPERBLOCK_DISKLOC)>>)
  <2>1. 1 \in 1 .. Len(s.path)
    BY <1>3, <1>5 DEF AnyPath, SUPERBLOCK_DISKLOC
  <2>2. Walk("removeDir", s.path, 1, SUPERBLOCK_DISKLOC) \in Steps
    BY <1>3, <2>1, NewWork, Results DEF Lookups, SUPERBLOCK_DISKLOC
  <2>3. <<Walk("removeDir", s.path, 1, SUPERBLOCK_DISKLOC)>> \in Seq(Steps)
    BY <2>2
  <2> QED BY <1>1, <1>3, <1>5, <2>3, QuietResume
<1>6. ASSUME NEW i \in 1 .. Slots,
             LET n == s.copy.ptr[i]
             IN  \/ Resume(RemoveInode(n, s.dir) \o then(i))
                 \/ Resume(<<Walk("removeAll", path(n), 1, SUPERBLOCK_DISKLOC)>> \o then(i))
                 \/ Resume(then(i))
      PROVE  TypeOK'
  <2> DEFINE n == s.copy.ptr[i]
  <2>1. n \in Addr /\ i \in Nat
    BY <1>3, Fields
  <2>2. then(i) \in Seq(Steps)
    <3>1. Rewrite(s.path, s.dir, s.copy, i) \in Steps
      BY <1>3, <2>1, NewWork
    <3> QED BY <3>1
  <2>3. RemoveInode(n, s.dir) \in Seq(Steps)
    <3>1. disk[n].ptr \in Ptrs
      BY <2>1, Fields DEF TypeOK
    <3>2. /\ Release(disk[n].ptr, 1) \in Steps /\ FreeBody(n) \in Steps
          /\ Unlink(n, s.dir) \in Steps
      BY <1>3, <2>1, <3>1, NewWork
    <3> QED BY <3>2 DEF RemoveInode
  <2>4. <<Walk("removeAll", path(n), 1, SUPERBLOCK_DISKLOC)>> \in Seq(Steps)
    <3>1. disk[n].name \in AnyName
      BY <2>1, Fields DEF TypeOK
    <3>2. path(n) \in AnyPath /\ 1 \in 1 .. Len(path(n))
      BY <1>3, <3>1 DEF AnyPath
    <3> HIDE DEF path
    <3>3. Walk("removeAll", path(n), 1, SUPERBLOCK_DISKLOC) \in Steps
      BY <3>2, NewWork, Results DEF Lookups, SUPERBLOCK_DISKLOC
    <3> QED BY <3>3
  <2> HIDE DEF then, path
  <2>5. PICK steps \in Seq(Steps) : Resume(steps)
    <3>1. /\ RemoveInode(n, s.dir) \o then(i) \in Seq(Steps)
          /\ <<Walk("removeAll", path(n), 1, SUPERBLOCK_DISKLOC)>> \o then(i) \in Seq(Steps)
      BY <2>2, <2>3, <2>4, Concatenation
    <3> QED BY <1>6, <2>2, <3>1
  <2> QED BY <1>1, <1>3, <2>5, QuietResume
<1> QED BY <1>2, <1>4, <1>5, <1>6

LEMMA TypeRewriteDir == ASSUME TypeOK, RewriteDir PROVE TypeOK'
<1> DEFINE s == Head(todo)
           copy == [s.copy EXCEPT !.ptr[s.at] = 0]
<1>1. /\ Doing("rewrite") /\ disk' = [disk EXCEPT ![s.dir] = copy]
      /\ Resume(<<Scan(s.path, s.dir, copy, s.at + 1)>>) /\ UNCHANGED process
  BY DEF RewriteDir
<1>2. /\ todo # <<>> /\ s.path \in AnyPath /\ s.dir \in Addr /\ s.copy \in Sized
      /\ s.at \in Nat /\ (s.dir # 0 => s.path # <<>>)
  BY <1>1, ScanFacts
<1> HIDE DEF s
<1>3. copy \in Sized
  BY <1>2, ChangedBlocks, Results
<1> HIDE DEF copy
<1>4. disk' \in [Addr -> Sized]
  BY <1>1, <1>2, <1>3 DEF TypeOK
<1>5. Scan(s.path, s.dir, copy, s.at + 1) \in Steps
  <2>1. s.at + 1 \in Nat
    BY <1>2
  <2> QED BY <1>2, <1>3, <2>1, NewWork
<1>6. <<Scan(s.path, s.dir, copy, s.at + 1)>> \in Seq(Steps)
  BY <1>5
<1>7. todo' \in Seq(Steps) /\ ret' \in Result
  BY <1>1, <1>2, <1>6, Resuming
<1> QED BY <1>1, <1>4, <1>7 DEF TypeOK, process

(* The calls on an open file.  A descriptor in use leads to an inode block. *)
LEMMA OpenInode ==
  ASSUME TypeOK, NEW fd \in FDs
  PROVE  fd_table[fd] \in Addr /\ disk[fd_table[fd]] \in Sized
  BY DEF TypeOK

LEMMA TypeNotReady == ASSUME TypeOK, NEW fd \in FDs, NotReady(fd) PROVE TypeOK'
  BY Refusing, Codes DEF NotReady

LEMMA TypeCloseFile == ASSUME TypeOK, NEW fd \in FDs, CloseFile(fd) PROVE TypeOK'
<1>1. CASE Refuse(ERR_INVALID_FD)
  BY <1>1, Refusing, Codes
<1>2. CASE /\ fd_table' = [fd_table EXCEPT ![fd] = 0]
           /\ Return(TFS_SUCCESS)
           /\ UNCHANGED <<disk, mounted, fd_table_index>>
  <2>1. todo' \in Seq(Steps) /\ ret' \in Result
    BY <1>2, Returning, Codes DEF TypeOK
  <2> QED BY <1>2, <2>1, Results DEF TypeOK
<1> QED BY <1>1, <1>2 DEF CloseFile

LEMMA TypeSeek ==
  ASSUME TypeOK, NEW fd \in FDs, NEW offset \in Offsets, Seek(fd, offset)
  PROVE  TypeOK'
<1>1. CASE NotReady(fd) \/ Refuse(ERR_INVALID_INPUT)
           \/ Refuse(ERR_FILE_PNTR_OUT_OF_BOUNDS)
  BY <1>1, TypeNotReady, Refusing, Codes
<1>2. CASE /\ offset >= 0
           /\ disk' = [disk EXCEPT ![fd_table[fd]].off = offset]
           /\ Return(TFS_SUCCESS)
           /\ UNCHANGED process
  <2>1. offset \in Nat
    BY <1>2
  <2>2. [disk[fd_table[fd]] EXCEPT !.off = offset] \in Sized
    BY <2>1, OpenInode, ChangedBlocks
  <2>3. disk' \in [Addr -> Sized]
    BY <1>2, <2>2, OpenInode DEF TypeOK
  <2>4. todo' \in Seq(Steps) /\ ret' \in Result
    BY <1>2, Returning, Codes DEF TypeOK
  <2> QED BY <1>2, <2>3, <2>4 DEF TypeOK, process
<1> QED BY <1>1, <1>2 DEF Seek

(* The byte tfs_readByte returns comes from a block the inode points to. *)
LEMMA TypeReadByte == ASSUME TypeOK, NEW fd \in FDs, ReadByte(fd) PROVE TypeOK'
<1> DEFINE inode == disk[fd_table[fd]]
<1>1. CASE NotReady(fd) \/ Refuse(ERR_FILE_PNTR_OUT_OF_BOUNDS)
  BY <1>1, TypeNotReady, Refusing, Codes
<1>2. CASE /\ inode.off < inode.size
           /\ disk' = [disk EXCEPT ![fd_table[fd]].off = inode.off + 1]
           /\ ret' = [code |-> TFS_SUCCESS,
                      byte |-> [data |-> disk'[inode.ptr[BlockNum(inode.off)]].data,
                                at |-> inode.off % MAX_DATA_SPACE]]
           /\ UNCHANGED <<todo, process>>
  <2>1. inode \in Sized /\ fd_table[fd] \in Addr
    BY OpenInode
  <2>2. inode.off \in Nat /\ inode.size \in Sizes \cup {0} /\ inode.ptr \in Ptrs
    BY <2>1, Fields
  <2>3. disk' = [disk EXCEPT ![fd_table[fd]] = [inode EXCEPT !.off = inode.off + 1]]
    BY <1>2
  <2> HIDE DEF inode
  <2>4. [inode EXCEPT !.off = inode.off + 1] \in Sized
    <3>1. inode.off + 1 \in Nat
      BY <2>2
    <3> QED BY <2>1, <3>1, ChangedBlocks
  <2>5. disk' \in [Addr -> Sized]
    BY <2>1, <2>3, <2>4 DEF TypeOK
  <2>6. BlockNum(inode.off) \in 1 .. Slots /\ inode.off % MAX_DATA_SPACE \in Nat
    <3>1. inode.size \in Sizes /\ inode.off \in 0 .. inode.size - 1
      BY <1>2, <2>2
    <3>2. inode.off \div MAX_DATA_SPACE < Slots
      BY <3>1, CallsAssumption
    <3>3. inode.off \div MAX_DATA_SPACE \in Nat /\ inode.off % MAX_DATA_SPACE \in Nat
      BY <2>2
    <3> QED BY <3>2, <3>3 DEF BlockNum
  <2>7. inode.ptr[BlockNum(inode.off)] \in Addr
    BY <2>2, <2>6 DEF Ptrs
  <2>8. disk'[inode.ptr[BlockNum(inode.off)]].data \in Payload
    <3>1. disk'[inode.ptr[BlockNum(inode.off)]] \in Sized
      BY <2>5, <2>7
    <3> QED BY <3>1 DEF Sized, Block
  <2>9. ret' \in Result
    BY <1>2, <2>6, <2>8, Codes DEF Result, Byte
  <2> QED BY <1>2, <2>5, <2>9 DEF TypeOK, process
<1> QED BY <1>1, <1>2 DEF ReadByte

LEMMA TypeRename ==
  ASSUME TypeOK, NEW fd \in FDs, NEW name \in Names, Rename(fd, name)
  PROVE  TypeOK'
<1>1. CASE NotReady(fd) \/ Refuse(ERR_INVALID_INPUT)
  BY <1>1, TypeNotReady, Refusing, Codes
<1>2. CASE /\ disk' = [disk EXCEPT ![fd_table[fd]].name = name]
           /\ Return(TFS_SUCCESS)
           /\ UNCHANGED process
  <2>1. [disk[fd_table[fd]] EXCEPT !.name = name] \in Sized
    BY OpenInode, ChangedBlocks
  <2>2. disk' \in [Addr -> Sized]
    BY <1>2, <2>1, OpenInode DEF TypeOK
  <2>3. todo' \in Seq(Steps) /\ ret' \in Result
    BY <1>2, Returning, Codes DEF TypeOK
  <2> QED BY <1>2, <2>2, <2>3 DEF TypeOK, process
<1> QED BY <1>1, <1>2 DEF Rename

LEMMA TypeDeleteFile == ASSUME TypeOK, NEW fd \in FDs, DeleteFile(fd) PROVE TypeOK'
<1>1. CASE NotReady(fd) \/ Refuse(ERR_BAD_DISK)
  BY <1>1, TypeNotReady, Refusing, Codes
<1>2. CASE /\ \E parent \in Addr : Begin(RemoveInode(fd_table[fd], parent))
           /\ UNCHANGED <<disk, process>>
  <2>1. PICK parent \in Addr : Begin(RemoveInode(fd_table[fd], parent))
    BY <1>2
  <2> DEFINE n == fd_table[fd]
  <2>2. n \in Addr /\ disk[n].ptr \in Ptrs
    BY OpenInode, Fields
  <2>3. /\ Release(disk[n].ptr, 1) \in Steps /\ FreeBody(n) \in Steps
        /\ Unlink(n, parent) \in Steps
    BY <2>2, NewWork
  <2>4. RemoveInode(n, parent) \in Seq(Steps)
    BY <2>3 DEF RemoveInode
  <2>5. todo' \in Seq(Steps) /\ ret' \in Result
    BY <2>1, <2>4, Beginning
  <2> QED BY <1>2, <2>5 DEF TypeOK, process
<1> QED BY <1>1, <1>2 DEF DeleteFile

LEMMA TypeWriteFile ==
  ASSUME TypeOK, NEW fd \in FDs, NEW tag \in Tags, NEW size \in Sizes,
         WriteFile(fd, tag, size)
  PROVE  TypeOK'
<1> DEFINE inode == [disk[fd_table[fd]] EXCEPT !.size = size]
<1>1. CASE NotReady(fd)
  BY <1>1, TypeNotReady
<1>2. CASE /\ Begin(<<Release(inode.ptr, 1), Grab(fd, tag, inode, 0)>>)
           /\ UNCHANGED <<disk, process>>
  <2>1. inode \in Sized
    BY OpenInode, ChangedBlocks
  <2> HIDE DEF inode
  <2>2. inode.ptr \in Ptrs
    BY <2>1, Fields
  <2>3. Release(inode.ptr, 1) \in Steps /\ Grab(fd, tag, inode, 0) \in Steps
    BY <2>1, <2>2, NewWork
  <2>4. <<Release(inode.ptr, 1), Grab(fd, tag, inode, 0)>> \in Seq(Steps)
    BY <2>3
  <2>5. todo' \in Seq(Steps) /\ ret' \in Result
    BY <1>2, <2>4, Beginning
  <2> QED BY <1>2, <2>5 DEF TypeOK, process
<1> QED BY <1>1, <1>2 DEF WriteFile

LEMMA TypeGrabBlock == ASSUME TypeOK, GrabBlock PROVE TypeOK'
<1> DEFINE g == Head(todo)
<1>1. /\ todo # <<>> /\ g.fd \in FDs /\ g.tag \in Tags /\ g.inode \in Sized
      /\ g.at \in Nat
  BY Doings, StepOf DEF GrabBlock
<1>2. /\ UNCHANGED process
      /\ \/ /\ disk' = Popped
            /\ Resume(<<Fill(g.fd, g.tag, g.inode, g.at, FreePtr)>>)
         \/ Finish(ERR_DISK_OUT_OF_SPACE) /\ UNCHANGED disk
         \/ disk' = [disk EXCEPT ![fd_table[g.fd]].off = 0] /\ Resume(<<>>)
  BY DEF GrabBlock
<1> HIDE DEF g
<1>3. CASE /\ disk' = Popped
           /\ Resume(<<Fill(g.fd, g.tag, g.inode, g.at, FreePtr)>>)
  <2>1. Fill(g.fd, g.tag, g.inode, g.at, FreePtr) \in Steps
    BY <1>1, NewWork, PoppedBlocks
  <2>2. <<Fill(g.fd, g.tag, g.inode, g.at, FreePtr)>> \in Seq(Steps)
    BY <2>1
  <2>3. todo' \in Seq(Steps) /\ ret' \in Result
    BY <1>1, <1>3, <2>2, Resuming
  <2> QED BY <1>2, <1>3, <2>3, PoppedBlocks DEF TypeOK, process
<1>4. CASE Finish(ERR_DISK_OUT_OF_SPACE) /\ UNCHANGED disk
  <2>1. todo' \in Seq(Steps) /\ ret' \in Result
    BY <1>4, Finishing, Codes
  <2> QED BY <1>2, <1>4, <2>1 DEF TypeOK, process
<1>5. CASE disk' = [disk EXCEPT ![fd_table[g.fd]].off = 0] /\ Resume(<<>>)
  <2>1. [disk[fd_table[g.fd]] EXCEPT !.off = 0] \in Sized
    BY <1>1, OpenInode, ChangedBlocks
  <2>2. disk' \in [Addr -> Sized]
    BY <1>1, <1>5, <2>1, OpenInode DEF TypeOK
  <2>3. todo' \in Seq(Steps) /\ ret' \in Result
    BY <1>1, <1>5, NoSteps, Resuming
  <2> QED BY <1>2, <2>2, <2>3 DEF TypeOK, process
<1> QED BY <1>2, <1>3, <1>4, <1>5

LEMMA TypeFillBlock == ASSUME TypeOK, FillBlock PROVE TypeOK'
<1> DEFINE g == Head(todo)
           blk == Filled(disk[g.blk], g.tag, g.at)
<1>1. /\ todo # <<>> /\ g.fd \in FDs /\ g.tag \in Tags /\ g.inode \in Sized
      /\ g.at \in Nat /\ g.blk \in Addr
  BY Doings, StepOf DEF FillBlock
<1>2. /\ UNCHANGED process
      /\ disk' = [disk EXCEPT ![g.blk] = blk]
      /\ Resume(<<Point(g.fd, g.tag, g.inode, g.at, g.blk)>>)
  BY DEF FillBlock
<1> HIDE DEF g
<1>3. blk \in Sized
  BY <1>1, ChangedBlocks DEF TypeOK, Filled
<1> HIDE DEF blk
<1>4. Point(g.fd, g.tag, g.inode, g.at, g.blk) \in Steps
  BY <1>1, NewWork
<1>5. <<Point(g.fd, g.tag, g.inode, g.at, g.blk)>> \in Seq(Steps)
  BY <1>4
<1>6. disk' \in [Addr -> Sized]
  BY <1>1, <1>2, <1>3 DEF TypeOK
<1>7. todo' \in Seq(Steps) /\ ret' \in Result
  BY <1>1, <1>2, <1>5, Resuming
<1> QED BY <1>2, <1>6, <1>7 DEF TypeOK, process

LEMMA TypePointToBlock == ASSUME TypeOK, PointToBlock PROVE TypeOK'
<1> DEFINE g == Head(todo)
           inode == [g.inode EXCEPT !.ptr[g.at + 1] = g.blk]
<1>1. /\ todo # <<>> /\ g.fd \in FDs /\ g.tag \in Tags /\ g.inode \in Sized
      /\ g.at \in Nat /\ g.blk \in Addr
  BY Doings, StepOf DEF PointToBlock
<1>2. /\ UNCHANGED process
      /\ disk' = [disk EXCEPT ![fd_table[g.fd]] = inode]
      /\ Resume(<<Grab(g.fd, g.tag, inode, g.at + 1)>>)
  BY DEF PointToBlock
<1> HIDE DEF g
<1>3. inode \in Sized
  <2>1. g.at + 1 \in Nat
    BY <1>1
  <2> QED BY <1>1, <2>1, ChangedBlocks
<1> HIDE DEF inode
<1>4. Grab(g.fd, g.tag, inode, g.at + 1) \in Steps
  <2>1. g.at + 1 \in Nat
    BY <1>1
  <2> QED BY <1>1, <1>3, <2>1, NewWork
<1>5. <<Grab(g.fd, g.tag, inode, g.at + 1)>> \in Seq(Steps)
  BY <1>4
<1>6. disk' \in [Addr -> Sized]
  BY <1>1, <1>2, <1>3, OpenInode DEF TypeOK
<1>7. todo' \in Seq(Steps) /\ ret' \in Result
  BY <1>1, <1>2, <1>5, Resuming
<1> QED BY <1>2, <1>6, <1>7 DEF TypeOK, process

LEMMA TypeStep == ASSUME TypeOK, Step PROVE TypeOK'
  BY TypeFormat, TypeWalkRefuses, TypeWalkOn, TypeOpenFound, TypeDirFound,
     TypeNotFound, TypePopInode, TypeWriteInode, TypeLinkInode,
     TypeFreeBlockBody, TypeFreeBlockHead, TypeReleaseBlocks, TypeUnlinkFile,
     TypeUnlinkDirectory, TypeScanNext, TypeRewriteDir, TypeGrabBlock,
     TypeFillBlock, TypePointToBlock, Dying
  DEF Step, RecursionOverflows

LEMMA TypeCall == ASSUME TypeOK, Call PROVE TypeOK'
<1>1. CASE Mkfs \/ Mount \/ MountOverflows \/ Unmount \/ RemoveAllOfRoot
  BY <1>1, TypeMkfs, TypeMount, TypeRemoveAllOfRoot
<1>2. CASE \E path \in Paths :
             OpenFile(path) \/ CreateDir(path) \/ RemoveDir(path) \/ RemoveAll(path)
  <2>1. PICK path \in Paths, call \in Lookups : PathCall(call, path)
    BY <1>2 DEF OpenFile, CreateDir, RemoveDir, RemoveAll, Lookups
  <2> QED BY <2>1, TypePathCall
<1>3. ASSUME NEW fd \in FDs,
             \/ CloseFile(fd) \/ DeleteFile(fd) \/ ReadByte(fd)
             \/ \E tag \in Tags, size \in Sizes : WriteFile(fd, tag, size)
             \/ \E offset \in Offsets : Seek(fd, offset)
             \/ \E name \in Names : Rename(fd, name)
      PROVE  TypeOK'
  BY <1>3, TypeCloseFile, TypeDeleteFile, TypeReadByte, TypeWriteFile, TypeSeek,
     TypeRename
<1> QED BY <1>1, <1>2, <1>3 DEF Call

(* No call of any program, and no crash between two writes, makes TinyFS   *)
(* leave an address off the disk in a block, in fd_table or in the work of *)
(* a call: the pointers it follows without a bound check are in bounds.    *)
THEOREM TypeCorrect == Spec => []TypeOK
<1>1. Init => TypeOK
  BY TypeInit
<1>2. TypeOK /\ [Next]_vars => TypeOK'
  <2>1. ASSUME TypeOK, Next PROVE TypeOK'
    BY <2>1, TypeStep, TypeCall, Dying DEF Next, Crash
  <2>2. ASSUME TypeOK, UNCHANGED vars PROVE TypeOK'
    BY <2>2 DEF TypeOK, vars
  <2> QED BY <2>1, <2>2
<1> QED BY <1>1, <1>2, PTL DEF Spec

---------------------------------------------------------------------------
(* The superblock.  Its type and kind survive because no handler writes a  *)
(* whole block at address 0 but the ones that write a superblock there:    *)
(* what a call leaves to do names blocks other than 0, and the copy of a   *)
(* directory tfs_removeAll writes back is the root's when it goes there.   *)

IsSuper(blk) == blk.type \in {"SUPERBLOCK", "ZERO"} /\ blk.kind = "none"

(* The work of tfs_writeFile, on a descriptor that stays open meanwhile.   *)
Writing ==
  {s \in Steps :
     /\ s.op \in {"release", "freeHead", "grab", "fill", "point"}
     /\ s.op \in {"grab", "fill", "point"} => fd_table[s.fd] # 0
     /\ s.op = "fill" => s.blk # 0}

(* The work of the other calls on a mounted disk. *)
Other ==
  {s \in Steps :
     /\ s.op \notin {"format", "grab", "fill", "point"}
     /\ s.op \in {"newInode", "freeBody"} => s.blk # 0
     /\ s.op \in {"scan", "rewrite"} /\ s.dir = 0 => IsSuper(s.copy)}

Working ==
  \/ Idle
  \/ \E i \in 1 .. NumBlocks : todo = <<FormatAt(i)>>
  \/ mounted /\ (todo \in Seq(Writing) \/ todo \in Seq(Other))

Inv == TypeOK /\ SuperblockIntact /\ UnmountedIsQuiet /\ Working

(* What a handler knows of the call it works for. *)
LEMMA WorkFor ==
  ASSUME Inv, NEW op, Doing(op), op # "format"
  PROVE  /\ todo # <<>> /\ Head(todo).op = op
         /\ mounted /\ todo \in Seq(Writing) \cup Seq(Other)
         /\ op \notin {"release", "freeHead"} =>
              (todo \in Seq(Writing) <=> op \in {"grab", "fill", "point"})
         /\ op \notin {"release", "freeHead"} =>
              (todo \in Seq(Other) <=> op \notin {"grab", "fill", "point"})
<1>1. todo # <<>> /\ Head(todo).op = op
  BY DEF Doing
<1>2. \A i \in 1 .. NumBlocks : todo # <<FormatAt(i)>>
  BY <1>1 DEF FormatAt
<1>3. mounted /\ todo \in Seq(Writing) \cup Seq(Other)
  BY <1>1, <1>2 DEF Inv, Working, Idle
<1>4. ASSUME todo \in Seq(Writing) PROVE Head(todo) \in Writing
  BY <1>1, <1>4, HeadAndTail
<1>5. ASSUME todo \in Seq(Other) PROVE Head(todo) \in Other
  BY <1>1, <1>5, HeadAndTail
<1> QED BY <1>1, <1>3, <1>4, <1>5 DEF Writing, Other

(* Work of one kind stays work of that kind. *)
LEMMA ResumeWithin ==
  ASSUME NEW S, NEW T, T \cap Steps \subseteq S, S \subseteq Steps,
         todo \in Seq(S), todo # <<>>, todo' \in Seq(Steps),
         NEW steps \in Seq(T), Resume(steps)
  PROVE  todo' \in Seq(S)
<1>1. Tail(todo) \in Seq(S) /\ todo' = steps \o Tail(todo)
  BY HeadAndTail DEF Resume
<1>2. \A i \in 1 .. Len(steps) : steps[i] \in S
  <2> SUFFICES ASSUME NEW i \in 1 .. Len(steps) PROVE steps[i] \in S
    OBVIOUS
  <2>1. steps[i] \in T
    OBVIOUS
  <2>2. i \in 1 .. Len(todo') /\ todo'[i] = steps[i]
    BY <1>1
  <2>3. todo'[i] \in Steps
    BY <2>2
  <2> QED BY <2>1, <2>2, <2>3
<1>3. steps \in Seq(S)
  BY <1>2
<1> QED BY <1>1, <1>3, Concatenation

LEMMA WorkSets == Writing \subseteq Steps /\ Other \subseteq Steps
                  /\ <<>> \in Seq(Other) /\ <<>> \in Seq(Writing)
  BY DEF Writing, Other

Safe == SuperblockIntact /\ UnmountedIsQuiet /\ Working

(* Three ways for a handler on a mounted disk to end. *)
LEMMA OtherGoesOn ==
  ASSUME Inv, mounted, UNCHANGED mounted, todo' \in Seq(Other)
  PROVE  UnmountedIsQuiet' /\ Working'
  BY DEF UnmountedIsQuiet, Working

LEMMA WritingGoesOn ==
  ASSUME Inv, mounted, UNCHANGED process, todo' \in Seq(Writing)
  PROVE  UnmountedIsQuiet' /\ Working'
<1>1. Writing' = Writing
  BY DEF Writing, process
<1> QED BY <1>1 DEF UnmountedIsQuiet, Working, process

LEMMA CallEnds ==
  ASSUME mounted', todo' = <<>>
  PROVE  UnmountedIsQuiet' /\ Working'
  BY DEF UnmountedIsQuiet, Working, Idle

LEMMA SafeDie == ASSUME Inv, Die PROVE Safe'
  BY DEF Inv, Die, Safe, SuperblockIntact, UnmountedIsQuiet, Working, Idle

(* A write elsewhere, or of another superblock, or of other fields. *)
LEMMA WriteElsewhere ==
  ASSUME Inv, NEW b \in Addr, NEW blk, disk' = [disk EXCEPT ![b] = blk],
         b # 0 \/ IsSuper(blk)
  PROVE  SuperblockIntact'
  BY DEF Inv, TypeOK, SuperblockIntact, IsSuper, SUPERBLOCK_DISKLOC

LEMMA WriteFields ==
  ASSUME Inv, NEW b \in Addr, NEW blk, disk' = [disk EXCEPT ![b] = blk],
         blk.type = disk[b].type, blk.kind = disk[b].kind
  PROVE  SuperblockIntact'
  BY DEF Inv, TypeOK, SuperblockIntact, IsSuper, SUPERBLOCK_DISKLOC

LEMMA NoWrite == ASSUME Inv, UNCHANGED disk PROVE SuperblockIntact'
  BY DEF Inv, SuperblockIntact

LEMMA SafeFail ==
  ASSUME Inv, NEW code, Fail(code), mounted PROVE Safe'
<1>1. UnmountedIsQuiet' /\ Working'
  BY CallEnds DEF Fail, Finish, process
<1> QED BY <1>1, NoWrite DEF Fail, Safe

LEMMA SafeRefuse ==
  ASSUME Inv, NEW code, Refuse(code) PROVE Safe'
<1>1. UNCHANGED todo /\ todo = <<>> /\ UNCHANGED <<disk, process>>
  BY DEF Refuse, Return, Idle
<1> QED BY <1>1, NoWrite DEF Inv, Safe, UnmountedIsQuiet, Working, Idle, process

(* A handler that leaves other work to do and does not write. *)
LEMMA SafeQuiet ==
  ASSUME Inv, TypeOK', mounted, todo \in Seq(Other), todo # <<>>,
         NEW T, T \cap Steps \subseteq Other, NEW steps \in Seq(T), Resume(steps),
         UNCHANGED <<disk, process>>
  PROVE  Safe'
<1>1. todo' \in Seq(Other)
  BY ResumeWithin, WorkSets DEF TypeOK
<1>2. UnmountedIsQuiet' /\ Working'
  BY <1>1, OtherGoesOn DEF process
<1> QED BY <1>2, NoWrite DEF Safe

LEMMA SafeMkfs == ASSUME Inv, Mkfs PROVE Safe'
<1>1. 1 \in 1 .. NumBlocks /\ todo' = <<FormatAt(1)>> /\ UNCHANGED process
  BY DEF Mkfs, Begin
<1>2. Working' /\ UnmountedIsQuiet'
  BY <1>1 DEF Working, UnmountedIsQuiet, Formatting, FormatAt, Inv, process
<1>3. SuperblockIntact'
  BY Results DEF Mkfs, SuperblockIntact, Blank, SUPERBLOCK_DISKLOC
<1> QED BY <1>2, <1>3 DEF Safe

LEMMA SafeFormat == ASSUME Inv, Format PROVE Safe'
<1>1. PICK i \in 1 .. NumBlocks : todo = <<FormatAt(i)>>
  <2>1. ASSUME todo \in Seq(Writing) \cup Seq(Other), todo # <<>> PROVE FALSE
    <3>1. Head(todo) \in Writing \cup Other
      BY <2>1, HeadAndTail
    <3> QED BY <3>1 DEF Writing, Other, Format, Doing
  <2> QED BY <2>1 DEF Inv, Working, Idle, Format, Doing
<1>2. Head(todo) = FormatAt(i) /\ Tail(todo) = <<>>
  BY <1>1
<1>3. Head(todo).at = i
  BY <1>2 DEF FormatAt
<1>4. CASE /\ i < NumBlocks
           /\ disk' = [disk EXCEPT ![i] = FormatBlk(i)]
           /\ Resume(<<FormatAt(i + 1)>>)
  <2>1. i + 1 \in 1 .. NumBlocks /\ todo' = <<FormatAt(i + 1)>>
    <3>1. i + 1 \in 1 .. NumBlocks
      BY <1>4
    <3>2. todo' = <<FormatAt(i + 1)>> \o <<>>
      BY <1>2, <1>4 DEF Resume
    <3>3. <<FormatAt(i + 1)>> \o <<>> = <<FormatAt(i + 1)>>
      <4> DEFINE x == FormatAt(i + 1)
      <4> HIDE DEF x
      <4>1. <<x>> \o <<>> = <<x>>
        OBVIOUS
      <4> QED BY <4>1 DEF x
    <3> QED BY <3>1, <3>2, <3>3
  <2>2. Working' /\ UnmountedIsQuiet'
    <3>1. Working'
      BY <2>1 DEF Working
    <3>2. Formatting'
      BY <2>1 DEF Formatting, FormatAt
    <3>3. ~ mounted' => fd_table' = NoFds
      BY DEF Inv, UnmountedIsQuiet, Format, process
    <3> QED BY <3>1, <3>2, <3>3 DEF UnmountedIsQuiet
  <2>3. SuperblockIntact'
    <3>1. i \in Addr /\ i # 0
      BY <1>4 DEF Addr
    <3> QED BY <1>4, <3>1, WriteElsewhere
  <2> QED BY <2>2, <2>3 DEF Safe
<1>5. CASE /\ i = NumBlocks
           /\ disk' = [disk EXCEPT ![SUPERBLOCK_DISKLOC] = FormatSuper]
           /\ Resume(<<>>)
  <2>1. todo' = <<>>
    BY <1>2, <1>5 DEF Resume
  <2>2. Working' /\ UnmountedIsQuiet'
    BY <2>1 DEF Working, UnmountedIsQuiet, Idle, Inv, process, Format
  <2>3. IsSuper(FormatSuper)
    BY DEF IsSuper, FormatSuper, SuperBlk, Blank
  <2>4. SuperblockIntact'
    BY <1>5, <2>3, WriteElsewhere, Results DEF SUPERBLOCK_DISKLOC
  <2> QED BY <2>2, <2>4 DEF Safe
<1> QED BY <1>3, <1>4, <1>5 DEF Format

LEMMA SafeMount == ASSUME Inv, Mount \/ MountOverflows \/ Unmount PROVE Safe'
<1>1. CASE Mount
  <2>1. todo' = <<>> /\ UNCHANGED disk
    BY <1>1 DEF Mount, Return, Idle
  <2>2. ~ mounted' => fd_table' = NoFds
    BY <1>1 DEF Mount, Inv, UnmountedIsQuiet
  <2>3. Working' /\ UnmountedIsQuiet'
    BY <2>1, <2>2 DEF Working, UnmountedIsQuiet, Idle
  <2> QED BY <2>1, <2>3, NoWrite DEF Safe
<1>2. CASE MountOverflows
  BY <1>2, SafeDie DEF MountOverflows
<1>3. CASE Unmount
  <2>1. CASE Refuse(ERR_NO_DISK_MOUNTED)
    BY <2>1, SafeRefuse
  <2>2. CASE Return(TFS_SUCCESS) /\ fd_table' = NoFds
             /\ UNCHANGED <<disk, fd_table_index>>
    <3>1. todo' = <<>>
      BY <2>2 DEF Return, Idle
    <3>2. Working' /\ UnmountedIsQuiet'
      BY <2>2, <3>1 DEF Working, UnmountedIsQuiet, Idle
    <3> QED BY <2>2, <3>2, NoWrite DEF Safe
  <2> QED BY <1>3, <2>1, <2>2 DEF Unmount
<1> QED BY <1>1, <1>2, <1>3

(* A call that begins with work for a mounted disk. *)
LEMMA SafeBegin ==
  ASSUME Inv, TypeOK', mounted, NEW T, T \cap Steps \subseteq Other,
         NEW steps \in Seq(T), Begin(steps), UNCHANGED <<disk, process>>
  PROVE  Safe'
<1>1. todo' = steps /\ steps \in Seq(Steps)
  BY DEF Begin, TypeOK
<1>2. \A i \in 1 .. Len(steps) : steps[i] \in T /\ steps[i] \in Steps
  BY <1>1
<1>3. todo' \in Seq(Other)
  BY <1>1, <1>2
<1>4. UnmountedIsQuiet' /\ Working'
  BY <1>3, OtherGoesOn DEF process
<1> QED BY <1>4, NoWrite DEF Safe

LEMMA SafePathCall ==
  ASSUME Inv, TypeOK', NEW call, NEW path, PathCall(call, path) PROVE Safe'
<1>1. CASE Refuse(ERR_NO_DISK_MOUNTED)
  BY <1>1, SafeRefuse
<1>2. CASE mounted /\ Begin(<<Walk(call, path, 1, SUPERBLOCK_DISKLOC)>>)
           /\ UNCHANGED <<disk, process>>
  <2> DEFINE T == {Walk(call, path, 1, SUPERBLOCK_DISKLOC)}
  <2>1. T \cap Steps \subseteq Other
    BY DEF Walk, Other
  <2>2. <<Walk(call, path, 1, SUPERBLOCK_DISKLOC)>> \in Seq(T)
    OBVIOUS
  <2> HIDE DEF T
  <2> QED BY <1>2, <2>1, <2>2, SafeBegin
<1> QED BY <1>1, <1>2 DEF PathCall

(* tfs_removeAll("/") starts from a copy of the superblock. *)
LEMMA SafeRemoveAllOfRoot ==
  ASSUME Inv, TypeOK', RemoveAllOfRoot PROVE Safe'
<1> DEFINE scan == Scan(<<>>, SUPERBLOCK_DISKLOC, disk[SUPERBLOCK_DISKLOC], 1)
           T == {scan}
<1>1. IsSuper(disk[SUPERBLOCK_DISKLOC])
  BY DEF Inv, SuperblockIntact, IsSuper
<1>2. T \cap Steps \subseteq Other
  BY <1>1 DEF Scan, Other
<1>3. mounted /\ Begin(<<scan>>) /\ UNCHANGED <<disk, process>>
  BY DEF RemoveAllOfRoot
<1>4. <<scan>> \in Seq(T)
  OBVIOUS
<1> HIDE DEF T
<1> QED BY <1>2, <1>3, <1>4, SafeBegin

LEMMA SafeWalkRefuses == ASSUME Inv, WalkRefuses PROVE Safe'
<1>1. Doing("walk")
      /\ (Fail(ERR_INVALID_INPUT) \/ Fail(ERR_DIR_NOT_FOUND) \/ Fail(ERR_NOT_A_DIR))
  BY DEF WalkRefuses, Readable
<1>2. mounted
  BY <1>1, WorkFor
<1> QED BY <1>1, <1>2, SafeFail

LEMMA SafeWalkOn == ASSUME Inv, TypeOK', WalkOn PROVE Safe'
<1> DEFINE w == Head(todo)
<1>1. Doing("walk") /\ UNCHANGED <<disk, process>>
  BY DEF WalkOn, Readable
<1>2. mounted /\ todo \in Seq(Other) /\ todo # <<>>
  BY <1>1, WorkFor
<1>3. PICK child \in Addr : Resume(<<Walk(w.call, w.path, w.at + 1, child)>>)
  BY DEF WalkOn
<1> DEFINE s == Walk(w.call, w.path, w.at + 1, child)
           T == {s}
<1>4. T \cap Steps \subseteq Other
  BY DEF Walk, Other
<1>5. <<s>> \in Seq(T)
  OBVIOUS
<1> HIDE DEF T
<1> QED BY <1>1, <1>2, <1>3, <1>4, <1>5, SafeQuiet

LEMMA SafeOpenFound == ASSUME Inv, OpenFound PROVE Safe'
<1>1. CASE Die
  BY <1>1, SafeDie
<1>2. CASE UNCHANGED <<disk, mounted>> /\ todo' = <<>>
  <2>1. mounted
    BY WorkFor DEF OpenFound, Readable
  <2>2. UnmountedIsQuiet' /\ Working'
    BY <1>2, <2>1, CallEnds
  <2> QED BY <1>2, <2>2, NoWrite DEF Safe
<1> QED BY <1>1, <1>2 DEF OpenFound, Fail, Finish, process

(* The directory a path leads to is not block 0: no pointer used is zero. *)
LEMMA HitIsNotSuper ==
  ASSUME TypeOK, Doing("walk"), NEW child, Hit(Head(todo), child)
  PROVE  child # 0
  BY DEF Hit, First, Matches

LEMMA SafeDirFound == ASSUME Inv, TypeOK', DirFound PROVE Safe'
<1> DEFINE w == Head(todo)
<1>1. Doing("walk") /\ UNCHANGED <<disk, process>>
  BY DEF DirFound, Readable
<1>2. mounted /\ todo \in Seq(Other) /\ todo # <<>>
  BY <1>1, WorkFor
<1>3. PICK child \in Addr :
        /\ child # 0
        /\ \/ Finish(ERR_DIR_ALREADY_EXISTS) \/ Finish(ERR_DIR_NOT_EMPTY)
           \/ Resume(<<FreeBody(child), UnlinkDir(child, w.dir)>>)
           \/ Resume(<<Scan(w.path, child, disk[child], 1)>>)
  BY <1>1, HitIsNotSuper DEF DirFound, Inv
<1>4. CASE Finish(ERR_DIR_ALREADY_EXISTS) \/ Finish(ERR_DIR_NOT_EMPTY)
  <2>1. UnmountedIsQuiet' /\ Working'
    BY <1>1, <1>2, <1>4, CallEnds DEF Finish, process
  <2> QED BY <1>1, <2>1, NoWrite DEF Safe
<1>5. CASE Resume(<<FreeBody(child), UnlinkDir(child, w.dir)>>)
  <2> DEFINE s1 == FreeBody(child)
             s2 == UnlinkDir(child, w.dir)
             T == {s1, s2}
  <2>1. T \cap Steps \subseteq Other
    BY <1>3 DEF FreeBody, UnlinkDir, Other
  <2>2. <<s1, s2>> \in Seq(T)
    <3> HIDE DEF s1, s2
    <3> QED OBVIOUS
  <2> HIDE DEF T
  <2> QED BY <1>1, <1>2, <1>5, <2>1, <2>2, SafeQuiet
<1>6. CASE Resume(<<Scan(w.path, child, disk[child], 1)>>)
  <2> DEFINE s == Scan(w.path, child, disk[child], 1)
             T == {s}
  <2>1. T \cap Steps \subseteq Other
    BY <1>3 DEF Scan, Other
  <2>2. <<s>> \in Seq(T)
    OBVIOUS
  <2> HIDE DEF T
  <2> QED BY <1>1, <1>2, <1>6, <2>1, <2>2, SafeQuiet
<1> QED BY <1>3, <1>4, <1>5, <1>6

LEMMA SafeNotFound == ASSUME Inv, TypeOK', NotFound PROVE Safe'
<1> DEFINE w == Head(todo)
<1>1. Doing("walk") /\ UNCHANGED <<disk, process>>
  BY DEF NotFound, Readable
<1>2. mounted /\ todo \in Seq(Other) /\ todo # <<>>
  BY <1>1, WorkFor
<1>3. PICK kind \in {"file", "dir"} : Resume(<<Create(kind, Name(w), w.dir)>>)
  BY DEF NotFound
<1> DEFINE s == Create(kind, Name(w), w.dir)
           T == {s}
<1>4. T \cap Steps \subseteq Other
  BY DEF Create, Other
<1>5. <<s>> \in Seq(T)
  OBVIOUS
<1> HIDE DEF T
<1> QED BY <1>1, <1>2, <1>3, <1>4, <1>5, SafeQuiet

LEMMA PoppedSuper == ASSUME Inv, disk' = Popped PROVE SuperblockIntact'
  BY DEF Inv, TypeOK, SuperblockIntact, Popped, SUPERBLOCK_DISKLOC

(* A handler that leaves other work to do after a write. *)
LEMMA SafeWork ==
  ASSUME Inv, TypeOK', mounted, todo \in Seq(Other), todo # <<>>,
         NEW T, T \cap Steps \subseteq Other, NEW steps \in Seq(T), Resume(steps),
         UNCHANGED mounted
  PROVE  UnmountedIsQuiet' /\ Working'
<1>1. todo' \in Seq(Other)
  BY ResumeWithin, WorkSets DEF TypeOK
<1> QED BY <1>1, OtherGoesOn

LEMMA SafePopInode == ASSUME Inv, TypeOK', PopInode PROVE Safe'
<1> DEFINE c == Head(todo)
           s(code) == NewInode(c.kind, c.name, c.dir, FreePtr, code)
<1>1. mounted /\ todo \in Seq(Other) /\ todo # <<>>
  BY WorkFor DEF PopInode
<1>2. CASE Fail(ERR_DISK_OUT_OF_SPACE)
  BY <1>1, <1>2, SafeFail
<1>3. CASE FreePtr # 0 /\ disk' = Popped /\ UNCHANGED mounted
           /\ (Finish(ERR_OUT_OF_FDS) \/ \E code : Resume(<<s(code)>>))
  <2>1. CASE Finish(ERR_OUT_OF_FDS)
    <3>1. UnmountedIsQuiet' /\ Working'
      BY <1>1, <1>3, <2>1, CallEnds DEF Finish
    <3> QED BY <1>3, <3>1, PoppedSuper DEF Safe
  <2>2. ASSUME NEW code, Resume(<<s(code)>>) PROVE Safe'
    <3> DEFINE T == {s(code)}
    <3>1. T \cap Steps \subseteq Other
      BY <1>3 DEF NewInode, Other
    <3>2. <<s(code)>> \in Seq(T)
      OBVIOUS
    <3> HIDE DEF T, s
    <3>3. UnmountedIsQuiet' /\ Working'
      BY <1>1, <1>3, <2>2, <3>1, <3>2, SafeWork
    <3> QED BY <1>3, <3>3, PoppedSuper DEF Safe
  <2> QED BY <1>3, <2>1, <2>2
<1>4. \/ Fail(ERR_DISK_OUT_OF_SPACE)
      \/ /\ FreePtr # 0 /\ disk' = Popped /\ UNCHANGED mounted
         /\ Finish(ERR_OUT_OF_FDS) \/ \E code : Resume(<<s(code)>>)
  BY DEF PopInode, process
<1> QED BY <1>2, <1>3, <1>4

LEMMA SafeWriteInode == ASSUME Inv, TypeOK', WriteInode PROVE Safe'
<1> DEFINE c == Head(todo)
           s == Link(c.blk, c.dir, c.code)
           T == {s}
<1>1. mounted /\ todo \in Seq(Other) /\ todo # <<>> /\ c.op = "newInode"
  BY WorkFor DEF WriteInode
<1>2. /\ disk' = [disk EXCEPT ![c.blk] = Inode(c.kind, c.name)]
      /\ Resume(<<s>>) /\ UNCHANGED process
  BY DEF WriteInode
<1>3. c \in Other
  BY <1>1, HeadAndTail
<1>4. c.blk # 0 /\ c.blk \in Addr
  BY <1>1, <1>3, StepOf DEF Other
<1>5. T \cap Steps \subseteq Other
  BY DEF Link, Other
<1>6. <<s>> \in Seq(T)
  OBVIOUS
<1> HIDE DEF T, s, c
<1>7. UnmountedIsQuiet' /\ Working'
  BY <1>1, <1>2, <1>5, <1>6, SafeWork DEF process
<1>8. SuperblockIntact'
  BY <1>2, <1>4, WriteElsewhere
<1> QED BY <1>7, <1>8 DEF Safe

LEMMA SafeLinkInode == ASSUME Inv, LinkInode PROVE Safe'
<1> DEFINE c == Head(todo)
<1>1. mounted /\ todo # <<>> /\ todo' = <<>> /\ UNCHANGED process
  BY WorkFor DEF LinkInode, Finish
<1>2. UnmountedIsQuiet' /\ Working'
  BY <1>1, CallEnds DEF process
<1>3. c.dir \in Addr
  BY Doings, StepOf DEF LinkInode, Inv
<1>4. \/ UNCHANGED disk
      \/ \E i \in 1 .. Slots : disk' = [disk EXCEPT ![c.dir].ptr[i] = c.blk]
  BY DEF LinkInode
<1> HIDE DEF c
<1>5. ASSUME NEW i \in 1 .. Slots, disk' = [disk EXCEPT ![c.dir].ptr[i] = c.blk]
      PROVE  SuperblockIntact'
  <2>1. disk' = [disk EXCEPT ![c.dir] = [disk[c.dir] EXCEPT !.ptr[i] = c.blk]]
    BY <1>5
  <2>2. disk[c.dir] \in Sized
    BY <1>3 DEF Inv, TypeOK
  <2> DEFINE blk == [disk[c.dir] EXCEPT !.ptr[i] = c.blk]
  <2>3. blk.type = disk[c.dir].type /\ blk.kind = disk[c.dir].kind
    BY <2>2 DEF Sized, Block
  <2> HIDE DEF blk
  <2> QED BY <1>3, <2>1, <2>3, WriteFields DEF blk
<1> QED BY <1>2, <1>4, <1>5, NoWrite DEF Safe

LEMMA FreedSuper ==
  ASSUME Inv, NEW b \in Addr, b # 0, disk' = Freed(b) PROVE SuperblockIntact'
  BY WriteElsewhere DEF Freed

LEMMA SafeFreeBlockBody == ASSUME Inv, TypeOK', FreeBlockBody PROVE Safe'
<1> DEFINE b == Head(todo).blk
           s == FreeHead(b)
           T == {s}
<1>1. /\ mounted /\ todo \in Seq(Other) /\ todo # <<>>
      /\ Head(todo).op = "freeBody"
  BY WorkFor DEF FreeBlockBody
<1>2. disk' = Freed(b) /\ Resume(<<s>>) /\ UNCHANGED process
  BY DEF FreeBlockBody
<1>3. Head(todo) \in Other
  BY <1>1, HeadAndTail
<1>4. b # 0 /\ b \in Addr
  BY <1>1, <1>3, StepOf DEF Other
<1>5. T \cap Steps \subseteq Other
  BY DEF FreeHead, Other
<1>6. <<s>> \in Seq(T)
  OBVIOUS
<1> HIDE DEF T, s, b
<1>7. UnmountedIsQuiet' /\ Working'
  BY <1>1, <1>2, <1>5, <1>6, SafeWork DEF process
<1> QED BY <1>2, <1>4, <1>7, FreedSuper DEF Safe

(* Work of either kind frees blocks. *)
LEMMA SafeEither ==
  ASSUME Inv, TypeOK', mounted, todo \in Seq(Writing) \cup Seq(Other), todo # <<>>,
         NEW T, T \cap Steps \subseteq Writing, T \cap Steps \subseteq Other,
         NEW steps \in Seq(T), Resume(steps), UNCHANGED process
  PROVE  UnmountedIsQuiet' /\ Working'
<1>1. CASE todo \in Seq(Other)
  BY <1>1, SafeWork DEF process
<1>2. CASE todo \in Seq(Writing)
  <2>1. todo' \in Seq(Writing)
    BY <1>2, ResumeWithin, WorkSets DEF TypeOK
  <2> QED BY <2>1, WritingGoesOn
<1> QED BY <1>1, <1>2

LEMMA SafeFreeBlockHead == ASSUME Inv, TypeOK', FreeBlockHead PROVE Safe'
<1> DEFINE b == Head(todo).blk
<1>1. mounted /\ todo \in Seq(Writing) \cup Seq(Other) /\ todo # <<>>
  BY WorkFor DEF FreeBlockHead
<1>2. /\ disk' = [disk EXCEPT ![SUPERBLOCK_DISKLOC].next = b]
      /\ Resume(<<>>) /\ UNCHANGED process
  BY DEF FreeBlockHead
<1> HIDE DEF b
<1>3. <<>> \in Seq({}) /\ {} \cap Steps \subseteq Writing
      /\ {} \cap Steps \subseteq Other
  OBVIOUS
<1>4. UnmountedIsQuiet' /\ Working'
  BY <1>1, <1>2, <1>3, SafeEither
<1>5. SuperblockIntact'
  BY <1>2 DEF Inv, TypeOK, SuperblockIntact, SUPERBLOCK_DISKLOC
<1> QED BY <1>4, <1>5 DEF Safe

LEMMA SafeReleaseBlocks == ASSUME Inv, TypeOK', ReleaseBlocks PROVE Safe'
<1> DEFINE ptr == Head(todo).ptr
           i == Head(todo).at
           s1 == FreeHead(ptr[i])
           s2 == Release(ptr, i + 1)
           T == {s1, s2}
<1>1. mounted /\ todo \in Seq(Writing) \cup Seq(Other) /\ todo # <<>>
  BY WorkFor DEF ReleaseBlocks
<1>2. /\ UNCHANGED process
      /\ \/ Resume(<<>>) /\ UNCHANGED disk
         \/ /\ i \in 1 .. Slots /\ ptr[i] # 0
            /\ disk' = Freed(ptr[i])
            /\ Resume(<<s1, s2>>)
  BY DEF ReleaseBlocks, NoBlock
<1>3. ptr \in Ptrs
  BY Doings, StepOf DEF ReleaseBlocks, Inv
<1>4. T \cap Steps \subseteq Writing /\ T \cap Steps \subseteq Other
  BY DEF FreeHead, Release, Writing, Other
<1> HIDE DEF ptr, i
<1>5. <<>> \in Seq(T) /\ <<s1, s2>> \in Seq(T)
  <2> HIDE DEF s1, s2
  <2> QED OBVIOUS
<1> HIDE DEF T, s1, s2
<1>6. UnmountedIsQuiet' /\ Working'
  BY <1>1, <1>2, <1>4, <1>5, SafeEither
<1>7. SuperblockIntact'
  <2>1. CASE UNCHANGED disk
    BY <2>1, NoWrite
  <2>2. CASE i \in 1 .. Slots /\ ptr[i] # 0 /\ disk' = Freed(ptr[i])
    <3>1. ptr[i] \in Addr
      BY <1>3, <2>2 DEF Ptrs
    <3> QED BY <2>2, <3>1, FreedSuper
  <2> QED BY <1>2, <2>1, <2>2
<1> QED BY <1>6, <1>7 DEF Safe

LEMMA SafeUnlinkFile == ASSUME Inv, TypeOK', UnlinkFile PROVE Safe'
<1> DEFINE dir == Head(todo).dir
<1>1. mounted /\ todo \in Seq(Other) /\ todo # <<>>
  BY WorkFor DEF UnlinkFile
<1>2. dir \in Addr
  BY Doings, StepOf DEF UnlinkFile, Inv
<1>3. CASE /\ \/ \E i \in 1 .. Slots : disk' = [disk EXCEPT ![dir].ptr[i] = 0]
              \/ UNCHANGED disk
           /\ Resume(<<>>) /\ UNCHANGED mounted
  <2> HIDE DEF dir
  <2>1. <<>> \in Seq({}) /\ {} \cap Steps \subseteq Other
    OBVIOUS
  <2>2. UnmountedIsQuiet' /\ Working'
    BY <1>1, <1>3, <2>1, SafeWork
  <2>3. ASSUME NEW i \in 1 .. Slots, disk' = [disk EXCEPT ![dir].ptr[i] = 0]
        PROVE  SuperblockIntact'
    <3> DEFINE blk == [disk[dir] EXCEPT !.ptr[i] = 0]
    <3>1. disk' = [disk EXCEPT ![dir] = blk]
      BY <2>3
    <3>2. disk[dir] \in Sized
      BY <1>2 DEF Inv, TypeOK
    <3>3. blk.type = disk[dir].type /\ blk.kind = disk[dir].kind
      BY <3>2 DEF Sized, Block
    <3> HIDE DEF blk
    <3> QED BY <1>2, <3>1, <3>3, WriteFields
  <2> QED BY <1>3, <2>2, <2>3, NoWrite DEF Safe
<1>4. CASE Die
  BY <1>4, SafeDie
<1> QED BY <1>3, <1>4 DEF UnlinkFile

LEMMA SafeUnlinkDirectory == ASSUME Inv, TypeOK', UnlinkDirectory PROVE Safe'
<1>1. mounted /\ todo \in Seq(Other) /\ todo # <<>>
  BY WorkFor DEF UnlinkDirectory
<1>2. Resume(<<>>) /\ UNCHANGED process
  BY DEF UnlinkDirectory
<1>3. <<>> \in Seq({}) /\ {} \cap Steps \subseteq Other
  OBVIOUS
<1>4. UnmountedIsQuiet' /\ Working'
  BY <1>1, <1>2, <1>3, SafeWork DEF process
<1>5. Head(todo).dir \in Addr
  BY Doings, StepOf DEF UnlinkDirectory, Inv
<1>6. SuperblockIntact'
  BY <1>5 DEF UnlinkDirectory, Inv, TypeOK, SuperblockIntact, SUPERBLOCK_DISKLOC
<1> QED BY <1>4, <1>6 DEF Safe

LEMMA SafeScanNext == ASSUME Inv, TypeOK', ScanNext PROVE Safe'
<1> DEFINE s == Head(todo)
           walk(call, path) == Walk(call, path, 1, SUPERBLOCK_DISKLOC)
           then(i) == Rewrite(s.path, s.dir, s.copy, i)
           path(n) == Append(s.path, disk[n].name)
<1>1. /\ mounted /\ todo \in Seq(Other) /\ todo # <<>> /\ s.op = "scan"
      /\ UNCHANGED <<disk, process>>
  <2>1. Doing("scan") /\ UNCHANGED <<disk, process>>
    BY DEF ScanNext
  <2> QED BY <2>1, WorkFor
<1>2. s.dir = 0 => IsSuper(s.copy)
  <2>1. s \in Other
    BY <1>1, HeadAndTail
  <2> QED BY <1>1, <2>1 DEF Other
<1>3. \/ Resume(<<>>) \/ Resume(<<walk("removeDir", s.path)>>)
      \/ \E i \in 1 .. Slots :
           LET n == s.copy.ptr[i]
           IN  /\ n # 0
               /\ \/ Resume(RemoveInode(n, s.dir) \o <<then(i)>>)
                  \/ Resume(<<walk("removeAll", path(n))>> \o <<then(i)>>)
                  \/ Resume(<<then(i)>>)
  BY DEF ScanNext, First, Entries
<1> HIDE DEF s
<1>4. \A call, p : {walk(call, p)} \cap Steps \subseteq Other
  BY DEF Walk, Other
<1>5. \A i : {then(i)} \cap Steps \subseteq Other
  BY <1>2 DEF Rewrite, Other
<1>6. CASE Resume(<<>>)
  <2>1. <<>> \in Seq({}) /\ {} \cap Steps \subseteq Other
    OBVIOUS
  <2> QED BY <1>1, <1>6, <2>1, SafeQuiet
<1> HIDE DEF walk, then, path
<1>7. CASE Resume(<<walk("removeDir", s.path)>>)
  <2> DEFINE T == {walk("removeDir", s.path)}
  <2>1. T \cap Steps \subseteq Other
    BY <1>4
  <2>2. <<walk("removeDir", s.path)>> \in Seq(T)
    OBVIOUS
  <2> HIDE DEF T
  <2> QED BY <1>1, <1>7, <2>1, <2>2, SafeQuiet
<1>8. ASSUME NEW i \in 1 .. Slots, NEW n, n # 0,
             \/ Resume(RemoveInode(n, s.dir) \o <<then(i)>>)
             \/ Resume(<<walk("removeAll", path(n))>> \o <<then(i)>>)
             \/ Resume(<<then(i)>>)
      PROVE  Safe'
  <2> DEFINE w == walk("removeAll", path(n))
             s1 == Release(disk[n].ptr, 1)
             s2 == FreeBody(n)
             s3 == Unlink(n, s.dir)
             r == then(i)
             T == {w, s1, s2, s3, r}
  <2>1. {s1, s2, s3} \cap Steps \subseteq Other
    BY <1>8 DEF Release, FreeBody, Unlink, Other
  <2>2. {w} \cap Steps \subseteq Other /\ {r} \cap Steps \subseteq Other
    BY <1>4, <1>5
  <2> HIDE DEF w, s1, s2, s3, r
  <2>3. T \cap Steps \subseteq Other
    BY <2>1, <2>2
  <2>4. <<s1, s2, s3>> \in Seq(T) /\ <<w>> \in Seq(T) /\ <<r>> \in Seq(T)
    OBVIOUS
  <2> HIDE DEF T
  <2>5. <<s1, s2, s3>> \o <<r>> \in Seq(T) /\ <<w>> \o <<r>> \in Seq(T)
    BY <2>4, Concatenation
  <2>6. \E steps \in Seq(T) : Resume(steps)
    BY <1>8, <2>4, <2>5 DEF RemoveInode, w, s1, s2, s3, r
  <2> QED BY <1>1, <2>3, <2>6, SafeQuiet
<1> QED BY <1>3, <1>6, <1>7, <1>8

(* The copy goes back where it came from: a superblock to block 0. *)
LEMMA SafeRewriteDir == ASSUME Inv, TypeOK', RewriteDir PROVE Safe'
<1> DEFINE s == Head(todo)
           copy == [s.copy EXCEPT !.ptr[s.at] = 0]
           scan == Scan(s.path, s.dir, copy, s.at + 1)
           T == {scan}
<1>1. /\ mounted /\ todo \in Seq(Other) /\ todo # <<>> /\ s.op = "rewrite"
  BY WorkFor DEF RewriteDir
<1>2. /\ disk' = [disk EXCEPT ![s.dir] = copy]
      /\ Resume(<<scan>>) /\ UNCHANGED process
  BY DEF RewriteDir
<1>3. s.dir \in Addr /\ s.copy \in Sized
  BY ScanFacts DEF RewriteDir, Inv
<1>4. s.dir = 0 => IsSuper(s.copy)
  <2>1. s \in Other
    BY <1>1, HeadAndTail
  <2> QED BY <1>1, <2>1 DEF Other
<1> HIDE DEF s
<1>5. s.dir = 0 => IsSuper(copy)
  <2>1. copy.type = s.copy.type /\ copy.kind = s.copy.kind
    BY <1>3 DEF Sized, Block
  <2> QED BY <1>4, <2>1 DEF IsSuper
<1> HIDE DEF copy
<1>6. T \cap Steps \subseteq Other
  BY <1>5 DEF Scan, Other
<1>7. <<scan>> \in Seq(T)
  OBVIOUS
<1> HIDE DEF T, scan
<1>8. UnmountedIsQuiet' /\ Working'
  BY <1>1, <1>2, <1>6, <1>7, SafeWork DEF process
<1>9. SuperblockIntact'
  BY <1>2, <1>3, <1>5, WriteElsewhere
<1> QED BY <1>8, <1>9 DEF Safe

(* A call on an open file that returns at once. *)
LEMMA SafeAtOnce ==
  ASSUME Inv, Idle, mounted, UNCHANGED <<todo, mounted>>
  PROVE  UnmountedIsQuiet' /\ Working'
  BY CallEnds DEF Idle

LEMMA SafeNotReady == ASSUME Inv, NEW fd, NotReady(fd) PROVE Safe'
  BY SafeRefuse DEF NotReady

LEMMA OpenBlock ==
  ASSUME Inv, NEW fd \in FDs
  PROVE  fd_table[fd] \in Addr /\ disk[fd_table[fd]] \in Sized
  BY OpenInode DEF Inv

LEMMA SafeCloseFile == ASSUME Inv, NEW fd \in FDs, CloseFile(fd) PROVE Safe'
<1>1. CASE Refuse(ERR_INVALID_FD)
  BY <1>1, SafeRefuse
<1>2. CASE /\ fd_table[fd] # 0
           /\ Return(TFS_SUCCESS)
           /\ UNCHANGED <<disk, mounted, fd_table_index>>
  <2>1. mounted
    BY <1>2 DEF Inv, UnmountedIsQuiet, NoFds
  <2>2. UnmountedIsQuiet' /\ Working'
    BY <1>2, <2>1, SafeAtOnce DEF Return
  <2> QED BY <1>2, <2>2, NoWrite DEF Safe
<1> QED BY <1>1, <1>2 DEF CloseFile

LEMMA SafeSeek == ASSUME Inv, NEW fd \in FDs, NEW offset, Seek(fd, offset) PROVE Safe'
<1>1. CASE NotReady(fd) \/ Refuse(ERR_INVALID_INPUT)
           \/ Refuse(ERR_FILE_PNTR_OUT_OF_BOUNDS)
  BY <1>1, SafeNotReady, SafeRefuse
<1>2. CASE /\ Ready(fd)
           /\ disk' = [disk EXCEPT ![fd_table[fd]].off = offset]
           /\ Return(TFS_SUCCESS)
           /\ UNCHANGED process
  <2> DEFINE blk == [disk[fd_table[fd]] EXCEPT !.off = offset]
  <2>1. blk.type = disk[fd_table[fd]].type /\ blk.kind = disk[fd_table[fd]].kind
    BY OpenBlock DEF Sized, Block
  <2>2. disk' = [disk EXCEPT ![fd_table[fd]] = blk]
    BY <1>2
  <2> HIDE DEF blk
  <2>3. SuperblockIntact'
    BY <2>1, <2>2, OpenBlock, WriteFields
  <2>4. UnmountedIsQuiet' /\ Working'
    BY <1>2, SafeAtOnce DEF Ready, Return, process
  <2> QED BY <2>3, <2>4 DEF Safe
<1> QED BY <1>1, <1>2 DEF Seek

LEMMA SafeReadByte == ASSUME Inv, NEW fd \in FDs, ReadByte(fd) PROVE Safe'
<1>1. CASE NotReady(fd) \/ Refuse(ERR_FILE_PNTR_OUT_OF_BOUNDS)
  BY <1>1, SafeNotReady, SafeRefuse
<1>2. CASE /\ Ready(fd)
           /\ disk' = [disk EXCEPT ![fd_table[fd]].off = disk[fd_table[fd]].off + 1]
           /\ Idle
           /\ UNCHANGED <<todo, process>>
  <2> DEFINE blk == [disk[fd_table[fd]] EXCEPT !.off = disk[fd_table[fd]].off + 1]
  <2>1. blk.type = disk[fd_table[fd]].type /\ blk.kind = disk[fd_table[fd]].kind
    BY OpenBlock DEF Sized, Block
  <2>2. disk' = [disk EXCEPT ![fd_table[fd]] = blk]
    BY <1>2
  <2> HIDE DEF blk
  <2>3. SuperblockIntact'
    BY <2>1, <2>2, OpenBlock, WriteFields
  <2>4. UnmountedIsQuiet' /\ Working'
    BY <1>2, SafeAtOnce DEF Ready, process
  <2> QED BY <2>3, <2>4 DEF Safe
<1> QED BY <1>1, <1>2 DEF ReadByte

LEMMA SafeRename == ASSUME Inv, NEW fd \in FDs, NEW name, Rename(fd, name) PROVE Safe'
<1>1. CASE NotReady(fd) \/ Refuse(ERR_INVALID_INPUT)
  BY <1>1, SafeNotReady, SafeRefuse
<1>2. CASE /\ Ready(fd)
           /\ disk' = [disk EXCEPT ![fd_table[fd]].name = name]
           /\ Return(TFS_SUCCESS)
           /\ UNCHANGED process
  <2> DEFINE blk == [disk[fd_table[fd]] EXCEPT !.name = name]
  <2>1. blk.type = disk[fd_table[fd]].type /\ blk.kind = disk[fd_table[fd]].kind
    BY OpenBlock DEF Sized, Block
  <2>2. disk' = [disk EXCEPT ![fd_table[fd]] = blk]
    BY <1>2
  <2> HIDE DEF blk
  <2>3. SuperblockIntact'
    BY <2>1, <2>2, OpenBlock, WriteFields
  <2>4. UnmountedIsQuiet' /\ Working'
    BY <1>2, SafeAtOnce DEF Ready, Return, process
  <2> QED BY <2>3, <2>4 DEF Safe
<1> QED BY <1>1, <1>2 DEF Rename

LEMMA SafeDeleteFile == ASSUME Inv, TypeOK', NEW fd \in FDs, DeleteFile(fd) PROVE Safe'
<1>1. CASE NotReady(fd) \/ Refuse(ERR_BAD_DISK)
  BY <1>1, SafeNotReady, SafeRefuse
<1>2. CASE /\ Ready(fd)
           /\ \E parent \in Addr : Begin(RemoveInode(fd_table[fd], parent))
           /\ UNCHANGED <<disk, process>>
  <2>1. PICK parent \in Addr : Begin(RemoveInode(fd_table[fd], parent))
    BY <1>2
  <2> DEFINE n == fd_table[fd]
             s1 == Release(disk[n].ptr, 1)
             s2 == FreeBody(n)
             s3 == Unlink(n, parent)
             T == {s1, s2, s3}
  <2>2. T \cap Steps \subseteq Other
    BY <1>2 DEF Ready, Release, FreeBody, Unlink, Other
  <2>3. <<s1, s2, s3>> \in Seq(T)
    <3> HIDE DEF s1, s2, s3
    <3> QED OBVIOUS
  <2>4. Begin(<<s1, s2, s3>>) /\ mounted
    BY <1>2, <2>1 DEF RemoveInode, Ready
  <2> HIDE DEF T, s1, s2, s3
  <2> QED BY <1>2, <2>2, <2>3, <2>4, SafeBegin
<1> QED BY <1>1, <1>2 DEF DeleteFile

(* tfs_writeFile: the descriptor stays open while it works, since none of  *)
(* its handlers touches fd_table.                                          *)
LEMMA SafeWriteFile ==
  ASSUME Inv, TypeOK', NEW fd \in FDs, NEW tag, NEW size, WriteFile(fd, tag, size)
  PROVE  Safe'
<1> DEFINE inode == [disk[fd_table[fd]] EXCEPT !.size = size]
           s1 == Release(inode.ptr, 1)
           s2 == Grab(fd, tag, inode, 0)
           T == {s1, s2}
<1>1. CASE NotReady(fd)
  BY <1>1, SafeNotReady
<1>2. CASE Ready(fd) /\ Begin(<<s1, s2>>) /\ UNCHANGED <<disk, process>>
  <2>1. T \cap Steps \subseteq Writing
    BY <1>2 DEF Ready, Release, Grab, Writing
  <2> HIDE DEF s1, s2
  <2>2. todo' = <<s1, s2>> /\ todo' \in Seq(Steps)
    BY <1>2 DEF Begin, TypeOK
  <2>3. s1 \in Steps /\ s2 \in Steps
    BY <2>2
  <2>4. todo' \in Seq(Writing)
    BY <2>1, <2>2, <2>3
  <2>5. UnmountedIsQuiet' /\ Working'
    BY <1>2, <2>4, WritingGoesOn DEF Ready
  <2> QED BY <1>2, <2>5, NoWrite DEF Safe
<1> QED BY <1>1, <1>2 DEF WriteFile

LEMMA SafeWriting ==
  ASSUME Inv, TypeOK', mounted, todo \in Seq(Writing), todo # <<>>,
         NEW T, T \cap Steps \subseteq Writing, NEW steps \in Seq(T), Resume(steps),
         UNCHANGED process
  PROVE  UnmountedIsQuiet' /\ Working'
<1>1. todo' \in Seq(Writing)
  BY ResumeWithin, WorkSets DEF TypeOK
<1> QED BY <1>1, WritingGoesOn

LEMMA WritingFacts ==
  ASSUME Inv, NEW op \in {"grab", "fill", "point"}, Doing(op)
  PROVE  LET g == Head(todo) IN
         /\ mounted /\ todo \in Seq(Writing) /\ todo # <<>> /\ g.op = op
         /\ g.fd \in FDs /\ fd_table[g.fd] # 0 /\ fd_table[g.fd] \in Addr
         /\ disk[fd_table[g.fd]] \in Sized /\ g.inode \in Sized
         /\ op \in {"fill", "point"} => g.blk \in Addr
         /\ op = "fill" => g.blk # 0
<1> DEFINE g == Head(todo)
<1>1. mounted /\ todo \in Seq(Writing) /\ todo # <<>> /\ g.op = op
  BY WorkFor
<1>2. g \in Writing
  BY <1>1, HeadAndTail
<1>3. g \in Steps /\ fd_table[g.fd] # 0 /\ (op = "fill" => g.blk # 0)
  BY <1>1, <1>2 DEF Writing
<1>4. /\ g.fd \in FDs /\ g.inode \in Sized
      /\ op \in {"fill", "point"} => g.blk \in Addr
  BY <1>1, <1>3, StepOf
<1> QED BY <1>1, <1>3, <1>4, OpenBlock

LEMMA SafeGrabBlock == ASSUME Inv, TypeOK', GrabBlock PROVE Safe'
<1> DEFINE g == Head(todo)
           n == fd_table[g.fd]
           s == Fill(g.fd, g.tag, g.inode, g.at, FreePtr)
           T == {s}
<1>1. /\ mounted /\ todo \in Seq(Writing) /\ todo # <<>> /\ n # 0 /\ n \in Addr
      /\ disk[n] \in Sized
  BY WritingFacts DEF GrabBlock
<1>2. /\ UNCHANGED process
      /\ \/ FreePtr # 0 /\ disk' = Popped /\ Resume(<<s>>)
         \/ Finish(ERR_DISK_OUT_OF_SPACE) /\ UNCHANGED disk
         \/ disk' = [disk EXCEPT ![n].off = 0] /\ Resume(<<>>)
  BY DEF GrabBlock
<1>3. CASE FreePtr # 0 /\ disk' = Popped /\ Resume(<<s>>)
  <2>1. T \cap Steps \subseteq Writing
    BY <1>1, <1>3 DEF Fill, Writing
  <2>2. <<s>> \in Seq(T)
    OBVIOUS
  <2> HIDE DEF T, s
  <2>3. UnmountedIsQuiet' /\ Working'
    BY <1>1, <1>2, <1>3, <2>1, <2>2, SafeWriting
  <2> QED BY <1>3, <2>3, PoppedSuper DEF Safe
<1>4. CASE Finish(ERR_DISK_OUT_OF_SPACE) /\ UNCHANGED disk
  <2>1. UnmountedIsQuiet' /\ Working'
    BY <1>1, <1>2, <1>4, CallEnds DEF Finish, process
  <2> QED BY <1>4, <2>1, NoWrite DEF Safe
<1>5. CASE disk' = [disk EXCEPT ![n].off = 0] /\ Resume(<<>>)
  <2>1. <<>> \in Seq({}) /\ {} \cap Steps \subseteq Writing
    OBVIOUS
  <2>2. UnmountedIsQuiet' /\ Working'
    BY <1>1, <1>2, <1>5, <2>1, SafeWriting
  <2> HIDE DEF n
  <2> DEFINE blk == [disk[n] EXCEPT !.off = 0]
  <2>3. blk.type = disk[n].type /\ blk.kind = disk[n].kind
    BY <1>1 DEF Sized, Block
  <2>4. disk' = [disk EXCEPT ![n] = blk]
    BY <1>5
  <2> HIDE DEF blk
  <2>5. SuperblockIntact'
    BY <1>1, <2>3, <2>4, WriteFields
  <2> QED BY <2>2, <2>5 DEF Safe
<1> QED BY <1>2, <1>3, <1>4, <1>5

LEMMA SafeFillBlock == ASSUME Inv, TypeOK', FillBlock PROVE Safe'
<1> DEFINE g == Head(todo)
           s == Point(g.fd, g.tag, g.inode, g.at, g.blk)
           T == {s}
<1>1. /\ mounted /\ todo \in Seq(Writing) /\ todo # <<>> /\ fd_table[g.fd] # 0
      /\ g.blk \in Addr /\ g.blk # 0
  BY WritingFacts DEF FillBlock
<1>2. /\ UNCHANGED process /\ Resume(<<s>>)
      /\ \E blk : disk' = [disk EXCEPT ![g.blk] = blk]
  BY DEF FillBlock
<1>3. T \cap Steps \subseteq Writing
  BY <1>1 DEF Point, Writing
<1>4. <<s>> \in Seq(T)
  OBVIOUS
<1> HIDE DEF T, s, g
<1>5. UnmountedIsQuiet' /\ Working'
  BY <1>1, <1>2, <1>3, <1>4, SafeWriting
<1>6. SuperblockIntact'
  BY <1>1, <1>2, WriteElsewhere
<1> QED BY <1>5, <1>6 DEF Safe

LEMMA SafePointToBlock == ASSUME Inv, TypeOK', PointToBlock PROVE Safe'
<1> DEFINE g == Head(todo)
           inode == [g.inode EXCEPT !.ptr[g.at + 1] = g.blk]
           s == Grab(g.fd, g.tag, inode, g.at + 1)
           T == {s}
<1>1. /\ mounted /\ todo \in Seq(Writing) /\ todo # <<>> /\ fd_table[g.fd] # 0
      /\ fd_table[g.fd] \in Addr
  BY WritingFacts DEF PointToBlock
<1>2. /\ UNCHANGED process /\ Resume(<<s>>)
      /\ disk' = [disk EXCEPT ![fd_table[g.fd]] = inode]
  BY DEF PointToBlock
<1> HIDE DEF inode
<1>3. T \cap Steps \subseteq Writing
  BY <1>1 DEF Grab, Writing
<1>4. <<s>> \in Seq(T)
  OBVIOUS
<1> HIDE DEF T, s, g
<1>5. UnmountedIsQuiet' /\ Working'
  BY <1>1, <1>2, <1>3, <1>4, SafeWriting
<1>6. SuperblockIntact'
  BY <1>1, <1>2, WriteElsewhere
<1> QED BY <1>5, <1>6 DEF Safe

LEMMA SafeStep == ASSUME Inv, TypeOK', Step PROVE Safe'
  BY SafeFormat, SafeWalkRefuses, SafeWalkOn, SafeOpenFound, SafeDirFound,
     SafeNotFound, SafePopInode, SafeWriteInode, SafeLinkInode,
     SafeFreeBlockBody, SafeFreeBlockHead, SafeReleaseBlocks, SafeUnlinkFile,
     SafeUnlinkDirectory, SafeScanNext, SafeRewriteDir, SafeGrabBlock,
     SafeFillBlock, SafePointToBlock, SafeDie
  DEF Step, RecursionOverflows

LEMMA SafeCall == ASSUME Inv, TypeOK', Call PROVE Safe'
<1>1. CASE Mkfs \/ Mount \/ MountOverflows \/ Unmount \/ RemoveAllOfRoot
  BY <1>1, SafeMkfs, SafeMount, SafeRemoveAllOfRoot
<1>2. CASE \E path \in Paths :
             OpenFile(path) \/ CreateDir(path) \/ RemoveDir(path) \/ RemoveAll(path)
  BY <1>2, SafePathCall DEF OpenFile, CreateDir, RemoveDir, RemoveAll
<1>3. ASSUME NEW fd \in FDs,
             \/ CloseFile(fd) \/ DeleteFile(fd) \/ ReadByte(fd)
             \/ \E tag \in Tags, size \in Sizes : WriteFile(fd, tag, size)
             \/ \E offset \in Offsets : Seek(fd, offset)
             \/ \E name \in Names : Rename(fd, name)
      PROVE  Safe'
  BY <1>3, SafeCloseFile, SafeDeleteFile, SafeReadByte, SafeWriteFile, SafeSeek,
     SafeRename
<1> QED BY <1>1, <1>2, <1>3 DEF Call

LEMMA InvInit == Init => Inv
<1> SUFFICES ASSUME Init PROVE Inv
  OBVIOUS
<1>1. SuperblockIntact
  BY Results DEF Init, Formatted, FormatSuper, SuperBlk, Blank, SuperblockIntact,
                 SUPERBLOCK_DISKLOC
<1> QED BY <1>1, TypeInit DEF Init, Inv, UnmountedIsQuiet, Working, Idle

LEMMA InvNext == Inv /\ [Next]_vars => Inv'
<1> SUFFICES ASSUME Inv, [Next]_vars PROVE Inv'
  OBVIOUS
<1>1. TypeOK'
  BY TypeStep, TypeCall, Dying DEF Inv, Next, Crash, vars, TypeOK
<1>2. CASE Next
  BY <1>1, <1>2, SafeStep, SafeCall, SafeDie DEF Next, Crash, Inv, Safe
<1>3. CASE UNCHANGED vars
  <2>1. Writing' = Writing
    BY <1>3 DEF Writing, vars
  <2> QED BY <1>1, <1>3, <2>1
       DEF Inv, SuperblockIntact, UnmountedIsQuiet, Formatting, Working, Idle, vars
<1> QED BY <1>2, <1>3

LEMMA InvAlways == Spec => []Inv
  BY InvInit, InvNext, PTL DEF Spec

(* Whatever is called, in whatever order, with crashes between any two     *)
(* writes: block 0 stays the superblock (or the zeros of a tfs_mkfs under  *)
(* way), although every write takes its address from pointers,             *)
(* descriptors and copies read earlier.                                    *)
THEOREM SuperblockSurvives == Spec => []SuperblockIntact
<1>1. Inv => SuperblockIntact
  BY DEF Inv
<1> QED BY <1>1, InvAlways, PTL

(* Without a mounted disk no handler is at work that would use it, and no  *)
(* descriptor is open: tfs_closeFile, the one call on a descriptor that    *)
(* does not ask for a mounted disk, finds nothing to close.                *)
THEOREM NothingWithoutDisk == Spec => []UnmountedIsQuiet
<1>1. Inv => UnmountedIsQuiet
  BY DEF Inv
<1> QED BY <1>1, InvAlways, PTL

=============================================================================
