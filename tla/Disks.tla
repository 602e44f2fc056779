------------------------------- MODULE Disks -------------------------------
(***************************************************************************)
(* Disk images as files of the host (libDisk.c), and tfs_mkfs, tfs_mount   *)
(* and tfs_unmount over several of them.  tfs_mkfs makes one write per     *)
(* step; the check of tfs_mount makes one call, or one return, of          *)
(* _check_block_con per step.  NumBlocks is MAX_BLOCKS, and Slots the      *)
(* pointers the check looks at.  The host may write less than it is asked  *)
(* to, or fail to write or to open; it does not fail to read.              *)
(*                                                                         *)
(* FitsAnyway, StillMounted, LeftOpen, FrameAtSlots and AllButLast are     *)
(* mistakes the definition that follows each could have made; nothing uses *)
(* them.                                                                   *)
(***************************************************************************)
EXTENDS TinyFSLayout

CONSTANTS
  Files,        \* names of host files
  NoFile,
  Descriptors,  \* the host's descriptors that the library can get
  BLOCKSIZE,    \* bytes of a block
  ByteCounts,   \* sizes given to tfs_mkfs
  Foreign       \* images that were not made by tfs_mkfs

(* A file of the host: its whole blocks, and whether more bytes follow.    *)
Image == [there : BOOLEAN, whole : 0 .. NumBlocks, odd : BOOLEAN,
          blk : [Addr -> Block]]
Zeros(n, odd) ==
  [there |-> TRUE, whole |-> n, odd |-> odd, blk |-> [b \in Addr |-> Blank]]
Absent == [Zeros(0, FALSE) EXCEPT !.there = FALSE]

ASSUME DisksAssumption ==
  /\ NoFile \notin Files
  /\ Descriptors \subseteq Nat \ {0, 1, 2}
  /\ BLOCKSIZE \in Nat /\ BLOCKSIZE >= 1
  /\ ByteCounts \subseteq Int
  /\ Foreign \subseteq Image

VARIABLES
  image,    \* the files of the host
  held,     \* file open at each descriptor of the process, or NoFile
  mounted,  \* the mounted disk
  call,     \* the running call
  frames,   \* calls of _check_block_con that have not returned, first to last
  seen,     \* blocks_checked
  code      \* what the last call returned

vars == <<image, held, mounted, call, frames, seen, code>>

TFS_SUCCESS == 0
ERR_INVALID_INPUT == -1
SYS_ERR_OPEN == -3
SYS_ERR_WRITE == -4
ERR_DISK_FILE_NOT_FOUND == -10
ERR_INVALID_DISK_FD == -11
ERR_BAD_DISK == -20
ERR_NO_DISK_MOUNTED == -21
PENDING == -100  \* no value: the call is running, or died with the process

NoCall == [op |-> "none", fd |-> 0, n |-> 0, at |-> 0]
Unmounted == [name |-> NoFile, diskNum |-> 0]
AllClosed == [fd \in Descriptors |-> NoFile]

Idle == call = NoCall
Doing(op) == call.op = op
Here == held[call.fd]
Img == image[Here]
OnDisk(n) == 0 .. n - 1

Return(c) ==
  /\ call' = NoCall
  /\ frames' = <<>>
  /\ seen' = {}
  /\ code' = c
Refuse(c) == Return(c) /\ UNCHANGED <<image, held, mounted>>
Start(op, fd, n) ==
  /\ call' = [op |-> op, fd |-> fd, n |-> n, at |-> 1]
  /\ code' = PENDING
  /\ UNCHANGED <<frames, seen>>

(* The process dies, and the host closes its files.                        *)
Die ==
  /\ Return(PENDING)
  /\ held' = AllClosed
  /\ mounted' = Unmounted
  /\ UNCHANGED image

---------------------------------------------------------------------------
(* openDisk takes the descriptor the host gives, the lowest unused one.    *)
Lowest(fds, fd) ==
  /\ fds[fd] = NoFile
  /\ \A g \in Descriptors : fds[g] = NoFile => fd <= g
NoneLeft(fds) == \A fd \in Descriptors : fds[fd] # NoFile

Blocks(nBytes) == TruncDiv(nBytes, BLOCKSIZE)
FitsAnyway(nBytes) == nBytes >= BLOCKSIZE
Fits(nBytes) == nBytes >= BLOCKSIZE /\ Blocks(nBytes) <= NumBlocks

(* tfs_mkfs opens the file and empties it.  It never closes it.            *)
Mkfs(f, nBytes) ==
  /\ Idle
  /\ \/ ~ Fits(nBytes) /\ Refuse(ERR_INVALID_INPUT)
     \/ Fits(nBytes) /\ NoneLeft(held) /\ Refuse(SYS_ERR_OPEN)
     \/ /\ Fits(nBytes)
        /\ \E fd \in Descriptors :
             /\ Lowest(held, fd)
             /\ held' = [held EXCEPT ![fd] = f]
             /\ Start("zero", fd, Blocks(nBytes))
        /\ image' = [image EXCEPT ![f] = Zeros(0, FALSE)]
        /\ UNCHANGED mounted

(* One write of zeros; openDisk does not look at how many were written.    *)
ZeroDisk ==
  /\ Doing("zero")
  /\ UNCHANGED <<held, mounted>>
  /\ \/ Return(SYS_ERR_WRITE) /\ UNCHANGED image
     \/ /\ \E k \in 0 .. call.n, odd \in BOOLEAN :
             /\ k = call.n => ~ odd
             /\ k = 0 => odd
             /\ image' = [image EXCEPT ![Here] = Zeros(k, odd)]
        /\ call' = [call EXCEPT !.op = "format"]
        /\ UNCHANGED <<frames, seen, code>>

(* writeBlock: a block that begins beyond the end of the file is refused;  *)
(* one that ends beyond it makes the file longer, if the host has room.    *)
Inside(img, b) == b < img.whole \/ (b = img.whole /\ img.odd)
Written(img, b, blk) ==
  IF b < img.whole THEN [img EXCEPT !.blk[b] = blk]
  ELSE [img EXCEPT !.blk[b] = blk, !.whole = b + 1, !.odd = FALSE]

(* The block tfs_mkfs writes in step i of n, the superblock last.          *)
Target(n, i) == IF i < n THEN i ELSE SUPERBLOCK_DISKLOC
Content(n, i) ==
  IF i < n THEN FreeBlk(NextFree(n, i)) ELSE SuperBlk(FirstFree(n))

FormatNext ==
  LET b == Target(call.n, call.at)
  IN  /\ Doing("format")
      /\ UNCHANGED <<held, mounted>>
      /\ \/ ~ Inside(Img, b) /\ Return(ERR_INVALID_INPUT) /\ UNCHANGED image
         \/ Inside(Img, b) /\ Return(SYS_ERR_WRITE) /\ UNCHANGED image
         \/ /\ \/ /\ Inside(Img, b)
                  /\ image' = [image EXCEPT ![Here] =
                                 Written(@, b, Content(call.n, call.at))]
               \/ b = Img.whole /\ Img.odd /\ UNCHANGED image
            /\ \/ call.at = call.n /\ Return(TFS_SUCCESS)
               \/ /\ call.at < call.n
                  /\ call' = [call EXCEPT !.at = @ + 1]
                  /\ UNCHANGED <<frames, seen, code>>

---------------------------------------------------------------------------
(* tfs_unmount, alone and as the first thing tfs_mount does.               *)
StillMounted == mounted
AfterUnmount == Unmounted
LeftOpen == held
Closed ==
  [fd \in Descriptors |-> IF fd = mounted.diskNum THEN NoFile ELSE held[fd]]

Unmount ==
  /\ Idle
  /\ \/ mounted = Unmounted /\ Refuse(ERR_NO_DISK_MOUNTED)
     \/ /\ mounted # Unmounted
        /\ held' = Closed
        /\ mounted' = AfterUnmount
        /\ Return(IF held[mounted.diskNum] # NoFile THEN TFS_SUCCESS
                  ELSE ERR_INVALID_DISK_FD)
        /\ UNCHANGED image

Mount(f) ==
  /\ Idle
  /\ mounted' = AfterUnmount
  /\ \/ /\ ~ image[f].there
        /\ held' = Closed
        /\ Return(ERR_DISK_FILE_NOT_FOUND)
     \/ /\ image[f].there
        /\ NoneLeft(Closed)
        /\ held' = Closed
        /\ Return(SYS_ERR_OPEN)
     \/ /\ image[f].there
        /\ \E fd \in Descriptors :
             /\ Lowest(Closed, fd)
             /\ held' = [Closed EXCEPT ![fd] = f]
             /\ Start("check", fd, image[f].whole)
  /\ UNCHANGED image

(* A refused mount keeps the descriptor of the image.                      *)
Rejected == Refuse(ERR_BAD_DISK)

FrameAtSlots(b, as) == [blk |-> b, as |-> as, at |-> 1]
Frame(b, as) == [blk |-> b, as |-> as, at |-> 0]

(***************************************************************************)
(* A call of _check_block_con for the block at address a, the callers      *)
(* being stack.  It marks the block first: outside the image that writes   *)
(* in front of blocks_checked or behind it, and the block cannot be read.  *)
(* More calls than blocks have come back to a block that is being checked, *)
(* and will again until the stack is exhausted.                            *)
(***************************************************************************)
Enter(stack, a, as) ==
  LET b == SignedChar(a)
  IN  \/ b \notin OnDisk(call.n) /\ (Rejected \/ Die)
      \/ /\ b \in OnDisk(call.n)
         /\ ~ HeaderOK(Img.blk[b], as)
         /\ Rejected
      \/ /\ b \in OnDisk(call.n)
         /\ HeaderOK(Img.blk[b], as)
         /\ \/ Len(stack) >= call.n /\ Die
            \/ /\ Len(stack) < call.n
               /\ frames' = Append(stack, Frame(b, as))
               /\ seen' = seen \cup {b}
               /\ UNCHANGED <<image, held, mounted, call, code>>

Starting == Doing("check") /\ frames = <<>> /\ seen = {}
CheckStart ==
  /\ Starting
  /\ \/ Img.odd /\ Rejected
     \/ ~ Img.odd /\ Enter(<<>>, SUPERBLOCK_DISKLOC, "SUPERBLOCK")

Top == frames[Len(frames)]
Checking == Doing("check") /\ frames # <<>>
Ahead ==
  {i \in 0 .. Slots :
     i >= Top.at /\ Ref(Img.blk[Top.blk], Top.as, i) # 0}

CheckNext ==
  /\ Checking
  /\ \E i \in Ahead :
       /\ \A j \in Ahead : i <= j
       /\ Enter([frames EXCEPT ![Len(frames)].at = i + 1],
                Ref(Img.blk[Top.blk], Top.as, i), RefAs(Img.blk[Top.blk], i))

(* A file's size is compared after its data blocks.                        *)
CheckReturn ==
  /\ Checking
  /\ Ahead = {}
  /\ \/ ~ SizeOK(Img.blk[Top.blk], Top.as) /\ Rejected
     \/ /\ SizeOK(Img.blk[Top.blk], Top.as)
        /\ frames' = [k \in 1 .. Len(frames) - 1 |-> frames[k]]
        /\ UNCHANGED <<image, held, mounted, call, seen, code>>

AllButLast(n) == \A b \in 0 .. n - 2 : b \in seen
AllSeen(n) == \A b \in OnDisk(n) : b \in seen

CheckEnd ==
  /\ Doing("check")
  /\ frames = <<>>
  /\ seen # {}
  /\ \/ ~ AllSeen(call.n) /\ Rejected
     \/ /\ AllSeen(call.n)
        /\ mounted' = [name |-> Here, diskNum |-> call.fd]
        /\ Return(TFS_SUCCESS)
        /\ UNCHANGED <<image, held>>

Crash == Die

---------------------------------------------------------------------------
Init ==
  /\ image \in [Files -> Foreign \cup {Absent}]
  /\ held = AllClosed
  /\ mounted = Unmounted
  /\ call = NoCall
  /\ frames = <<>>
  /\ seen = {}
  /\ code = PENDING

Next ==
  \/ \E f \in Files : Mount(f) \/ \E nBytes \in ByteCounts : Mkfs(f, nBytes)
  \/ Unmount \/ ZeroDisk \/ FormatNext
  \/ CheckStart \/ CheckNext \/ CheckReturn \/ CheckEnd
  \/ Crash

Spec == Init /\ [][Next]_vars

---------------------------------------------------------------------------
(* The images tfs_mkfs is asked for, and the ones a mount may trust. *)

Fresh(n) ==
  [Zeros(n, FALSE) EXCEPT !.blk =
     [b \in Addr |-> IF b = SUPERBLOCK_DISKLOC THEN SuperBlk(FirstFree(n))
                     ELSE IF b < n THEN FreeBlk(NextFree(n, b)) ELSE Blank]]

(* The reference i of block x leads to a block of the kind it says.        *)
Leads(img, x, i) ==
  LET blk == img.blk[x]
      r   == Ref(blk, blk.type, i)
  IN  r # 0 => r \in OnDisk(img.whole) /\ img.blk[r].type = RefAs(blk, i)

Reached(img, b) ==
  \E x \in OnDisk(img.whole), i \in 0 .. Slots :
    Ref(img.blk[x], img.blk[x].type, i) = b

Sound(img) ==
  /\ ~ img.odd /\ img.whole > 0
  /\ img.blk[SUPERBLOCK_DISKLOC].type = "SUPERBLOCK"
  /\ \A b \in OnDisk(img.whole) :
       /\ HeaderOK(img.blk[b], img.blk[b].type)
       /\ SizeOK(img.blk[b], img.blk[b].type)
       /\ \A i \in 0 .. Slots : Leads(img, b, i)
       /\ b # SUPERBLOCK_DISKLOC => Reached(img, b)

---------------------------------------------------------------------------
(* Images stay images, descriptors lead to files, and the recursion of the *)
(* check stays on the image.                                               *)
TypeOK ==
  /\ image \in [Files -> Image]
  /\ held \in [Descriptors -> Files \cup {NoFile}]
  /\ mounted \in [name : Files, diskNum : Descriptors] \cup {Unmounted}
  /\ \/ call = NoCall
     \/ call \in [op : {"zero", "format", "check"}, fd : Descriptors,
                  n : 0 .. NumBlocks, at : 1 .. NumBlocks]
  /\ frames \in Seq([blk : Addr, as : BlockTypes, at : 0 .. Slots + 1])
  /\ seen \subseteq Addr
  /\ code \in Int

(* The mounted disk is read and written through a descriptor that is still *)
(* open, and on the file that was mounted, whatever was formatted, mounted *)
(* or refused since.                                                       *)
MountedIsHeld == mounted # Unmounted => held[mounted.diskNum] = mounted.name

Mounts == mounted' # mounted /\ mounted' # Unmounted

(* _check_block_con and the marks together: in an image that is mounted    *)
(* every block is what each reference to it takes it for, every reference  *)
(* leads to a block of the image, no block is out of reach, and a file has *)
(* as many blocks as its size says.                                        *)
AcceptedIsSound == [][Mounts => Sound(image[mounted'.name])]_vars

(* tfs_mkfs writes the superblock last: an image it did not finish, since  *)
(* the process died, the host failed or wrote less than it was asked to,   *)
(* is never mounted.                                                       *)
OnlyFinishedImages ==
  [][Mounts => image[mounted'.name] \in
                 Foreign \cup {Fresh(n) : n \in 1 .. NumBlocks}]_vars

(* An image that tfs_mkfs finished is mounted if and only if its addresses *)
(* fit a signed byte: tfs_mkfs accepts twice as many blocks.               *)
FreshMounts ==
  [][Doing("check") /\ call.n > 0 /\ Img = Fresh(call.n) /\ code' # PENDING =>
       (code' = TFS_SUCCESS <=> call.n <= ByteRange \div 2)]_vars

(* The recursion, with its order of calls, is the function MountCheck of   *)
(* the image, which stands for it in the modules of the file system.       *)
AddressesFit(img) ==
  /\ img.whole \in 1 .. ByteRange \div 2
  /\ \A b \in OnDisk(img.whole) :
       img.blk[b].next < img.whole
         /\ \A i \in 1 .. Slots : img.blk[b].ptr[i] < img.whole
CheckIsMountCheck ==
  [][Doing("check") /\ ~ Img.odd /\ AddressesFit(Img) /\ code' # PENDING =>
       code' = [ok |-> TFS_SUCCESS, bad |-> ERR_BAD_DISK, overflow |-> PENDING]
                 [MountCheck([b \in OnDisk(Img.whole) |-> Img.blk[b]])]]_vars

(* Which descriptors nobody will close: no call that succeeds leaves one   *)
(* but tfs_mkfs, and none is left but the one the call opened.             *)
Strays ==
  {fd \in Descriptors : held[fd] # NoFile} \ {mounted.diskNum, call.fd}
OnlyMkfsAndRefusalsLeak ==
  [][\A fd \in Strays' \ Strays :
       /\ fd = call.fd
       /\ Doing("check") => code' = ERR_BAD_DISK]_vars

=============================================================================
