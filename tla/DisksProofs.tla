---------------------------- MODULE DisksProofs ----------------------------
(***************************************************************************)
(* What holds of disk images, mounts and formats, for every set of host    *)
(* files and descriptors, every size and every image of other origin.      *)
(***************************************************************************)
EXTENDS Disks, TLAPS

Half == ByteRange \div 2

LEMMA Bounds ==
  /\ ByteRange \in Nat /\ ByteRange >= 2
  /\ NumBlocks \in Nat /\ NumBlocks >= 1 /\ NumBlocks <= ByteRange
  /\ Slots \in Nat
  /\ BLOCKSIZE \in Nat /\ BLOCKSIZE >= 1
  /\ NoFile \notin Files
  /\ Descriptors \subseteq Nat \ {0, 1, 2}
  /\ ByteCounts \subseteq Int
  /\ Foreign \subseteq Image
  BY LayoutAssumption, DisksAssumption

USE Bounds

(* A call has a file open, and checks nothing unless it is a mount.        *)
Ready ==
  /\ ~ Idle => held[call.fd] \in Files /\ code = PENDING
  /\ ~ Doing("check") => frames = <<>> /\ seen = {}
  /\ Doing("check") => mounted = Unmounted

(* The reference i of block b has been followed to a block that fits.      *)
Followed(img, S, b, i) ==
  LET r == Ref(img.blk[b], img.blk[b].type, i)
  IN  r # 0 => r \in S /\ img.blk[r].type = RefAs(img.blk[b], i)
Complete(img, S, b) ==
  /\ SizeOK(img.blk[b], img.blk[b].type)
  /\ \A i \in 0 .. Slots : Followed(img, S, b, i)

Rooted(img, S) ==
  /\ ~ img.odd
  /\ SUPERBLOCK_DISKLOC \in S
  /\ img.blk[SUPERBLOCK_DISKLOC].type = "SUPERBLOCK"
Marked(img, S, b) ==
  /\ b \in OnDisk(img.whole) /\ b < Half
  /\ HeaderOK(img.blk[b], img.blk[b].type)
  /\ b # SUPERBLOCK_DISKLOC => Reached(img, b)
Framed(img, S, f) ==
  /\ f.blk \in S
  /\ f.as = img.blk[f.blk].type
  /\ \A i \in 0 .. Slots : i < f.at => Followed(img, S, f.blk, i)
OnStack(stack, b) == \E k \in 1 .. Len(stack) : stack[k].blk = b

(* What the check has found so far of the image.                           *)
Progress(img, stack, S) ==
  /\ S # {} => Rooted(img, S)
  /\ S = {} => stack = <<>>
  /\ \A b \in S : Marked(img, S, b)
  /\ \A k \in 1 .. Len(stack) : Framed(img, S, stack[k])
  /\ \A b \in S : OnStack(stack, b) \/ Complete(img, S, b)

IInv ==
  /\ TypeOK
  /\ MountedIsHeld
  /\ Ready
  /\ Doing("check") => call.n = Img.whole /\ Progress(Img, frames, seen)

---------------------------------------------------------------------------
(* Blocks and images. *)

LEMMA Reference ==
  ASSUME NEW blk \in Block, NEW as, NEW i \in 0 .. Slots
  PROVE  Ref(blk, as, i) \in Addr /\ RefAs(blk, i) \in BlockTypes
<1>1. blk.next \in Addr /\ blk.ptr \in [1 .. Slots -> Addr] /\ 0 \in Addr
  BY DEF Block, Addr
<1>2. i # 0 => blk.ptr[i] \in Addr
  BY <1>1
<1>3. Ref(blk, as, i) \in Addr
  BY <1>1, <1>2 DEF Ref
<1>4. RefAs(blk, i) \in BlockTypes
  BY DEF RefAs, BlockTypes
<1> QED BY <1>3, <1>4

LEMMA BlankIsBlock == Blank \in Block
  BY DEF Blank, Block, BlockTypes, Kinds, Addr, NoData, Payload

LEMMA NewBlocks ==
  ASSUME NEW n \in Addr
  PROVE  FreeBlk(n) \in Block /\ SuperBlk(n) \in Block
  BY BlankIsBlock DEF FreeBlk, SuperBlk, Block, BlockTypes

LEMMA ZerosAreImage ==
  ASSUME NEW n \in 0 .. NumBlocks, NEW odd \in BOOLEAN
  PROVE  Zeros(n, odd) \in Image
  BY BlankIsBlock DEF Zeros, Image

LEMMA NoBytes == Zeros(0, FALSE) \in Image
<1>1. 0 \in 0 .. NumBlocks /\ FALSE \in BOOLEAN
  OBVIOUS
<1> QED BY <1>1, ZerosAreImage

LEMMA ContentIsBlock ==
  ASSUME NEW n \in 0 .. NumBlocks, NEW i \in 1 .. NumBlocks
  PROVE  Content(n, i) \in Block
<1>1. FirstFree(n) \in Addr /\ (i < n => NextFree(n, i) \in Addr)
  BY DEF FirstFree, NextFree, Addr
<1> QED BY <1>1, NewBlocks DEF Content

LEMMA WrittenIsImage ==
  ASSUME NEW img \in Image, NEW b \in Addr, Inside(img, b), NEW blk \in Block
  PROVE  Written(img, b, blk) \in Image
<1>1. [img.blk EXCEPT ![b] = blk] \in [Addr -> Block]
  BY DEF Image
<1>2. CASE b < img.whole
  BY <1>1, <1>2 DEF Written, Image
<1>3. CASE ~ (b < img.whole)
  <2>1. b = img.whole /\ b + 1 \in 0 .. NumBlocks
    BY <1>3 DEF Inside, Addr
  <2> QED BY <1>1, <1>3, <2>1 DEF Written, Image
<1> QED BY <1>2, <1>3

LEMMA Signed ==
  ASSUME NEW a \in Addr, NEW n \in 0 .. NumBlocks, SignedChar(a) \in OnDisk(n)
  PROVE  SignedChar(a) = a /\ a < Half /\ a \in OnDisk(n)
  BY DEF SignedChar, OnDisk, Addr, Half

---------------------------------------------------------------------------
(* The recursion of the check: a call, a return, and what it has found.    *)

FrameSet == [blk : Addr, as : BlockTypes, at : 0 .. Slots + 1]
AheadOf(img, f) ==
  {i \in 0 .. Slots : i >= f.at /\ Ref(img.blk[f.blk], f.as, i) # 0}
Pushed(stack, i, b, as) ==
  Append([stack EXCEPT ![Len(stack)].at = i + 1], Frame(b, as))

LEMMA AppendKeeps ==
  ASSUME NEW S, NEW s \in Seq(S), NEW e \in S
  PROVE  Append(s, e) \in Seq(S)
  OBVIOUS

LEMMA FollowedGrows ==
  ASSUME NEW img, NEW S, NEW T, S \subseteq T, NEW b, NEW i, Followed(img, S, b, i)
  PROVE  Followed(img, T, b, i)
  BY DEF Followed

LEMMA FirstCall ==
  ASSUME NEW img \in Image, ~ img.odd, SUPERBLOCK_DISKLOC \in OnDisk(img.whole),
         HeaderOK(img.blk[SUPERBLOCK_DISKLOC], "SUPERBLOCK")
  PROVE  Progress(img, <<Frame(SUPERBLOCK_DISKLOC, "SUPERBLOCK")>>,
                  {SUPERBLOCK_DISKLOC})
<1> DEFINE f == Frame(SUPERBLOCK_DISKLOC, "SUPERBLOCK")
           S == {SUPERBLOCK_DISKLOC}
<1>1. img.blk[SUPERBLOCK_DISKLOC].type = "SUPERBLOCK"
  BY DEF HeaderOK
<1>2. Rooted(img, S)
  BY <1>1 DEF Rooted
<1>3. Marked(img, S, SUPERBLOCK_DISKLOC)
  BY <1>1 DEF Marked, Half, SUPERBLOCK_DISKLOC
<1>4. Framed(img, S, f)
  BY <1>1 DEF Framed, Frame
<1>5. Len(<<f>>) = 1 /\ <<f>>[1] = f /\ f.blk = SUPERBLOCK_DISKLOC
  BY DEF Frame
<1>6. OnStack(<<f>>, SUPERBLOCK_DISKLOC)
  BY <1>5 DEF OnStack
<1> QED BY <1>2, <1>3, <1>4, <1>5, <1>6 DEF Progress

LEMMA NextCall ==
  ASSUME NEW img \in Image, NEW stack \in Seq(FrameSet), stack # <<>>,
         NEW S \in SUBSET Addr, Progress(img, stack, S),
         NEW i \in AheadOf(img, stack[Len(stack)]),
         \A j \in AheadOf(img, stack[Len(stack)]) : i <= j,
         NEW b, b = Ref(img.blk[stack[Len(stack)].blk], stack[Len(stack)].as, i),
         b \in OnDisk(img.whole), b < Half,
         HeaderOK(img.blk[b], RefAs(img.blk[stack[Len(stack)].blk], i))
  PROVE  Progress(img,
                  Pushed(stack, i, b, RefAs(img.blk[stack[Len(stack)].blk], i)),
                  S \cup {b})
<1> DEFINE n == Len(stack)
           top == stack[n]
           as == RefAs(img.blk[top.blk], i)
           new == Pushed(stack, i, b, as)
           T == S \cup {b}
<1>0. n \in Nat /\ n >= 1 /\ top \in FrameSet /\ i \in 0 .. Slots
      /\ \A k \in 1 .. n : stack[k] \in FrameSet
  BY DEF AheadOf
<1>1. /\ Len(new) = n + 1
      /\ new[n + 1] = Frame(b, as)
      /\ new[n] = [top EXCEPT !.at = i + 1]
      /\ \A k \in 1 .. n - 1 : new[k] = stack[k]
  BY <1>0 DEF Pushed
<1>1a. new[n].blk = top.blk /\ new[n].as = top.as /\ new[n].at = i + 1
  BY <1>0, <1>1 DEF FrameSet
<1> HIDE DEF new, n, as
<1>1b. Frame(b, as).blk = b /\ Frame(b, as).as = as /\ Frame(b, as).at = 0
  BY DEF Frame
<1>1c. ASSUME NEW k \in 1 .. n PROVE new[k].blk = stack[k].blk
  <2>1. CASE k = n
    BY <1>1a, <2>1
  <2>2. CASE k # n
    BY <1>0, <1>1, <2>2
  <2> QED BY <2>1, <2>2
<1> HIDE DEF top
<1>2. S # {} /\ Rooted(img, S) /\ top.blk \in S /\ Framed(img, S, top)
  <2>1. Framed(img, S, top)
    BY <1>0 DEF Progress, n, top
  <2> QED BY <2>1 DEF Progress, Framed
<1>3. img.blk[b].type = as /\ HeaderOK(img.blk[b], as)
  BY DEF HeaderOK, as, top, n
<1>4. Followed(img, T, top.blk, i)
  BY <1>2, <1>3 DEF Followed, Framed, as, top, n
<1>5. Rooted(img, T)
  BY <1>2 DEF Rooted
<1>6. ASSUME NEW x \in T PROVE Marked(img, T, x)
  <2>1. CASE x \in S
    BY <2>1 DEF Progress, Marked
  <2>2. CASE x = b
    <3>1. top.blk \in OnDisk(img.whole)
      BY <1>2 DEF Progress, Marked
    <3>2. Reached(img, b)
      BY <1>0, <1>2, <3>1 DEF Reached, Framed, top, n
    <3> QED BY <2>2, <1>3, <3>2 DEF Marked
  <2> QED BY <2>1, <2>2
<1>7. ASSUME NEW k \in 1 .. Len(new) PROVE Framed(img, T, new[k])
  <2>1. CASE k = n + 1
    <3>1. b \in T /\ \A j \in 0 .. Slots : ~ (j < 0)
      OBVIOUS
    <3>2. Framed(img, T, Frame(b, as))
      BY <1>1b, <1>3, <3>1 DEF Framed
    <3> QED BY <1>1, <2>1, <3>2
  <2>2. CASE k = n
    <3>2. ASSUME NEW j \in 0 .. Slots, j < i + 1 PROVE Followed(img, T, top.blk, j)
      <4>1. CASE j = i
        BY <1>4, <4>1
      <4>2. CASE j # i /\ j >= top.at
        <5>1. j \notin AheadOf(img, top)
          BY <1>0, <3>2, <4>2 DEF top, n
        <5>2. Ref(img.blk[top.blk], img.blk[top.blk].type, j) = 0
          BY <1>2, <4>2, <5>1 DEF AheadOf, Framed
        <5> QED BY <5>2 DEF Followed
      <4>3. CASE j < top.at
        BY <1>2, <4>3, FollowedGrows DEF Framed
      <4> QED BY <1>0, <4>1, <4>2, <4>3 DEF FrameSet
    <3> QED BY <1>1a, <1>2, <2>2, <3>2 DEF Framed
  <2>3. CASE k \in 1 .. n - 1
    <3>1. Framed(img, S, stack[k])
      BY <1>0, <2>3 DEF Progress, n
    <3> QED BY <1>1, <2>3, <3>1, FollowedGrows DEF Framed
  <2> QED BY <1>0, <1>1, <2>1, <2>2, <2>3
<1>8. ASSUME NEW x \in T PROVE OnStack(new, x) \/ Complete(img, T, x)
  <2>1. CASE x = b
    <3>1. n + 1 \in 1 .. Len(new) /\ new[n + 1].blk = b
      BY <1>0, <1>1, <1>1b
    <3> QED BY <2>1, <3>1 DEF OnStack
  <2>2. CASE x \in S /\ Complete(img, S, x)
    BY <2>2, FollowedGrows DEF Complete
  <2>3. CASE x \in S /\ OnStack(stack, x)
    <3>1. PICK k \in 1 .. n : stack[k].blk = x
      BY <2>3 DEF OnStack, n
    <3> QED BY <1>0, <1>1, <1>1c, <3>1 DEF OnStack
  <2> QED BY <2>1, <2>2, <2>3 DEF Progress
<1> QED BY <1>2, <1>5, <1>6, <1>7, <1>8 DEF Progress, new, as, top, n

LEMMA LastReturn ==
  ASSUME NEW img \in Image, NEW stack \in Seq(FrameSet), stack # <<>>,
         NEW S \in SUBSET Addr, Progress(img, stack, S),
         AheadOf(img, stack[Len(stack)]) = {},
         SizeOK(img.blk[stack[Len(stack)].blk], stack[Len(stack)].as)
  PROVE  Progress(img, [k \in 1 .. Len(stack) - 1 |-> stack[k]], S)
<1> DEFINE n == Len(stack)
           top == stack[n]
           new == [k \in 1 .. n - 1 |-> stack[k]]
<1>0. n \in Nat /\ n >= 1 /\ top \in FrameSet
  OBVIOUS
<1>1. new \in Seq(FrameSet) /\ Len(new) = n - 1 /\ \A k \in 1 .. n - 1 : new[k] = stack[k]
  BY <1>0
<1>2. S # {} /\ Framed(img, S, top)
  <2>1. Framed(img, S, top)
    BY <1>0 DEF Progress
  <2> QED BY <2>1 DEF Framed
<1>3. ASSUME NEW j \in 0 .. Slots PROVE Followed(img, S, top.blk, j)
  <2>1. CASE j < top.at
    BY <1>2, <2>1 DEF Framed
  <2>2. CASE j >= top.at
    BY <1>2, <2>2 DEF AheadOf, Framed, Followed
  <2> QED BY <1>0, <2>1, <2>2 DEF FrameSet
<1>4. Complete(img, S, top.blk)
  BY <1>2, <1>3 DEF Complete, Framed
<1>5. ASSUME NEW x \in S PROVE OnStack(new, x) \/ Complete(img, S, x)
  <2>1. CASE OnStack(stack, x) /\ x # top.blk
    <3>1. PICK k \in 1 .. n : stack[k].blk = x
      BY <2>1 DEF OnStack
    <3>2. k \in 1 .. n - 1
      BY <1>0, <2>1, <3>1
    <3> QED BY <1>1, <3>1, <3>2 DEF OnStack
  <2> QED BY <1>4, <2>1 DEF Progress
<1>6. \A k \in 1 .. Len(new) : Framed(img, S, new[k])
  BY <1>0, <1>1 DEF Progress
<1> QED BY <1>2, <1>5, <1>6 DEF Progress

---------------------------------------------------------------------------
(* Every step keeps the invariant. *)

LEMMA RefuseKeeps ==
  ASSUME IInv, NEW c \in Int, Refuse(c)
  PROVE  IInv'
<1>1. TypeOK'
  BY DEF IInv, TypeOK, Refuse, Return
<1>2. MountedIsHeld' /\ Ready'
  BY DEF IInv, MountedIsHeld, Ready, Refuse, Return, Idle, Doing, NoCall
<1>3. ~ Doing("check")'
  BY DEF Refuse, Return, Doing, NoCall
<1> QED BY <1>1, <1>2, <1>3 DEF IInv

LEMMA DieKeeps ==
  ASSUME IInv, Die
  PROVE  IInv'
<1>1. TypeOK'
  BY DEF IInv, TypeOK, Die, Return, AllClosed, PENDING
<1>2. MountedIsHeld' /\ Ready'
  BY DEF IInv, MountedIsHeld, Ready, Die, Return, Idle, Doing, NoCall
<1>3. ~ Doing("check")'
  BY DEF Die, Return, Doing, NoCall
<1> QED BY <1>1, <1>2, <1>3 DEF IInv

(* What a call reads: an open file of the host. *)
LEMMA Open ==
  ASSUME IInv, ~ Idle
  PROVE  /\ call.fd \in Descriptors /\ Here \in Files /\ Img \in Image
         /\ call.n \in 0 .. NumBlocks /\ call.at \in 1 .. NumBlocks
         /\ code = PENDING
  BY DEF IInv, TypeOK, Ready, Here, Img, Idle

LEMMA Busy ==
  ASSUME NEW op \in {"zero", "format", "check"}, Doing(op)
  PROVE  ~ Idle
  BY DEF Doing, Idle, NoCall

LEMMA StartKeeps ==
  ASSUME IInv, Idle, NEW op \in {"zero", "check"}, NEW fd \in Descriptors,
         NEW n \in 0 .. NumBlocks, Start(op, fd, n),
         image' \in [Files -> Image],
         held' \in [Descriptors -> Files \cup {NoFile}], held'[fd] \in Files,
         mounted' \in [name : Files, diskNum : Descriptors] \cup {Unmounted},
         MountedIsHeld',
         op = "check" => image'[held'[fd]].whole = n /\ mounted' = Unmounted
  PROVE  IInv'
<1>1. frames = <<>> /\ seen = {}
  BY DEF IInv, Ready, Idle, Doing, NoCall
<1>2. /\ call' = [op |-> op, fd |-> fd, n |-> n, at |-> 1]
      /\ code' = PENDING /\ frames' = <<>> /\ seen' = {}
  BY <1>1 DEF Start
<1>3. TypeOK'
  <2>1. call' \in [op : {"zero", "format", "check"}, fd : Descriptors,
                   n : 0 .. NumBlocks, at : 1 .. NumBlocks]
    BY <1>2
  <2> QED BY <1>2, <2>1 DEF TypeOK, PENDING
<1>4. Ready'
  BY <1>2 DEF Ready, Doing
<1>5. Img'.whole = n \/ op # "check"
  BY <1>2 DEF Img, Here
<1>6. Doing("check")' => call'.n = Img'.whole /\ Progress(Img', frames', seen')
  BY <1>2, <1>5 DEF Doing, Progress
<1> QED BY <1>3, <1>4, <1>6 DEF IInv

LEMMA MkfsKeeps ==
  ASSUME IInv, NEW f \in Files, NEW nBytes \in ByteCounts, Mkfs(f, nBytes)
  PROVE  IInv'
<1>1. CASE Refuse(ERR_INVALID_INPUT) \/ Refuse(SYS_ERR_OPEN)
  BY <1>1, RefuseKeeps DEF ERR_INVALID_INPUT, SYS_ERR_OPEN
<1>2. ASSUME Fits(nBytes), NEW fd \in Descriptors, Lowest(held, fd),
             held' = [held EXCEPT ![fd] = f], Start("zero", fd, Blocks(nBytes)),
             image' = [image EXCEPT ![f] = Zeros(0, FALSE)], mounted' = mounted
      PROVE  IInv'
  <2>1. Blocks(nBytes) \in 0 .. NumBlocks
    BY <1>2 DEF Fits, Blocks, TruncDiv
  <2>2. image' \in [Files -> Image]
    <3>1. Zeros(0, FALSE) \in Image
      BY NoBytes
    <3> QED BY <1>2, <3>1 DEF IInv, TypeOK
  <2>3. held' \in [Descriptors -> Files \cup {NoFile}] /\ held'[fd] = f
    BY <1>2 DEF IInv, TypeOK
  <2>4. MountedIsHeld'
    BY <1>2 DEF IInv, TypeOK, MountedIsHeld, Lowest, Unmounted
  <2> QED BY <1>2, <2>1, <2>2, <2>3, <2>4, StartKeeps DEF Mkfs, IInv, TypeOK
<1> QED BY <1>1, <1>2 DEF Mkfs

LEMMA ZeroDiskKeeps ==
  ASSUME IInv, ZeroDisk
  PROVE  IInv'
<1>0. ~ Idle /\ ~ Doing("check")
  BY Busy DEF ZeroDisk, Doing
<1>1. CASE Return(SYS_ERR_WRITE) /\ UNCHANGED image
  BY <1>1, RefuseKeeps DEF ZeroDisk, Refuse, SYS_ERR_WRITE
<1>2. ASSUME NEW k \in 0 .. call.n, NEW odd \in BOOLEAN,
             image' = [image EXCEPT ![Here] = Zeros(k, odd)],
             call' = [call EXCEPT !.op = "format"],
             UNCHANGED <<frames, seen, code>>
      PROVE  IInv'
  <2>1. Zeros(k, odd) \in Image
    BY <1>0, <1>2, Open, ZerosAreImage
  <2>2. call' \in [op : {"zero", "format", "check"}, fd : Descriptors,
                   n : 0 .. NumBlocks, at : 1 .. NumBlocks]
        /\ call'.op = "format" /\ call'.fd = call.fd
    BY <1>0, <1>2 DEF IInv, TypeOK, Idle
  <2>3. TypeOK'
    BY <1>2, <2>1, <2>2 DEF ZeroDisk, IInv, TypeOK
  <2>4. MountedIsHeld'
    BY DEF ZeroDisk, IInv, MountedIsHeld
  <2>5. Ready' /\ ~ Doing("check")'
    BY <1>0, <1>2, <2>2 DEF ZeroDisk, IInv, Ready, Doing
  <2> QED BY <2>3, <2>4, <2>5 DEF IInv
<1> QED BY <1>1, <1>2 DEF ZeroDisk

LEMMA FormatNextKeeps ==
  ASSUME IInv, FormatNext
  PROVE  IInv'
<1> DEFINE b == Target(call.n, call.at)
<1>0. ~ Idle /\ ~ Doing("check")
  BY Busy DEF FormatNext, Doing
<1>1. CASE \/ Return(ERR_INVALID_INPUT) /\ UNCHANGED image
           \/ Return(SYS_ERR_WRITE) /\ UNCHANGED image
  BY <1>1, RefuseKeeps DEF FormatNext, Refuse, ERR_INVALID_INPUT, SYS_ERR_WRITE
<1>2. CASE /\ \/ /\ Inside(Img, b)
                 /\ image' = [image EXCEPT ![Here] =
                                Written(@, b, Content(call.n, call.at))]
              \/ b = Img.whole /\ Img.odd /\ UNCHANGED image
           /\ \/ call.at = call.n /\ Return(TFS_SUCCESS)
              \/ /\ call.at < call.n
                 /\ call' = [call EXCEPT !.at = @ + 1]
                 /\ UNCHANGED <<frames, seen, code>>
  <2>1. b \in Addr
    BY <1>0, Open DEF Target, Addr, SUPERBLOCK_DISKLOC
  <2>2. image' \in [Files -> Image]
    <3>1. CASE UNCHANGED image
      BY <3>1 DEF IInv, TypeOK
    <3>2. CASE /\ Inside(Img, b)
               /\ image' = [image EXCEPT ![Here] =
                              Written(@, b, Content(call.n, call.at))]
      <4>1. Written(Img, b, Content(call.n, call.at)) \in Image
        BY <1>0, <2>1, <3>2, Open, ContentIsBlock, WrittenIsImage
      <4> QED BY <3>2, <4>1 DEF Img, IInv, TypeOK
    <3> QED BY <1>2, <3>1, <3>2
  <2>3. MountedIsHeld'
    BY DEF FormatNext, IInv, MountedIsHeld
  <2>4. CASE Return(TFS_SUCCESS)
    BY <2>2, <2>3, <2>4 DEF FormatNext, IInv, TypeOK, Return, Ready, Idle, Doing,
         NoCall, TFS_SUCCESS
  <2>5. CASE /\ call.at < call.n
             /\ call' = [call EXCEPT !.at = @ + 1]
             /\ UNCHANGED <<frames, seen, code>>
    <3>1. call' \in [op : {"zero", "format", "check"}, fd : Descriptors,
                     n : 0 .. NumBlocks, at : 1 .. NumBlocks]
          /\ call'.op = call.op /\ call'.fd = call.fd
      <4>1. call \in [op : {"zero", "format", "check"}, fd : Descriptors,
                      n : 0 .. NumBlocks, at : 1 .. NumBlocks]
        BY <1>0 DEF IInv, TypeOK, Idle
      <4>2. call.at + 1 \in 1 .. NumBlocks
        BY <2>5, <4>1
      <4> QED BY <2>5, <4>1, <4>2
    <3>2. TypeOK'
      BY <2>2, <2>5, <3>1 DEF FormatNext, IInv, TypeOK
    <3>3. Ready' /\ ~ Doing("check")'
      BY <1>0, <2>5, <3>1 DEF FormatNext, IInv, Ready, Doing
    <3> QED BY <2>3, <3>2, <3>3 DEF IInv
  <2> QED BY <1>2, <2>4, <2>5
<1> QED BY <1>1, <1>2 DEF FormatNext

LEMMA ClosedHeld ==
  ASSUME IInv
  PROVE  Closed \in [Descriptors -> Files \cup {NoFile}]
  BY DEF IInv, TypeOK, Closed

LEMMA UnmountKeeps ==
  ASSUME IInv, Unmount
  PROVE  IInv'
<1>1. CASE Refuse(ERR_NO_DISK_MOUNTED)
  BY <1>1, RefuseKeeps DEF ERR_NO_DISK_MOUNTED
<1>2. CASE held' = Closed /\ mounted' = AfterUnmount /\ UNCHANGED image
           /\ Return(IF held[mounted.diskNum] # NoFile THEN TFS_SUCCESS
                     ELSE ERR_INVALID_DISK_FD)
  <2>1. TypeOK'
    BY <1>2, ClosedHeld DEF IInv, TypeOK, Return, AfterUnmount, TFS_SUCCESS,
         ERR_INVALID_DISK_FD
  <2> QED BY <1>2, <2>1 DEF IInv, MountedIsHeld, Ready, Return, AfterUnmount, Idle,
               Doing, NoCall
<1> QED BY <1>1, <1>2 DEF Unmount

LEMMA MountKeeps ==
  ASSUME IInv, NEW f \in Files, Mount(f)
  PROVE  IInv'
<1>0. MountedIsHeld' /\ mounted' = Unmounted /\ image' = image
  BY DEF Mount, MountedIsHeld, AfterUnmount
<1>1. ASSUME held' = Closed, NEW c \in {ERR_DISK_FILE_NOT_FOUND, SYS_ERR_OPEN},
             Return(c)
      PROVE  IInv'
  <2>0. c \in Int
    BY DEF ERR_DISK_FILE_NOT_FOUND, SYS_ERR_OPEN
  <2>1. TypeOK'
    BY <1>0, <1>1, <2>0, ClosedHeld DEF IInv, TypeOK, Return
  <2> QED BY <1>0, <1>1, <2>1 DEF IInv, Ready, Return, Idle, Doing, NoCall
<1>2. ASSUME NEW fd \in Descriptors, held' = [Closed EXCEPT ![fd] = f],
             Start("check", fd, image[f].whole)
      PROVE  IInv'
  <2>1. held' \in [Descriptors -> Files \cup {NoFile}] /\ held'[fd] = f
    BY <1>2, ClosedHeld
  <2>2. image[f].whole \in 0 .. NumBlocks
    BY DEF IInv, TypeOK, Image
  <2> QED BY <1>0, <1>2, <2>1, <2>2, StartKeeps DEF Mount, IInv, TypeOK
<1> QED BY <1>1, <1>2 DEF Mount

LEMMA EnterKeeps ==
  ASSUME IInv, Doing("check"), NEW stack \in Seq(FrameSet),
         NEW a \in Addr, NEW as \in BlockTypes, Enter(stack, a, as),
         /\ SignedChar(a) \in OnDisk(call.n)
         /\ HeaderOK(Img.blk[a], as)
         /\ SignedChar(a) = a
         /\ a < Half
         => Progress(Img, Append(stack, Frame(a, as)), seen \cup {a})
  PROVE  IInv'
<1>0. ~ Idle /\ call.n \in 0 .. NumBlocks /\ call.n = Img.whole
  BY Busy, Open DEF IInv
<1>1. CASE Rejected
  BY <1>1, RefuseKeeps DEF Rejected, ERR_BAD_DISK
<1>2. CASE Die
  BY <1>2, DieKeeps
<1>3. CASE /\ SignedChar(a) \in OnDisk(call.n)
           /\ HeaderOK(Img.blk[SignedChar(a)], as)
           /\ frames' = Append(stack, Frame(SignedChar(a), as))
           /\ seen' = seen \cup {SignedChar(a)}
           /\ UNCHANGED <<image, held, mounted, call, code>>
  <2>1. SignedChar(a) = a /\ a < Half
    BY <1>0, <1>3, Signed
  <2>2. Progress(Img, frames', seen')
    BY <1>3, <2>1
  <2>3. Frame(a, as) \in FrameSet /\ frames' \in Seq(FrameSet)
    <3>1. 0 \in 0 .. Slots + 1
      OBVIOUS
    <3>2. Frame(a, as) \in FrameSet
      BY <3>1 DEF Frame, FrameSet
    <3>3. frames' = Append(stack, Frame(a, as))
      BY <1>3, <2>1
    <3>4. Append(stack, Frame(a, as)) \in Seq(FrameSet)
      BY <3>2, AppendKeeps
    <3> QED BY <3>2, <3>3, <3>4
  <2>4. TypeOK'
    BY <1>3, <2>1, <2>3 DEF IInv, TypeOK, FrameSet
  <2>5. Img' = Img
    BY <1>3 DEF Img, Here
  <2>6. MountedIsHeld' /\ Ready'
    BY <1>0, <1>3 DEF IInv, MountedIsHeld, Ready, Idle, Doing
  <2> QED BY <1>0, <1>3, <2>2, <2>4, <2>5, <2>6 DEF IInv
<1> QED BY <1>1, <1>2, <1>3 DEF Enter

LEMMA CheckStartKeeps ==
  ASSUME IInv, CheckStart
  PROVE  IInv'
<1>0. ~ Idle /\ Img \in Image /\ call.n = Img.whole
      /\ Doing("check") /\ frames = <<>> /\ seen = {}
  BY Busy, Open DEF IInv, CheckStart, Starting
<1>1. CASE Rejected
  BY <1>1, RefuseKeeps DEF Rejected, ERR_BAD_DISK
<1>2. CASE ~ Img.odd /\ Enter(<<>>, SUPERBLOCK_DISKLOC, "SUPERBLOCK")
  <2>1. SUPERBLOCK_DISKLOC \in Addr /\ "SUPERBLOCK" \in BlockTypes
        /\ <<>> \in Seq(FrameSet)
    BY DEF SUPERBLOCK_DISKLOC, Addr, BlockTypes
  <2>2. ASSUME SignedChar(SUPERBLOCK_DISKLOC) \in OnDisk(call.n),
               SignedChar(SUPERBLOCK_DISKLOC) = SUPERBLOCK_DISKLOC,
               HeaderOK(Img.blk[SUPERBLOCK_DISKLOC], "SUPERBLOCK")
        PROVE  Progress(Img, Append(<<>>, Frame(SUPERBLOCK_DISKLOC, "SUPERBLOCK")),
                        seen \cup {SUPERBLOCK_DISKLOC})
    <3>1. Append(<<>>, Frame(SUPERBLOCK_DISKLOC, "SUPERBLOCK"))
            = <<Frame(SUPERBLOCK_DISKLOC, "SUPERBLOCK")>>
      OBVIOUS
    <3>2. SUPERBLOCK_DISKLOC \in OnDisk(Img.whole)
      BY <1>0, <2>2
    <3>3. seen \cup {SUPERBLOCK_DISKLOC} = {SUPERBLOCK_DISKLOC}
      BY <1>0
    <3> QED BY <1>0, <1>2, <2>2, <3>1, <3>2, <3>3, FirstCall
  <2> QED BY <1>0, <1>2, <2>1, <2>2, EnterKeeps
<1> QED BY <1>1, <1>2 DEF CheckStart

(* The innermost call, and what it has ahead of it. *)
LEMMA TopFrame ==
  ASSUME IInv, Checking
  PROVE  /\ frames \in Seq(FrameSet) /\ frames # <<>>
         /\ Top \in FrameSet /\ Top = frames[Len(frames)]
         /\ Ahead = AheadOf(Img, Top)
         /\ Progress(Img, frames, seen) /\ seen \in SUBSET Addr
         /\ Img \in Image /\ call.n = Img.whole /\ Doing("check")
<1>1. frames \in Seq(FrameSet) /\ frames # <<>>
  BY DEF IInv, TypeOK, FrameSet, Checking
<1>2. Top \in FrameSet /\ Top = frames[Len(frames)]
  BY <1>1 DEF Top
<1>3. Ahead = AheadOf(Img, Top)
  BY DEF Ahead, AheadOf
<1>4. Doing("check") /\ Img \in Image
  BY Busy, Open DEF Checking
<1> QED BY <1>1, <1>2, <1>3, <1>4 DEF IInv, TypeOK

LEMMA CheckNextKeeps ==
  ASSUME IInv, CheckNext
  PROVE  IInv'
<1> DEFINE a(i) == Ref(Img.blk[Top.blk], Top.as, i)
           as(i) == RefAs(Img.blk[Top.blk], i)
           stack(i) == [frames EXCEPT ![Len(frames)].at = i + 1]
<1>1. PICK i \in Ahead :
        (\A j \in Ahead : i <= j) /\ Enter(stack(i), a(i), as(i))
  BY DEF CheckNext
<1>2. Checking
  BY DEF CheckNext
<1>3. i \in 0 .. Slots /\ Img.blk[Top.blk] \in Block
  BY <1>2, TopFrame DEF Ahead, FrameSet, Image
<1>4. a(i) \in Addr /\ as(i) \in BlockTypes
  BY <1>3, Reference
<1>5. stack(i) \in Seq(FrameSet)
  <2>0. i + 1 \in 0 .. Slots + 1
    BY <1>3
  <2>1. [Top EXCEPT !.at = i + 1] \in FrameSet
    BY <1>2, <2>0, TopFrame DEF FrameSet
  <2> QED BY <1>2, <2>1, TopFrame
<1>6. ASSUME SignedChar(a(i)) \in OnDisk(call.n), SignedChar(a(i)) = a(i),
             HeaderOK(Img.blk[a(i)], as(i)), a(i) < Half
      PROVE  Progress(Img, Append(stack(i), Frame(a(i), as(i))), seen \cup {a(i)})
  <2>1. a(i) \in OnDisk(Img.whole)
    BY <1>2, <1>6, TopFrame
  <2> QED BY <1>1, <1>2, <1>6, <2>1, TopFrame, NextCall DEF Pushed
<1> HIDE DEF a, as, stack
<1> QED BY <1>1, <1>2, <1>4, <1>5, <1>6, TopFrame, EnterKeeps

LEMMA CheckReturnKeeps ==
  ASSUME IInv, CheckReturn
  PROVE  IInv'
<1>0. Checking
  BY DEF CheckReturn
<1>1. CASE Rejected
  BY <1>1, RefuseKeeps DEF Rejected, ERR_BAD_DISK
<1>2. CASE /\ SizeOK(Img.blk[Top.blk], Top.as)
           /\ frames' = [k \in 1 .. Len(frames) - 1 |-> frames[k]]
           /\ UNCHANGED <<image, held, mounted, call, seen, code>>
  <2>1. Progress(Img, frames', seen)
    BY <1>0, <1>2, TopFrame, LastReturn DEF CheckReturn
  <2>2. frames' \in Seq(FrameSet)
    BY <1>0, <1>2, TopFrame
  <2>3. TypeOK'
    BY <1>2, <2>2 DEF IInv, TypeOK, FrameSet
  <2>4. Img' = Img
    BY <1>2 DEF Img, Here
  <2>5. MountedIsHeld' /\ Ready'
    BY <1>0, <1>2 DEF IInv, MountedIsHeld, Ready, Idle, Doing, Checking
  <2> QED BY <1>0, <1>2, <2>1, <2>3, <2>4, <2>5, TopFrame DEF IInv
<1> QED BY <1>1, <1>2 DEF CheckReturn

LEMMA CheckEndKeeps ==
  ASSUME IInv, CheckEnd
  PROVE  IInv'
<1>0. ~ Idle
  BY Busy DEF CheckEnd
<1>1. CASE Rejected
  BY <1>1, RefuseKeeps DEF Rejected, ERR_BAD_DISK
<1>2. CASE /\ mounted' = [name |-> Here, diskNum |-> call.fd]
           /\ Return(TFS_SUCCESS)
           /\ UNCHANGED <<image, held>>
  <2>1. mounted' \in [name : Files, diskNum : Descriptors]
    BY <1>0, <1>2, Open
  <2>2. TypeOK'
    BY <1>2, <2>1 DEF IInv, TypeOK, Return, TFS_SUCCESS
  <2>3. MountedIsHeld'
    BY <1>2 DEF MountedIsHeld, Here
  <2> QED BY <1>2, <2>2, <2>3 DEF IInv, Ready, Return, Idle, Doing, NoCall
<1> QED BY <1>1, <1>2 DEF CheckEnd

LEMMA InitIInv == Init => IInv
<1> SUFFICES ASSUME Init PROVE IInv
  OBVIOUS
<1>1. Absent \in Image
  <2>1. Zeros(0, FALSE) \in Image
    BY NoBytes
  <2> QED BY <2>1 DEF Absent, Image
<1>2. image \in [Files -> Image]
  BY <1>1 DEF Init
<1>3. TypeOK
  BY <1>2 DEF Init, TypeOK, AllClosed, PENDING
<1> QED BY <1>3 DEF Init, IInv, MountedIsHeld, Ready, Idle, Doing, NoCall

LEMMA NextIInv == IInv /\ [Next]_vars => IInv'
<1> SUFFICES ASSUME IInv, [Next]_vars PROVE IInv'
  OBVIOUS
<1>1. CASE UNCHANGED vars
  BY <1>1 DEF vars, IInv, TypeOK, MountedIsHeld, Ready, Idle, Doing, Img, Here
<1>2. CASE Next
  <2>1. ASSUME NEW f \in Files, Mount(f) \/ \E nBytes \in ByteCounts : Mkfs(f, nBytes)
        PROVE  IInv'
    BY <2>1, MountKeeps, MkfsKeeps
  <2> QED BY <1>2, <2>1, UnmountKeeps, ZeroDiskKeeps, FormatNextKeeps,
               CheckStartKeeps, CheckNextKeeps, CheckReturnKeeps, CheckEndKeeps,
               DieKeeps DEF Next, Crash
<1> QED BY <1>1, <1>2

LEMMA AlwaysIInv == Spec => []IInv
  BY InitIInv, NextIInv, PTL DEF Spec

---------------------------------------------------------------------------
(* Images stay images, and the recursion of the check stays on the image.  *)
THEOREM TypesHold == Spec => []TypeOK
  BY AlwaysIInv, PTL DEF IInv

(* The mounted disk keeps its descriptor, open on the file that was        *)
(* mounted, whatever tfs_mkfs and refused mounts do to other descriptors.  *)
THEOREM MountedStaysOpen == Spec => []MountedIsHeld
  BY AlwaysIInv, PTL DEF IInv

LEMMA MountsAtEnd ==
  ASSUME IInv, Next, Mounts
  PROVE  /\ CheckEnd /\ AllSeen(call.n) /\ mounted'.name = Here
         /\ code' = TFS_SUCCESS
<1>1. CASE CheckEnd
  BY <1>1 DEF CheckEnd, Rejected, Refuse, Return, Mounts
<1>2. CASE Unmount \/ (\E f \in Files : Mount(f)) \/ Crash
  BY <1>2 DEF Unmount, Mount, Crash, Die, Refuse, Mounts, AfterUnmount
<1>3. CASE ZeroDisk \/ FormatNext
           \/ \E f \in Files, nBytes \in ByteCounts : Mkfs(f, nBytes)
  BY <1>3 DEF ZeroDisk, FormatNext, Mkfs, Refuse, Mounts
<1>4. CASE CheckStart \/ CheckNext \/ CheckReturn
  BY <1>4 DEF CheckStart, CheckNext, CheckReturn, Enter, Rejected, Refuse, Die,
     Mounts
<1> QED BY <1>1, <1>2, <1>3, <1>4 DEF Next

(* What the check has found when it has returned. *)
LEMMA AllComplete ==
  ASSUME IInv, CheckEnd, AllSeen(call.n)
  PROVE  Sound(Img) /\ \A b \in OnDisk(Img.whole) : b < Half
<1>0. Doing("check") /\ frames = <<>> /\ seen # {}
  BY DEF CheckEnd
<1>1. Progress(Img, frames, seen) /\ call.n = Img.whole /\ call.n \in 0 .. NumBlocks
  BY <1>0, Busy, Open DEF IInv
<1>2. Rooted(Img, seen) /\ \A b \in seen : Marked(Img, seen, b)
  BY <1>0, <1>1 DEF Progress
<1>3. seen = OnDisk(Img.whole)
  BY <1>1, <1>2 DEF AllSeen, Marked
<1>4. \A b \in seen : Complete(Img, seen, b)
  BY <1>0, <1>1 DEF Progress, OnStack
<1>5. ASSUME NEW b \in OnDisk(Img.whole), NEW i \in 0 .. Slots PROVE Leads(Img, b, i)
  <2>1. Followed(Img, seen, b, i)
    BY <1>3, <1>4 DEF Complete
  <2> QED BY <1>3, <2>1 DEF Leads, Followed
<1>6. Img.whole > 0
  BY <1>1, <1>2, <1>3 DEF Rooted, OnDisk, SUPERBLOCK_DISKLOC
<1> QED BY <1>2, <1>3, <1>4, <1>5, <1>6 DEF Sound, Rooted, Marked, Complete

(* An image is mounted only if every block of it is what the references to *)
(* it say, every reference stays on it, and no block is out of reach.      *)
THEOREM AcceptedSound == Spec => AcceptedIsSound
<1>1. ASSUME IInv, [Next]_vars
      PROVE  [Mounts => Sound(image[mounted'.name])]_vars
  <2> SUFFICES ASSUME Next, Mounts PROVE Sound(image[mounted'.name])
    BY <1>1
  <2> QED BY <1>1, MountsAtEnd, AllComplete DEF Img
<1> QED BY <1>1, AlwaysIInv, PTL DEF Spec, AcceptedIsSound

---------------------------------------------------------------------------
LEMMA LeakStep ==
  ASSUME IInv, Next, NEW fd \in Strays', fd \notin Strays
  PROVE  fd = call.fd /\ (Doing("check") => code' = ERR_BAD_DISK)
<1> USE DEF Strays, IInv, TypeOK, Ready
<1>1. ASSUME NEW f \in Files, NEW nBytes \in ByteCounts, Mkfs(f, nBytes)
      PROVE  FALSE
  <2>1. fd \in Descriptors /\ fd # 0 /\ held'[fd] # NoFile
        /\ fd # mounted'.diskNum /\ fd # call'.fd /\ call.fd = 0
        /\ mounted' = mounted
    BY <1>1, Bounds DEF Mkfs, Refuse, Idle, NoCall
  <2>2. CASE UNCHANGED held
    BY <2>1, <2>2
  <2>3. ASSUME NEW g \in Descriptors, held' = [held EXCEPT ![g] = f],
               Start("zero", g, Blocks(nBytes))
        PROVE  FALSE
    BY <2>1, <2>3 DEF Start
  <2> QED BY <1>1, <2>2, <2>3 DEF Mkfs, Refuse
<1>2. ASSUME NEW f \in Files, Mount(f)
      PROVE  FALSE
  <2>1. fd \in Descriptors /\ fd # 0 /\ Closed[fd] = NoFile
    BY <1>2 DEF Mount, Closed, Idle, NoCall
  <2>2. held'[fd] # NoFile /\ fd # call'.fd
    OBVIOUS
  <2>3. CASE held' = Closed
    BY <2>1, <2>2, <2>3
  <2>4. ASSUME NEW g \in Descriptors, held' = [Closed EXCEPT ![g] = f],
               Start("check", g, image[f].whole)
        PROVE  FALSE
    BY <2>1, <2>2, <2>4, ClosedHeld DEF Start
  <2> QED BY <1>2, <2>3, <2>4 DEF Mount
<1>3. CASE Unmount
  BY <1>3 DEF Unmount, Refuse, Return, Closed, Idle, NoCall
<1>4. CASE ZeroDisk \/ FormatNext
  BY <1>4 DEF ZeroDisk, FormatNext, Return, Doing
<1>5. CASE CheckStart \/ CheckNext \/ CheckReturn \/ CheckEnd
  <2>1. Doing("check") /\ ~ Idle /\ call.fd # 0 /\ mounted = Unmounted
    BY <1>5, Busy, Open DEF CheckStart, CheckNext, CheckReturn, CheckEnd, Starting, Checking,
         Doing
  <2>2. CASE Rejected
    BY <2>1, <2>2 DEF Rejected, Refuse, Return
  <2>3. CASE Die
    BY <2>3 DEF Die, AllClosed
  <2>4. CASE UNCHANGED <<held, mounted, call>>
    BY <2>4
  <2>5. CASE /\ mounted' = [name |-> Here, diskNum |-> call.fd]
             /\ UNCHANGED held
    BY <2>1, <2>5 DEF Unmounted
  <2> QED BY <1>5, <2>2, <2>3, <2>4, <2>5 DEF CheckStart, CheckNext, CheckReturn,
               CheckEnd, Enter
<1>6. CASE Crash
  BY <1>6 DEF Crash, Die, AllClosed
<1>7. CASE \E f \in Files : Mount(f) \/ \E nBytes \in ByteCounts : Mkfs(f, nBytes)
  BY <1>1, <1>2, <1>7
<1> HIDE DEF Strays, IInv, TypeOK, Ready
<1> QED BY <1>3, <1>4, <1>5, <1>6, <1>7 DEF Next

(* Descriptors of the host are lost one at a time, only at the end of a    *)
(* tfs_mkfs or of a mount that is refused; what a session opens it closes. *)
THEOREM LeaksBounded == Spec => OnlyMkfsAndRefusalsLeak
<1>1. ASSUME IInv, [Next]_vars
      PROVE  [\A fd \in Strays' \ Strays :
                 /\ fd = call.fd
                 /\ Doing("check") => code' = ERR_BAD_DISK]_vars
  BY <1>1, LeakStep
<1> QED BY <1>1, AlwaysIInv, PTL DEF Spec, OnlyMkfsAndRefusalsLeak

---------------------------------------------------------------------------
(* How far tfs_mkfs has come: the blocks it wrote in front of the one it   *)
(* is at, zeros otherwise, and none missing but at the end of the image.   *)
FormattedTo(img, n, at) ==
  /\ img.there /\ img.whole <= n /\ at <= n /\ at <= img.whole + 1
  /\ ~ img.odd => img.whole >= at
  /\ img.blk = [b \in Addr |-> IF b # SUPERBLOCK_DISKLOC /\ b < at /\ b < img.whole
                              THEN FreeBlk(NextFree(n, b)) ELSE Blank]

(* An image is of other origin, finished, or one that no mount accepts.    *)
Made(img) ==
  \/ img \in Foreign
  \/ \E n \in 1 .. NumBlocks : img = Fresh(n)
  \/ img.odd
  \/ img.blk[SUPERBLOCK_DISKLOC].type # "SUPERBLOCK"

Making ==
  /\ \A f \in Files : Made(image[f])
  /\ Doing("zero") => call.n >= 1 /\ call.at = 1
  /\ Doing("format") => FormattedTo(Img, call.n, call.at)

LEMMA ZerosMade ==
  ASSUME NEW n, NEW odd
  PROVE  Made(Zeros(n, odd))
  BY DEF Made, Zeros, Blank, SUPERBLOCK_DISKLOC, Addr

LEMMA BlocksDiffer ==
  /\ Blank.type # "SUPERBLOCK"
  /\ \A n : FreeBlk(n).type # "SUPERBLOCK"
  BY DEF FreeBlk, Blank

LEMMA FormattedMade ==
  ASSUME NEW img, NEW n, NEW at, FormattedTo(img, n, at)
  PROVE  Made(img)
<1>1. 0 \in Addr
  BY DEF Addr
<1>2. img.blk[SUPERBLOCK_DISKLOC] = Blank
  BY <1>1 DEF FormattedTo, SUPERBLOCK_DISKLOC
<1> QED BY <1>2, BlocksDiffer DEF Made

(* A block in front of the superblock. *)
LEMMA FormatsOn ==
  ASSUME NEW img \in Image, NEW n \in 1 .. NumBlocks, NEW at \in 1 .. NumBlocks,
         at < n, FormattedTo(img, n, at), Inside(img, at)
  PROVE  FormattedTo(Written(img, at, Content(n, at)), n, at + 1)
<1> DEFINE c == Content(n, at)
           w == Written(img, at, c)
<1>0. at \in Addr /\ c = FreeBlk(NextFree(n, at)) /\ at # SUPERBLOCK_DISKLOC
      /\ img.whole \in Nat /\ img.blk \in [Addr -> Block]
  BY DEF Addr, Content, SUPERBLOCK_DISKLOC, Image
<1>1. w.blk = [img.blk EXCEPT ![at] = c] /\ w.there = img.there
  BY DEF Written, Image
<1>2. CASE at < img.whole
  <2>1. w.whole = img.whole /\ w.odd = img.odd
    BY <1>2 DEF Written, Image
  <2>2. w.blk = [b \in Addr |-> IF b # SUPERBLOCK_DISKLOC /\ b < at + 1 /\ b < img.whole
                               THEN FreeBlk(NextFree(n, b)) ELSE Blank]
    BY <1>0, <1>1, <1>2 DEF FormattedTo, Addr
  <2> QED BY <1>0, <1>1, <1>2, <2>1, <2>2 DEF FormattedTo
<1>3. CASE ~ (at < img.whole)
  <2>1. w.whole = at + 1 /\ w.odd = FALSE /\ img.whole = at
    BY <1>3 DEF Written, Image, Inside
  <2>2. w.blk = [b \in Addr |-> IF b # SUPERBLOCK_DISKLOC /\ b < at + 1 /\ b < at + 1
                               THEN FreeBlk(NextFree(n, b)) ELSE Blank]
    BY <1>0, <1>1, <1>3, <2>1 DEF FormattedTo, Addr
  <2> QED BY <1>0, <1>1, <2>1, <2>2 DEF FormattedTo
<1> QED BY <1>2, <1>3

(* The superblock. *)
LEMMA FormatEnds ==
  ASSUME NEW img \in Image, NEW n \in 1 .. NumBlocks, FormattedTo(img, n, n),
         Inside(img, SUPERBLOCK_DISKLOC)
  PROVE  Made(Written(img, SUPERBLOCK_DISKLOC, Content(n, n)))
<1> DEFINE c == Content(n, n)
           w == Written(img, SUPERBLOCK_DISKLOC, c)
<1>0. 0 \in Addr /\ c = SuperBlk(FirstFree(n))
      /\ img.whole \in Nat /\ img.blk \in [Addr -> Block]
  BY DEF Addr, Content, Image
<1>1. CASE w.odd
  BY <1>1 DEF Made
<1>2. CASE ~ w.odd
  <2>1. w.there = TRUE /\ w.blk = [img.blk EXCEPT ![SUPERBLOCK_DISKLOC] = c]
    BY DEF Written, Image, FormattedTo
  <2>2. w.whole = n /\ w.odd = FALSE
    BY <1>0, <1>2 DEF Written, Image, FormattedTo, Inside, SUPERBLOCK_DISKLOC
  <2>3. img.whole = n \/ (img.whole = 0 /\ n = 1)
    BY <1>0, <1>2, <2>2 DEF Written, Image, FormattedTo, Inside, SUPERBLOCK_DISKLOC
  <2>4. w.blk = [b \in Addr |-> IF b = SUPERBLOCK_DISKLOC THEN SuperBlk(FirstFree(n))
                               ELSE IF b < n THEN FreeBlk(NextFree(n, b)) ELSE Blank]
    <3> DEFINE g(b) == IF b = SUPERBLOCK_DISKLOC THEN SuperBlk(FirstFree(n))
                       ELSE IF b < n THEN FreeBlk(NextFree(n, b)) ELSE Blank
    <3>1. ASSUME NEW b \in Addr PROVE w.blk[b] = g(b)
      <4>1. CASE b = SUPERBLOCK_DISKLOC
        BY <1>0, <2>1, <4>1
      <4>2. CASE b # SUPERBLOCK_DISKLOC
        <5>1. w.blk[b] = img.blk[b]
          BY <1>0, <2>1, <4>2
        <5>2. b < n /\ b < img.whole <=> b < n
          BY <1>0, <2>3, <4>2 DEF Addr, SUPERBLOCK_DISKLOC
        <5>3. img.blk[b] = IF b < n /\ b < img.whole
                           THEN FreeBlk(NextFree(n, b)) ELSE Blank
          BY <4>2 DEF FormattedTo
        <5> QED BY <4>2, <5>1, <5>2, <5>3
      <4> QED BY <4>1, <4>2
    <3>2. w.blk = [b \in Addr |-> w.blk[b]]
      BY <1>0, <2>1
    <3> HIDE DEF w
    <3>3. [b \in Addr |-> w.blk[b]] = [b \in Addr |-> g(b)]
      BY <3>1
    <3> QED BY <3>2, <3>3
  <2>5. w \in [there : BOOLEAN, whole : Nat, odd : BOOLEAN, blk : [Addr -> Block]]
    <3>1. c \in Block
      BY <1>0, ContentIsBlock
    <3>2. w \in Image
      BY <1>0, <3>1, WrittenIsImage DEF SUPERBLOCK_DISKLOC
    <3> QED BY <3>2 DEF Image
  <2>6. w = [there |-> TRUE, whole |-> n, odd |-> FALSE, blk |-> w.blk]
    BY <2>1, <2>2, <2>5
  <2>7. Fresh(n) = [there |-> TRUE, whole |-> n, odd |-> FALSE, blk |-> w.blk]
    <3> DEFINE k == [b \in Addr |->
                      IF b = SUPERBLOCK_DISKLOC THEN SuperBlk(FirstFree(n))
                      ELSE IF b < n THEN FreeBlk(NextFree(n, b)) ELSE Blank]
    <3>1. Fresh(n) = [Zeros(n, FALSE) EXCEPT !.blk = k]
      BY DEF Fresh
    <3> HIDE DEF k
    <3>2. Fresh(n) = [there |-> TRUE, whole |-> n, odd |-> FALSE, blk |-> k]
      BY <3>1 DEF Zeros
    <3>3. w.blk = k
      BY <2>4 DEF k
    <3> HIDE DEF w
    <3> QED BY <3>2, <3>3
  <2> QED BY <2>6, <2>7 DEF Made
<1> QED BY <1>1, <1>2

LEMMA BlocksAtLeast ==
  ASSUME NEW nBytes \in Int, Fits(nBytes)
  PROVE  Blocks(nBytes) \in 1 .. NumBlocks
<1> DEFINE q == nBytes \div BLOCKSIZE
<1>1. q \in Nat /\ nBytes < (q + 1) * BLOCKSIZE /\ Blocks(nBytes) = q
  BY DEF Fits, Blocks, TruncDiv
<1>2. q # 0
  BY <1>1 DEF Fits
<1> QED BY <1>1, <1>2 DEF Fits

LEMMA FormatBegins ==
  ASSUME NEW n \in 1 .. NumBlocks, NEW k \in 0 .. n, NEW odd \in BOOLEAN,
         k = 0 => odd
  PROVE  FormattedTo(Zeros(k, odd), n, 1)
<1>1. Zeros(k, odd).blk = [b \in Addr |-> Blank]
  BY DEF Zeros
<1>2. \A b \in Addr : ~ (b # SUPERBLOCK_DISKLOC /\ b < 1 /\ b < k)
  BY DEF Addr, SUPERBLOCK_DISKLOC
<1>3. [b \in Addr |-> Blank]
        = [b \in Addr |-> IF b # SUPERBLOCK_DISKLOC /\ b < 1 /\ b < k
                          THEN FreeBlk(NextFree(n, b)) ELSE Blank]
  BY <1>2
<1>4. Zeros(k, odd).there /\ Zeros(k, odd).whole = k /\ Zeros(k, odd).odd = odd
  BY DEF Zeros
<1> QED BY <1>1, <1>3, <1>4 DEF FormattedTo

LEMMA InitMaking == Init => Making
<1>1. Absent.blk[SUPERBLOCK_DISKLOC] = Blank
  BY DEF Absent, Zeros, SUPERBLOCK_DISKLOC, Addr
<1>2. Made(Absent)
  BY <1>1, BlocksDiffer DEF Made
<1> QED BY <1>2 DEF Init, Making, Made, Doing, NoCall

(* A step that writes no image, and formats nothing. *)
LEMMA MakingStays ==
  ASSUME Making, image' = image, ~ Doing("zero")', ~ Doing("format")'
  PROVE  Making'
  BY DEF Making, Made

LEMMA ZeroDiskMaking ==
  ASSUME IInv, Making, ZeroDisk
  PROVE  Making'
<1>0. ~ Idle /\ call.n \in 1 .. NumBlocks
      /\ call \in [op : {"zero", "format", "check"}, fd : Descriptors,
                   n : 0 .. NumBlocks, at : 1 .. NumBlocks]
  BY Busy, Open DEF ZeroDisk, Making, IInv, TypeOK, Idle
<1>1. CASE Return(SYS_ERR_WRITE) /\ UNCHANGED image
  BY <1>1, MakingStays DEF Return, Doing, NoCall
<1>2. ASSUME NEW k \in 0 .. call.n, NEW odd \in BOOLEAN, k = 0 => odd,
             image' = [image EXCEPT ![Here] = Zeros(k, odd)],
             call' = [call EXCEPT !.op = "format"], held' = held
      PROVE  Making'
  <2>1. Here' = Here /\ Here \in Files /\ Img' = Zeros(k, odd)
    BY <1>0, <1>2, Open DEF Here, Img, IInv, TypeOK
  <2>2. \A f \in Files : Made(image'[f])
    BY <1>2, ZerosMade DEF Making, IInv, TypeOK
  <2>3. call'.n = call.n /\ call'.op = "format" /\ call'.at = call.at
    BY <1>0, <1>2
  <2>4. call.at = 1
    BY DEF ZeroDisk, Making
  <2>5. FormattedTo(Img', call'.n, call'.at)
    BY <1>0, <1>2, <2>1, <2>3, <2>4, FormatBegins
  <2> QED BY <2>2, <2>3, <2>5 DEF Making, Doing
<1> QED BY <1>1, <1>2 DEF ZeroDisk

LEMMA MkfsMaking ==
  ASSUME IInv, Making, NEW f \in Files, NEW nBytes \in ByteCounts, Mkfs(f, nBytes)
  PROVE  Making'
<1>1. CASE Refuse(ERR_INVALID_INPUT) \/ Refuse(SYS_ERR_OPEN)
  BY <1>1, MakingStays DEF Refuse, Return, Doing, NoCall
<1>2. ASSUME Fits(nBytes), NEW fd \in Descriptors, Start("zero", fd, Blocks(nBytes)),
             image' = [image EXCEPT ![f] = Zeros(0, FALSE)]
      PROVE  Making'
  <2>1. Blocks(nBytes) >= 1
    BY <1>2, BlocksAtLeast
  <2>2. \A g \in Files : Made(image'[g])
    BY <1>2, ZerosMade DEF Making, IInv, TypeOK
  <2> QED BY <1>2, <2>1, <2>2 DEF Making, Start, Doing
<1> QED BY <1>1, <1>2 DEF Mkfs

LEMMA FormatNextMaking ==
  ASSUME IInv, Making, FormatNext
  PROVE  Making'
<1> DEFINE b == Target(call.n, call.at)
           w == Written(Img, b, Content(call.n, call.at))
<1>0. ~ Idle /\ FormattedTo(Img, call.n, call.at)
      /\ call \in [op : {"zero", "format", "check"}, fd : Descriptors,
                   n : 0 .. NumBlocks, at : 1 .. NumBlocks]
      /\ Here \in Files /\ Img \in Image /\ held' = held
  BY Busy, Open DEF FormatNext, Making, IInv, TypeOK, Idle
<1>1. call.at <= call.n /\ call.n \in 1 .. NumBlocks
  BY <1>0 DEF FormattedTo
<1>2. \/ (Return(ERR_INVALID_INPUT) \/ Return(SYS_ERR_WRITE)) /\ image' = image
      \/ /\ \/ Inside(Img, b) /\ image' = [image EXCEPT ![Here] = w]
            \/ b = Img.whole /\ Img.odd /\ image' = image
         /\ \/ call.at = call.n /\ Return(TFS_SUCCESS)
            \/ call.at < call.n /\ call' = [call EXCEPT !.at = @ + 1]
  BY DEF FormatNext, Img
<1>3. CASE (Return(ERR_INVALID_INPUT) \/ Return(SYS_ERR_WRITE)) /\ image' = image
  BY <1>3, MakingStays DEF Return, Doing, NoCall
<1>4. CASE b = Img.whole /\ Img.odd /\ image' = image
  <2>1. CASE Return(TFS_SUCCESS)
    BY <1>4, <2>1, MakingStays DEF Return, Doing, NoCall
  <2>2. CASE call.at < call.n /\ call' = [call EXCEPT !.at = @ + 1]
    <3>1. call'.n = call.n /\ call'.op = "format" /\ call'.at = call.at + 1
          /\ Img' = Img
      BY <1>0, <1>4, <2>2 DEF FormatNext, Doing, Img, Here
    <3>2. Img.whole = call.at /\ Img.whole \in Nat
      BY <1>0, <1>4, <2>2 DEF Target, Image
    <3>3. \A x \in Addr : x < call.at + 1 /\ x < Img.whole <=> x < call.at /\ x < Img.whole
      BY <1>0, <3>2 DEF Addr
    <3>4. Img.blk = [x \in Addr |->
                       IF x # SUPERBLOCK_DISKLOC /\ x < call.at + 1 /\ x < Img.whole
                       THEN FreeBlk(NextFree(call.n, x)) ELSE Blank]
      BY <1>0, <3>3 DEF FormattedTo
    <3>5. FormattedTo(Img, call.n, call.at + 1)
      BY <1>0, <1>4, <2>2, <3>2, <3>4 DEF FormattedTo
    <3> QED BY <1>4, <3>1, <3>5 DEF Making, Made, Doing
  <2> HIDE DEF b, w
  <2> QED BY <1>3, <1>4, <1>2, <2>1, <2>2
<1>5. CASE Inside(Img, b) /\ image' = [image EXCEPT ![Here] = w]
  <2>1. Img' = w \/ call' = NoCall
    BY <1>0, <1>5 DEF FormatNext, Img, Here, IInv, TypeOK, Return
  <2>2. CASE call.at = call.n /\ Return(TFS_SUCCESS)
    <3>1. Made(w)
      <4>1. b = SUPERBLOCK_DISKLOC
        BY <1>0, <2>2 DEF Target
      <4>2. w = Written(Img, SUPERBLOCK_DISKLOC, Content(call.n, call.n))
            /\ FormattedTo(Img, call.n, call.n) /\ Inside(Img, SUPERBLOCK_DISKLOC)
        BY <1>0, <1>5, <2>2, <4>1
      <4> QED BY <1>0, <1>1, <4>2, FormatEnds
    <3>2. \A f \in Files : Made(image'[f])
      BY <1>0, <1>5, <3>1 DEF Making, IInv, TypeOK
    <3> QED BY <2>2, <3>2 DEF Making, Return, Doing, NoCall
  <2>3. CASE call.at < call.n /\ call' = [call EXCEPT !.at = @ + 1]
    <3>1. call'.n = call.n /\ call'.op = "format" /\ call'.at = call.at + 1
          /\ Img' = w
      BY <1>0, <1>5, <2>3 DEF FormatNext, Doing, Img, Here, IInv, TypeOK
    <3>2. FormattedTo(w, call.n, call.at + 1)
      <4>1. b = call.at
        BY <2>3 DEF Target
      <4>2. w = Written(Img, call.at, Content(call.n, call.at))
            /\ Inside(Img, call.at) /\ call.at \in 1 .. NumBlocks
        BY <1>0, <1>5, <4>1
      <4> HIDE DEF w
      <4> QED BY <1>0, <1>1, <2>3, <4>2, FormatsOn
    <3>3. Made(w)
      BY <3>2, FormattedMade
    <3>4. \A f \in Files : Made(image'[f])
      BY <1>0, <1>5, <3>3 DEF Making, IInv, TypeOK
    <3> QED BY <3>1, <3>2, <3>4 DEF Making, Doing
  <2> HIDE DEF b, w
  <2> QED BY <1>3, <1>5, <1>2, <2>2, <2>3
<1> HIDE DEF b, w
<1> QED BY <1>3, <1>4, <1>5, <1>2

LEMMA NextMaking == IInv /\ Making /\ [Next]_vars => Making'
<1> SUFFICES ASSUME IInv, Making, [Next]_vars PROVE Making'
  OBVIOUS
<1>1. CASE UNCHANGED vars
  BY <1>1 DEF vars, Making, Made, Doing, Img, Here
<1>2. CASE Unmount \/ Crash \/ \E f \in Files : Mount(f)
  <2>1. image' = image /\ (call' = NoCall \/ call'.op = "check")
    BY <1>2 DEF Unmount, Crash, Mount, Die, Refuse, Return, Start
  <2> QED BY <2>1, MakingStays DEF Doing, NoCall
<1>3. CASE CheckStart \/ CheckNext \/ CheckReturn \/ CheckEnd
  <2>1. image' = image /\ (call' = NoCall \/ call' = call) /\ Doing("check")
    BY <1>3 DEF CheckStart, CheckNext, CheckReturn, CheckEnd, Enter, Starting,
         Checking, Rejected, Refuse, Die, Return
  <2> QED BY <2>1, MakingStays DEF Doing, NoCall
<1> QED BY <1>1, <1>2, <1>3, MkfsMaking, ZeroDiskMaking, FormatNextMaking DEF Next

LEMMA AlwaysMaking == Spec => []Making
  BY AlwaysIInv, InitMaking, NextMaking, PTL DEF Spec

(* What tfs_mkfs did not finish is never mounted, however far it came.     *)
THEOREM FinishedOnly == Spec => OnlyFinishedImages
<1>1. ASSUME IInv, Making, [Next]_vars
      PROVE  [Mounts => image[mounted'.name] \in
                 Foreign \cup {Fresh(n) : n \in 1 .. NumBlocks}]_vars
  <2> SUFFICES ASSUME Next, Mounts
               PROVE  image[mounted'.name] \in
                        Foreign \cup {Fresh(n) : n \in 1 .. NumBlocks}
    BY <1>1
  <2>1. Sound(Img) /\ image[mounted'.name] = Img /\ Here \in Files
    BY <1>1, MountsAtEnd, AllComplete, Busy, Open DEF Img, CheckEnd
  <2>2. Made(Img)
    BY <1>1, <2>1 DEF Making, Img
  <2> QED BY <2>1, <2>2 DEF Made, Sound
<1> QED BY <1>1, AlwaysIInv, AlwaysMaking, PTL DEF Spec, OnlyFinishedImages

---------------------------------------------------------------------------
(* In a fresh image the check goes down the free list, one call within the *)
(* other, to the last block, and only then returns.                        *)
FreshStack(n, stack, S) ==
  S # {} =>
    \E m \in 0 .. n - 1 :
      /\ S = 0 .. m
      /\ Len(stack) <= m + 1
      /\ m < n - 1 => Len(stack) = m + 1
      /\ \A k \in 1 .. Len(stack) :
           stack[k].blk = k - 1 /\ stack[k].at = IF k = m + 1 THEN 0 ELSE 1

OnFresh == Doing("check") /\ call.n > 0 /\ Img = Fresh(call.n)
FreshInv == OnFresh => FreshStack(call.n, frames, seen)

(* The free list is the only thing a block of a fresh image refers to. *)
FreshAs(b) == IF b = 0 THEN "SUPERBLOCK" ELSE "FREE"

LEMMA FreshBlocks ==
  ASSUME NEW n \in 1 .. NumBlocks, NEW b \in 0 .. n - 1, NEW img, img = Fresh(n)
  PROVE  /\ img.blk[b].type = FreshAs(b)
         /\ HeaderOK(img.blk[b], FreshAs(b)) /\ SizeOK(img.blk[b], FreshAs(b))
         /\ Ref(img.blk[b], FreshAs(b), 0) = IF b < n - 1 THEN b + 1 ELSE 0
         /\ \A i \in 1 .. Slots : Ref(img.blk[b], FreshAs(b), i) = 0
         /\ RefAs(img.blk[b], 0) = "FREE"
<1>1. img.blk = [x \in Addr |->
                   IF x = SUPERBLOCK_DISKLOC THEN SuperBlk(FirstFree(n))
                   ELSE IF x < n THEN FreeBlk(NextFree(n, x)) ELSE Blank]
  BY DEF Fresh, Zeros
<1>2. img.blk[b] = IF b = 0 THEN SuperBlk(FirstFree(n)) ELSE FreeBlk(NextFree(n, b))
  BY <1>1 DEF Addr, SUPERBLOCK_DISKLOC
<1>3. CASE b = 0
  BY <1>2, <1>3 DEF SuperBlk, FirstFree, Blank, HeaderOK, SizeOK, Ref, RefAs, FreshAs
<1>4. CASE b # 0
  BY <1>2, <1>4 DEF FreeBlk, NextFree, Blank, HeaderOK, SizeOK, Ref, RefAs, FreshAs
<1> QED BY <1>3, <1>4

LEMMA FreshShape ==
  ASSUME NEW n
  PROVE  Fresh(n).whole = n /\ Fresh(n).odd = FALSE
  BY DEF Fresh, Zeros

(* The innermost call is at the last block it reached, or every block has  *)
(* been reached.                                                           *)
LEMMA FreshAhead ==
  ASSUME IInv, FreshInv, OnFresh, Checking
  PROVE  \E m \in 0 .. call.n - 1 :
           /\ seen = 0 .. m
           /\ Len(frames) <= m + 1
           /\ m < call.n - 1 => Len(frames) = m + 1 /\ Ahead = {0}
           /\ m = call.n - 1 => Ahead = {}
           /\ SizeOK(Img.blk[Top.blk], Top.as)
           /\ Ahead = {0} =>
                /\ Ref(Img.blk[Top.blk], Top.as, 0) = m + 1
                /\ RefAs(Img.blk[Top.blk], 0) = "FREE"
<1>0. /\ frames \in Seq(FrameSet) /\ frames # <<>> /\ Len(frames) \in Nat
      /\ Len(frames) >= 1 /\ Top = frames[Len(frames)] /\ Top \in FrameSet
      /\ call.n \in 1 .. NumBlocks /\ seen # {}
  BY TopFrame, Busy, Open DEF OnFresh, Progress
<1>1. PICK m \in 0 .. call.n - 1 :
        /\ seen = 0 .. m
        /\ Len(frames) <= m + 1
        /\ m < call.n - 1 => Len(frames) = m + 1
        /\ \A k \in 1 .. Len(frames) :
             frames[k].blk = k - 1 /\ frames[k].at = IF k = m + 1 THEN 0 ELSE 1
  BY <1>0 DEF FreshInv, FreshStack
<1>2. PICK b \in 0 .. call.n - 1 :
        b = Len(frames) - 1 /\ b <= m /\ Top.blk = b
          /\ Top.at = IF b = m THEN 0 ELSE 1
  BY <1>0, <1>1
<1>3. Img.blk[b].type = FreshAs(b) /\ Top.as = FreshAs(b)
  <2>1. Img.blk[b].type = FreshAs(b)
    BY <1>0, FreshBlocks DEF OnFresh
  <2>2. Top.as = Img.blk[Top.blk].type
    <3>1. Framed(Img, seen, frames[Len(frames)])
      BY <1>0, TopFrame DEF Progress
    <3> QED BY <1>0, <3>1 DEF Framed
  <2> QED BY <1>2, <2>1, <2>2
<1>4. /\ SizeOK(Img.blk[b], FreshAs(b))
      /\ Ref(Img.blk[b], FreshAs(b), 0) = IF b < call.n - 1 THEN b + 1 ELSE 0
      /\ \A i \in 1 .. Slots : Ref(Img.blk[b], FreshAs(b), i) = 0
      /\ RefAs(Img.blk[b], 0) = "FREE"
  BY <1>0, FreshBlocks DEF OnFresh
<1>5. Ahead = {i \in 0 .. Slots : i >= Top.at /\ Ref(Img.blk[b], FreshAs(b), i) # 0}
  BY <1>2, <1>3 DEF Ahead
<1>6. ASSUME NEW i \in 0 .. Slots, i # 0 PROVE i \notin Ahead
  BY <1>4, <1>5, <1>6
<1>7. 0 \in Ahead <=> 0 >= Top.at /\ Ref(Img.blk[b], FreshAs(b), 0) # 0
  BY <1>5
<1>8. 0 \in Ahead <=> b = m /\ b < call.n - 1
  BY <1>0, <1>2, <1>4, <1>7
<1>9. Ahead = IF b = m /\ b < call.n - 1 THEN {0} ELSE {}
  BY <1>5, <1>6, <1>8
<1>10. m < call.n - 1 => Len(frames) = m + 1 /\ b = m /\ b < call.n - 1
  BY <1>0, <1>1, <1>2
<1>11. Ahead = {0} => Ref(Img.blk[b], FreshAs(b), 0) = m + 1
  BY <1>0, <1>1, <1>2, <1>4, <1>9
<1>12. m = call.n - 1 => ~ (b = m /\ b < call.n - 1)
  BY <1>0, <1>1
<1>13. (m < call.n - 1 => Ahead = {0}) /\ (m = call.n - 1 => Ahead = {})
  BY <1>9, <1>10, <1>12
<1> QED BY <1>1, <1>2, <1>3, <1>4, <1>10, <1>11, <1>13

LEMMA FreshCall ==
  ASSUME IInv, OnFresh
  PROVE  ~ Idle /\ call.n \in 1 .. NumBlocks /\ ~ Img.odd /\ Img.whole = call.n
<1>1. ~ Idle
  BY Busy DEF OnFresh
<1>2. Img.whole = call.n /\ Img.odd = FALSE
  BY FreshShape DEF OnFresh
<1> QED BY <1>1, <1>2, Open DEF OnFresh

(* A call of a fresh image's check that is not the end of the process goes *)
(* on to the next block, or finds that its address is negative.            *)
LEMMA FreshEnter ==
  ASSUME IInv, OnFresh, NEW stack, NEW b \in 0 .. call.n - 1,
         Enter(stack, b, FreshAs(b))
  PROVE  \/ call.n > Half /\ Rejected
         \/ call' = NoCall /\ code' = PENDING
         \/ /\ frames' = Append(stack, Frame(b, FreshAs(b)))
            /\ seen' = seen \cup {b}
            /\ UNCHANGED <<image, held, call, code>>
<1>0. call.n \in 1 .. NumBlocks /\ b \in Addr
  BY Busy, Open DEF OnFresh, Addr
<1>1. HeaderOK(Img.blk[b], FreshAs(b))
  BY <1>0, FreshBlocks DEF OnFresh
<1>2. CASE SignedChar(b) \in OnDisk(call.n)
  <2>1. SignedChar(b) = b
    BY <1>0, <1>2, Signed
  <2> QED BY <1>1, <1>2, <2>1 DEF Enter, Die, Return
<1>3. CASE SignedChar(b) \notin OnDisk(call.n)
  <2>1. call.n > Half
    BY <1>0, <1>3 DEF SignedChar, OnDisk, Half
  <2> QED BY <1>3, <2>1 DEF Enter, Die, Return
<1> QED BY <1>2, <1>3

(* What a step of the check of a fresh image comes to.                     *)
FreshOutcome ==
  \/ call' = NoCall /\ code' = PENDING
  \/ call' = NoCall /\ code' = ERR_BAD_DISK /\ call.n > Half
  \/ call' = NoCall /\ code' = TFS_SUCCESS /\ call.n <= Half
  \/ /\ UNCHANGED <<image, held, call, code>>
     /\ FreshStack(call.n, frames', seen')

LEMMA FreshCheckStart ==
  ASSUME IInv, OnFresh, CheckStart
  PROVE  FreshOutcome
<1>0. call.n \in 1 .. NumBlocks /\ ~ Img.odd /\ seen = {}
  BY FreshCall DEF CheckStart, Starting
<1>1. Enter(<<>>, 0, FreshAs(0)) /\ 0 \in 0 .. call.n - 1
  BY <1>0 DEF CheckStart, SUPERBLOCK_DISKLOC, FreshAs
<1>2. CASE /\ frames' = Append(<<>>, Frame(0, FreshAs(0)))
           /\ seen' = seen \cup {0}
           /\ UNCHANGED <<image, held, call, code>>
  <2>1. frames' = <<Frame(0, FreshAs(0))>> /\ seen' = 0 .. 0
    BY <1>0, <1>2
  <2>2. Len(frames') = 1 /\ frames'[1].blk = 0 /\ frames'[1].at = 0
    BY <2>1 DEF Frame
  <2>3. 0 \in 0 .. call.n - 1
    BY <1>0
  <2> QED BY <1>0, <1>2, <2>1, <2>2, <2>3 DEF FreshOutcome, FreshStack
<1> QED BY <1>1, <1>2, FreshEnter DEF FreshOutcome, Rejected, Refuse, Return

LEMMA FreshCheckNext ==
  ASSUME IInv, FreshInv, OnFresh, CheckNext
  PROVE  FreshOutcome
<1>0. Checking /\ frames \in Seq(FrameSet) /\ frames # <<>> /\ Len(frames) \in Nat
      /\ call.n \in 1 .. NumBlocks /\ seen # {}
  BY TopFrame, Busy, Open DEF CheckNext, OnFresh, Progress
<1>1. PICK m \in 0 .. call.n - 1 :
        /\ seen = 0 .. m
        /\ Len(frames) <= m + 1
        /\ m < call.n - 1 => Len(frames) = m + 1 /\ Ahead = {0}
        /\ m = call.n - 1 => Ahead = {}
        /\ Ahead = {0} =>
             /\ Ref(Img.blk[Top.blk], Top.as, 0) = m + 1
             /\ RefAs(Img.blk[Top.blk], 0) = "FREE"
  BY <1>0, FreshAhead
<1> DEFINE stack == [frames EXCEPT ![Len(frames)].at = 0 + 1]
<1>2. Ahead = {0} /\ m < call.n - 1 /\ Len(frames) = m + 1
  <2>1. Ahead # {}
    BY DEF CheckNext
  <2> QED BY <1>0, <1>1, <2>1
<1>3. Enter(stack, m + 1, "FREE")
  BY <1>1, <1>2 DEF CheckNext
<1>4. FreshAs(m + 1) = "FREE" /\ m + 1 \in 0 .. call.n - 1
  BY <1>0, <1>2 DEF FreshAs
<1>5. CASE /\ frames' = Append(stack, Frame(m + 1, "FREE"))
           /\ seen' = seen \cup {m + 1}
           /\ UNCHANGED <<image, held, call, code>>
  <2>1. seen' = 0 .. m + 1
    BY <1>1, <1>5
  <2>2. Len(frames') = m + 2
        /\ \A k \in 1 .. m + 2 :
             frames'[k] = IF k = m + 2 THEN Frame(m + 1, "FREE") ELSE stack[k]
    BY <1>0, <1>2, <1>5
  <2>3. \A k \in 1 .. m + 1 :
          frames[k].blk = k - 1 /\ frames[k].at = IF k = m + 1 THEN 0 ELSE 1
    <3>1. PICK x \in 0 .. call.n - 1 :
            /\ seen = 0 .. x
            /\ \A k \in 1 .. Len(frames) :
                 frames[k].blk = k - 1 /\ frames[k].at = IF k = x + 1 THEN 0 ELSE 1
      BY <1>0 DEF FreshInv, FreshStack
    <3>2. x = m
      BY <1>1, <3>1
    <3> QED BY <1>2, <3>1, <3>2
  <2>4. ASSUME NEW k \in 1 .. m + 1
        PROVE  stack[k].blk = k - 1 /\ stack[k].at = 1
    <3>1. frames[k] \in FrameSet
      BY <1>0, <1>2
    <3>2. stack[k] = IF k = m + 1 THEN [frames[k] EXCEPT !.at = 0 + 1] ELSE frames[k]
      BY <1>0, <1>2
    <3> QED BY <2>3, <3>1, <3>2 DEF FrameSet
  <2>5. Frame(m + 1, "FREE").blk = m + 1 /\ Frame(m + 1, "FREE").at = 0
    BY DEF Frame
  <2> HIDE DEF stack
  <2>6. \A k \in 1 .. m + 2 :
          frames'[k].blk = k - 1 /\ frames'[k].at = IF k = m + 2 THEN 0 ELSE 1
    BY <2>2, <2>4, <2>5
  <2> DEFINE m1 == m + 1
  <2>7. m1 \in 0 .. call.n - 1 /\ seen' = 0 .. m1 /\ Len(frames') = m1 + 1
        /\ \A k \in 1 .. Len(frames') :
             frames'[k].blk = k - 1 /\ frames'[k].at = IF k = m1 + 1 THEN 0 ELSE 1
    BY <1>4, <2>1, <2>2, <2>6
  <2> HIDE DEF m1
  <2>8. FreshStack(call.n, frames', seen')
    BY <2>7 DEF FreshStack
  <2> QED BY <1>5, <2>8 DEF FreshOutcome
<1> HIDE DEF stack
<1> QED BY <1>3, <1>4, <1>5, FreshEnter DEF FreshOutcome, Rejected, Refuse, Return

LEMMA FreshCheckReturn ==
  ASSUME IInv, FreshInv, OnFresh, CheckReturn
  PROVE  FreshOutcome
<1>0. Checking /\ frames \in Seq(FrameSet) /\ frames # <<>> /\ Len(frames) \in Nat
      /\ Len(frames) >= 1 /\ call.n \in 1 .. NumBlocks /\ seen # {} /\ Ahead = {}
  BY TopFrame, Busy, Open DEF CheckReturn, OnFresh, Progress
<1>1. SizeOK(Img.blk[Top.blk], Top.as) /\ seen = 0 .. call.n - 1
  BY <1>0, FreshAhead
<1>2. frames' = [k \in 1 .. Len(frames) - 1 |-> frames[k]]
      /\ UNCHANGED <<image, held, call, seen, code>>
  BY <1>1 DEF CheckReturn
<1>3. Len(frames') = Len(frames) - 1
      /\ \A k \in 1 .. Len(frames') : frames'[k] = frames[k]
  BY <1>0, <1>2
<1>4. FreshStack(call.n, frames', seen')
  <2>1. PICK x \in 0 .. call.n - 1 :
          /\ seen = 0 .. x
          /\ Len(frames) <= x + 1
          /\ \A k \in 1 .. Len(frames) :
               frames[k].blk = k - 1 /\ frames[k].at = IF k = x + 1 THEN 0 ELSE 1
    BY <1>0 DEF FreshInv, FreshStack
  <2>2. x = call.n - 1
    BY <1>0, <1>1, <2>1
  <2>3. \A k \in 1 .. Len(frames') :
          frames'[k].blk = k - 1 /\ frames'[k].at = IF k = x + 1 THEN 0 ELSE 1
    <3> SUFFICES ASSUME NEW k \in 1 .. Len(frames')
                 PROVE  frames'[k].blk = k - 1 /\ frames'[k].at = IF k = x + 1 THEN 0 ELSE 1
      OBVIOUS
    <3>1. k \in 1 .. Len(frames) /\ frames'[k] = frames[k]
      BY <1>0, <1>3
    <3> QED BY <2>1, <3>1
  <2>4. Len(frames') <= x + 1 /\ ~ (x < call.n - 1) /\ seen' = 0 .. x
    BY <1>0, <1>2, <1>3, <2>1, <2>2
  <2> QED BY <2>1, <2>3, <2>4 DEF FreshStack
<1> QED BY <1>2, <1>4 DEF FreshOutcome

LEMMA FreshCheckEnd ==
  ASSUME IInv, FreshInv, OnFresh, CheckEnd
  PROVE  FreshOutcome
<1>0. call.n \in 1 .. NumBlocks /\ frames = <<>> /\ seen # {} /\ Img.whole = call.n
  BY FreshCall DEF CheckEnd
<1>1. PICK m \in 0 .. call.n - 1 :
        seen = 0 .. m /\ (m < call.n - 1 => Len(frames) = m + 1)
  BY <1>0 DEF FreshInv, FreshStack
<1>2. seen = 0 .. call.n - 1
  <2>1. Len(frames) = 0
    BY <1>0
  <2> QED BY <1>0, <1>1, <2>1
<1>3. AllSeen(call.n)
  BY <1>2 DEF AllSeen, OnDisk
<1>4. call.n - 1 < Half
  BY <1>0, <1>3, AllComplete DEF OnDisk
<1>5. call.n <= Half
  BY <1>0, <1>4 DEF Half
<1> QED BY <1>3, <1>5 DEF CheckEnd, Return, FreshOutcome

LEMMA FreshStep ==
  ASSUME IInv, FreshInv, Next
  PROVE  (OnFresh => FreshOutcome) /\ FreshInv'
<1>1. CASE CheckStart \/ CheckNext \/ CheckReturn \/ CheckEnd
  <2>1. Doing("check") /\ image' = image
        /\ (call' = NoCall \/ (call' = call /\ held' = held))
    BY <1>1 DEF CheckStart, CheckNext, CheckReturn, CheckEnd, Enter, Starting,
         Checking, Rejected, Refuse, Die, Return
  <2>2. OnFresh => FreshOutcome
    BY <1>1, FreshCheckStart, FreshCheckNext, FreshCheckReturn, FreshCheckEnd
  <2>3. OnFresh' => OnFresh /\ call' = call
    BY <2>1 DEF OnFresh, Doing, NoCall, Img, Here
  <2> QED BY <2>2, <2>3 DEF FreshOutcome, FreshInv, OnFresh, Doing, NoCall
<1>2. CASE Unmount \/ Crash
  BY <1>2 DEF Unmount, Crash, Die, Refuse, Return, FreshInv, OnFresh, Doing, NoCall,
       FreshOutcome, Idle
<1>3. CASE ZeroDisk \/ FormatNext \/ \E f \in Files, nBytes \in ByteCounts : Mkfs(f, nBytes)
  <2>1. Idle \/ call \in [op : {"zero", "format", "check"}, fd : Descriptors,
                         n : 0 .. NumBlocks, at : 1 .. NumBlocks]
    BY DEF IInv, TypeOK, Idle
  <2>2. ~ Doing("check") /\ ~ Doing("check")'
    <3>1. CASE ZeroDisk \/ FormatNext
      <4>1. (Doing("zero") \/ Doing("format")) /\ ~ Idle
        BY <3>1 DEF ZeroDisk, FormatNext, Doing, Idle, NoCall
      <4>2. \/ call' = NoCall \/ call' = [call EXCEPT !.op = "format"]
            \/ call' = [call EXCEPT !.at = @ + 1]
        BY <3>1 DEF ZeroDisk, FormatNext, Return
      <4> QED BY <2>1, <4>1, <4>2 DEF Doing, NoCall
    <3>2. CASE \E f \in Files, nBytes \in ByteCounts : Mkfs(f, nBytes)
      <4>1. call = NoCall /\ (call' = NoCall \/ call'.op = "zero")
        <5>1. PICK f \in Files, nBytes \in ByteCounts : Mkfs(f, nBytes)
          BY <3>2
        <5>2. CASE Refuse(ERR_INVALID_INPUT) \/ Refuse(SYS_ERR_OPEN)
          BY <5>1, <5>2 DEF Mkfs, Refuse, Return, Idle
        <5>3. ASSUME NEW fd, Start("zero", fd, Blocks(nBytes)) PROVE call'.op = "zero"
          BY <5>3 DEF Start
        <5> QED BY <5>1, <5>2, <5>3 DEF Mkfs, Idle
      <4> QED BY <4>1 DEF Doing, NoCall
    <3> QED BY <1>3, <3>1, <3>2
  <2> QED BY <2>2 DEF FreshInv, OnFresh
<1>4. CASE \E f \in Files : Mount(f)
  <2>1. ~ Doing("check") /\ (call' = NoCall \/ seen' = seen) /\ seen = {}
    BY <1>4 DEF Mount, Return, Start, IInv, Ready, Idle, Doing, NoCall
  <2> QED BY <2>1 DEF FreshInv, OnFresh, FreshStack, Doing, NoCall
<1> QED BY <1>1, <1>2, <1>3, <1>4 DEF Next

LEMMA AlwaysFreshInv == Spec => []FreshInv
<1>1. Init => FreshInv
  BY DEF Init, FreshInv, OnFresh, Doing, NoCall
<1>2. ASSUME IInv, FreshInv, [Next]_vars PROVE FreshInv'
  BY <1>2, FreshStep DEF vars, FreshInv, OnFresh, FreshStack, Doing, Img, Here
<1> QED BY <1>1, <1>2, AlwaysIInv, PTL DEF Spec

(* Of the images tfs_mkfs finishes, those of at most 128 blocks mount.     *)
THEOREM FreshMountsHold == Spec => FreshMounts
<1>1. ASSUME IInv, FreshInv, [Next]_vars
      PROVE  [Doing("check") /\ call.n > 0 /\ Img = Fresh(call.n) /\ code' # PENDING =>
                (code' = TFS_SUCCESS <=> call.n <= ByteRange \div 2)]_vars
  <2> SUFFICES ASSUME Next, OnFresh, code' # PENDING
               PROVE  code' = TFS_SUCCESS <=> call.n <= Half
    BY <1>1 DEF OnFresh, Half
  <2>1. code = PENDING /\ call.n \in 1 .. NumBlocks
    BY <1>1, Busy, Open DEF OnFresh
  <2>2. FreshOutcome
    BY <1>1, FreshStep
  <2> QED BY <2>1, <2>2 DEF FreshOutcome, TFS_SUCCESS, ERR_BAD_DISK, Half
<1> QED BY <1>1, AlwaysIInv, AlwaysFreshInv, PTL DEF Spec, FreshMounts

=============================================================================
