---------------------------- MODULE TimesProofs -----------------------------
(***************************************************************************)
(* The dates of an inode never go back, whatever the program calls and     *)
(* wherever it dies: the copy of the inode that tfs_writeFile stores once  *)
(* for each block has the dates the disk has, or later ones.  And a call   *)
(* that succeeds leaves what it opened, made or wrote dated no earlier     *)
(* than it began: what the Story of the call says it made is dated so      *)
(* already while it runs.                                                  *)
(***************************************************************************)
EXTENDS TinyFSTimes, StoryProofs

USE Bounds

Dates == {"created", "modified", "accessed"}
NotLater(t, u) == \A what \in Dates : t[what] <= u[what]

(* The work of tfs_writeFile that needs its copy, and who it is for.       *)
Filling == {"grab", "fill", "point"}
Writer(fd) == \E j \in 1 .. Len(todo) : todo[j].op \in Filling /\ todo[j].fd = fd

(* No date is in the future, and the copy is not older than the disk.      *)
Dated ==
  /\ clock \in Nat /\ clock <= MaxTime
  /\ times \in [Addr -> Times]
  /\ copy \in Times
  /\ \A b \in Addr, what \in Dates : times[b][what] <= clock
  /\ \A what \in Dates : copy[what] <= clock
  /\ \A fd \in FDs : Writer(fd) => NotLater(times[fd_table[fd]], copy)

---------------------------------------------------------------------------
(* Which steps leave work of tfs_writeFile to do. *)

LEMMA ResumesFor ==
  ASSUME todo \in Seq(Steps), todo # <<>>, NEW S, NEW steps \in Seq(S), Resume(steps),
         \A s \in S : s.op \in Filling => Head(todo).op \in Filling /\ s.fd = Head(todo).fd,
         NEW fd, Writer(fd)'
  PROVE  Writer(fd)
<1>1. Tail(todo) \in Seq(Steps) /\ todo' = steps \o Tail(todo)
  BY HeadAndTail DEF Resume
<1>2. PICK j \in 1 .. Len(todo') : todo'[j].op \in Filling /\ todo'[j].fd = fd
  BY DEF Writer
<1>3. CASE j <= Len(steps)
  <2>1. todo'[j] = steps[j] /\ steps[j] \in S
    BY <1>1, <1>2, <1>3
  <2>2. 1 \in 1 .. Len(todo) /\ todo[1] = Head(todo)
    OBVIOUS
  <2> QED BY <1>2, <2>1, <2>2 DEF Writer
<1>4. CASE j > Len(steps)
  <2>1. PICK i : i = j - Len(steps)
    OBVIOUS
  <2>2. i \in 1 .. Len(Tail(todo)) /\ todo'[j] = Tail(todo)[i]
    BY <1>1, <1>2, <1>4, <2>1
  <2>3. i + 1 \in 1 .. Len(todo) /\ Tail(todo)[i] = todo[i + 1]
    BY <2>2
  <2> QED BY <1>2, <2>2, <2>3 DEF Writer
<1>5. j \in Nat /\ Len(steps) \in Nat
  OBVIOUS
<1> QED BY <1>3, <1>4, <1>5

LEMMA NoWriter ==
  ASSUME todo \in Seq(Other) \/ Idle, NEW fd PROVE ~ Writer(fd)
<1>1. CASE Idle
  BY <1>1 DEF Idle, Writer
<1>2. CASE todo \in Seq(Other)
  <2>1. \A j \in 1 .. Len(todo) : todo[j] \in Other
    BY <1>2
  <2> QED BY <2>1 DEF Other, Writer, Filling
<1> QED BY <1>1, <1>2

LEMMA NoneWritesThen ==
  ASSUME todo' = <<>>, NEW fd PROVE ~ Writer(fd)'
  BY DEF Writer

(* The steps that resume with nothing, one, two or four steps of their own. *)
LEMMA ResumesNone ==
  ASSUME Inv, todo # <<>>, Resume(<<>>), NEW fd, Writer(fd)' PROVE Writer(fd)
<1>1. PICK S, steps : S = {} /\ steps = <<>>
  OBVIOUS
<1>2. steps \in Seq(S) /\ Resume(steps) /\ todo \in Seq(Steps)
  BY <1>1 DEF Inv, TypeOK
<1>3. \A s \in S : s.op \in Filling => Head(todo).op \in Filling /\ s.fd = Head(todo).fd
  BY <1>1
<1> QED BY <1>2, <1>3, ResumesFor

LEMMA ResumesOne ==
  ASSUME Inv, todo # <<>>, NEW a, Resume(<<a>>),
         a.op \in Filling => Head(todo).op \in Filling /\ a.fd = Head(todo).fd,
         NEW fd, Writer(fd)'
  PROVE  Writer(fd)
<1>1. PICK S, steps : S = {a} /\ steps = <<a>>
  OBVIOUS
<1>2. steps \in Seq(S) /\ Resume(steps) /\ todo \in Seq(Steps)
  BY <1>1 DEF Inv, TypeOK
<1>3. \A s \in S : s.op \in Filling => Head(todo).op \in Filling /\ s.fd = Head(todo).fd
  BY <1>1
<1> QED BY <1>2, <1>3, ResumesFor

LEMMA ResumesTwo ==
  ASSUME Inv, todo # <<>>, NEW a, NEW b, Resume(<<a, b>>),
         a.op \notin Filling, b.op \notin Filling, NEW fd, Writer(fd)'
  PROVE  Writer(fd)
<1>1. PICK S, steps : S = {a, b} /\ steps = <<a, b>>
  OBVIOUS
<1>2. steps \in Seq(S) /\ Resume(steps) /\ todo \in Seq(Steps)
  BY <1>1 DEF Inv, TypeOK
<1>3. \A s \in S : s.op \in Filling => Head(todo).op \in Filling /\ s.fd = Head(todo).fd
  BY <1>1
<1> QED BY <1>2, <1>3, ResumesFor

LEMMA ResumesFour ==
  ASSUME Inv, todo # <<>>, NEW a, NEW b, NEW c, NEW e, Resume(<<a, b, c>> \o <<e>>),
         \A s \in {a, b, c, e} : s.op \notin Filling, NEW fd, Writer(fd)'
  PROVE  Writer(fd)
<1>1. PICK S, steps : S = {a, b, c, e} /\ steps = <<a, b, c>> \o <<e>>
  OBVIOUS
<1>2. steps \in Seq(S) /\ Resume(steps) /\ todo \in Seq(Steps)
  <2>1. <<a, b, c>> \in Seq(S) /\ <<e>> \in Seq(S)
    BY <1>1
  <2> QED BY <1>1, <2>1, Concatenation DEF Inv, TypeOK
<1>3. \A s \in S : s.op \in Filling => Head(todo).op \in Filling /\ s.fd = Head(todo).fd
  BY <1>1
<1> QED BY <1>2, <1>3, ResumesFor

LEMMA OneAndOne == ASSUME NEW a, NEW b PROVE <<a>> \o <<b>> = <<a, b>>
<1>1. PICK S : S = {a, b}
  OBVIOUS
<1>2. <<a>> \in Seq(S) /\ <<b>> \in Seq(S) /\ <<a, b>> \in Seq(S)
  BY <1>1
<1>3. PICK x : x = <<a>> \o <<b>>
  OBVIOUS
<1>4. x \in Seq(S) /\ Len(x) = 2 /\ x[1] = a /\ x[2] = b
  BY <1>2, <1>3
<1>5. x = <<a, b>>
  BY <1>2, <1>4
<1> QED BY <1>3, <1>5

LEMMA ScanLeavesNone ==
  ASSUME Inv, ScanNext, NEW fd, Writer(fd)' PROVE Writer(fd)
<1> DEFINE s == Head(todo)
           Then(i) == Rewrite(s.path, s.dir, s.copy, i)
<1>0. todo # <<>>
  BY DEF ScanNext, Doing
<1>1. CASE Resume(<<>>)
  BY <1>0, <1>1, ResumesNone
<1>2. CASE Resume(<<Walk("removeDir", s.path, 1, SUPERBLOCK_DISKLOC)>>)
  <2>1. PICK a : a = Walk("removeDir", s.path, 1, SUPERBLOCK_DISKLOC)
    OBVIOUS
  <2>2. a.op \notin Filling
    BY <2>1 DEF Walk, Filling
  <2> QED BY <1>0, <1>2, <2>1, <2>2, ResumesOne
<1>3. ASSUME NEW i, NEW n, Resume(RemoveInode(n, s.dir) \o <<Then(i)>>)
      PROVE  Writer(fd)
  <2>1. PICK a, b, c, e : a = Release(disk[n].ptr, 1) /\ b = FreeBody(n)
                          /\ c = Unlink(n, s.dir) /\ e = Then(i)
    OBVIOUS
  <2>2. \A x \in {a, b, c, e} : x.op \notin Filling
    BY <2>1 DEF Release, FreeBody, Unlink, Rewrite, Filling
  <2>3. Resume(<<a, b, c>> \o <<e>>)
    BY <1>3, <2>1 DEF RemoveInode
  <2> QED BY <1>0, <2>2, <2>3, ResumesFour
<1>4. ASSUME NEW i, NEW path,
             Resume(<<Walk("removeAll", path, 1, SUPERBLOCK_DISKLOC)>> \o <<Then(i)>>)
      PROVE  Writer(fd)
  <2>1. PICK a, b : a = Walk("removeAll", path, 1, SUPERBLOCK_DISKLOC) /\ b = Then(i)
    OBVIOUS
  <2>2. a.op \notin Filling /\ b.op \notin Filling
    BY <2>1 DEF Walk, Rewrite, Filling
  <2>3. <<a>> \o <<b>> = <<a, b>>
    BY OneAndOne
  <2>4. Resume(<<a>> \o <<b>>)
    BY <1>4, <2>1
  <2>5. Resume(<<a, b>>)
    BY <2>3, <2>4, Zenon
  <2> QED BY <1>0, <2>2, <2>5, ResumesTwo
<1>5. ASSUME NEW i, Resume(<<Then(i)>>) PROVE Writer(fd)
  <2>1. Then(i).op \notin Filling
    BY DEF Rewrite, Filling
  <2> HIDE DEF Then
  <2> QED BY <1>0, <1>5, <2>1, ResumesOne
<1> QED BY <1>1, <1>2, <1>3, <1>4, <1>5 DEF ScanNext

LEMMA WritingLeavesSame ==
  ASSUME Inv, GrabBlock \/ FillBlock \/ PointToBlock, NEW fd, Writer(fd)'
  PROVE  Writer(fd)
<1> DEFINE g == Head(todo)
<1>0. todo # <<>> /\ g.op \in Filling
  BY DEF GrabBlock, FillBlock, PointToBlock, Doing, Filling
<1>1. PICK a : /\ a.fd = g.fd
               /\ todo' = <<>> \/ Resume(<<>>) \/ Resume(<<a>>)
  <2>1. ASSUME NEW inode, NEW at, NEW blk
        PROVE  /\ Grab(g.fd, g.tag, inode, at).fd = g.fd
               /\ Fill(g.fd, g.tag, inode, at, blk).fd = g.fd
               /\ Point(g.fd, g.tag, inode, at, blk).fd = g.fd
    BY DEF Grab, Fill, Point
  <2>2. CASE GrabBlock
    <3>1. todo' = <<>> \/ Resume(<<>>) \/ Resume(<<Fill(g.fd, g.tag, g.inode, g.at, FreePtr)>>)
      BY <2>2 DEF GrabBlock, Finish
    <3>2. Fill(g.fd, g.tag, g.inode, g.at, FreePtr).fd = g.fd
      BY <2>1
    <3> QED BY <3>1, <3>2
  <2>3. CASE FillBlock
    <3>1. Resume(<<Point(g.fd, g.tag, g.inode, g.at, g.blk)>>)
      BY <2>3 DEF FillBlock
    <3>2. Point(g.fd, g.tag, g.inode, g.at, g.blk).fd = g.fd
      BY <2>1
    <3> QED BY <3>1, <3>2
  <2>4. CASE PointToBlock
    <3>1. PICK inode : Resume(<<Grab(g.fd, g.tag, inode, g.at + 1)>>)
      BY <2>4 DEF PointToBlock
    <3>2. Grab(g.fd, g.tag, inode, g.at + 1).fd = g.fd
      BY <2>1
    <3> QED BY <3>1, <3>2
  <2> QED BY <2>2, <2>3, <2>4
<1>2. todo' # <<>>
  BY NoneWritesThen
<1> QED BY <1>0, <1>1, <1>2, ResumesNone, ResumesOne

LEMMA OthersLeaveNone ==
  ASSUME Inv, NEW fd, Writer(fd)',
         \/ Format \/ WalkRefuses \/ WalkOn \/ OpenFound \/ DirFound \/ NotFound
         \/ PopInode \/ WriteInode \/ LinkInode \/ RewriteDir
         \/ FreeBlockBody \/ FreeBlockHead \/ ReleaseBlocks
         \/ UnlinkFile \/ UnlinkDirectory \/ RecursionOverflows
  PROVE  Writer(fd)
<1>0. todo' # <<>>
  BY NoneWritesThen
<1>1. todo # <<>>
  BY DEF Format, WalkRefuses, WalkOn, OpenFound, DirFound, NotFound, PopInode, WriteInode,
     LinkInode, RewriteDir, FreeBlockBody, FreeBlockHead, ReleaseBlocks, UnlinkFile,
     UnlinkDirectory, RecursionOverflows, Readable, Doing
<1>2. CASE Resume(<<>>)
  BY <1>1, <1>2, ResumesNone
<1>3. ASSUME NEW a, Resume(<<a>>), a.op \notin Filling PROVE Writer(fd)
  BY <1>1, <1>3, ResumesOne
<1>4. ASSUME NEW a, NEW b, Resume(<<a, b>>), a.op \notin Filling, b.op \notin Filling
      PROVE  Writer(fd)
  BY <1>1, <1>4, ResumesTwo
<1>5. ASSUME Format, ~ Resume(<<>>) PROVE Writer(fd)
  <2>1. PICK i : Resume(<<FormatAt(i)>>)
    BY <1>5 DEF Format
  <2> QED BY <1>3, <2>1 DEF FormatAt, Filling
<1>6. ASSUME WalkOn PROVE Writer(fd)
  <2>1. PICK call, path, i, n : Resume(<<Walk(call, path, i, n)>>)
    BY <1>6 DEF WalkOn
  <2> QED BY <1>3, <2>1 DEF Walk, Filling
<1>7. ASSUME DirFound PROVE Writer(fd)
  <2>1. PICK n : \/ Resume(<<FreeBody(n), UnlinkDir(n, Head(todo).dir)>>)
                 \/ Resume(<<Scan(Head(todo).path, n, disk[n], 1)>>)
    BY <1>0, <1>7 DEF DirFound, Finish
  <2>2. FreeBody(n).op \notin Filling /\ UnlinkDir(n, Head(todo).dir).op \notin Filling
        /\ Scan(Head(todo).path, n, disk[n], 1).op \notin Filling
    BY DEF FreeBody, UnlinkDir, Scan, Filling
  <2> QED BY <1>3, <1>4, <2>1, <2>2
<1>8. ASSUME NotFound PROVE Writer(fd)
  <2>1. PICK kind, name, dir : Resume(<<Create(kind, name, dir)>>)
    BY <1>8 DEF NotFound
  <2> QED BY <1>3, <2>1 DEF Create, Filling
<1>9. ASSUME PopInode PROVE Writer(fd)
  <2>1. PICK kind, name, dir, blk, code : Resume(<<NewInode(kind, name, dir, blk, code)>>)
    BY <1>0, <1>9 DEF PopInode, Finish, Fail
  <2> QED BY <1>3, <2>1 DEF NewInode, Filling
<1>10. ASSUME WriteInode PROVE Writer(fd)
  <2>1. PICK blk, dir, code : Resume(<<Link(blk, dir, code)>>)
    BY <1>10 DEF WriteInode
  <2> QED BY <1>3, <2>1 DEF Link, Filling
<1>11. ASSUME RewriteDir PROVE Writer(fd)
  <2>1. PICK path, dir, copied, i : Resume(<<Scan(path, dir, copied, i)>>)
    BY <1>11 DEF RewriteDir
  <2> QED BY <1>3, <2>1 DEF Scan, Filling
<1>12. ASSUME FreeBlockBody PROVE Writer(fd)
  <2>1. PICK b : Resume(<<FreeHead(b)>>)
    BY <1>12 DEF FreeBlockBody
  <2> QED BY <1>3, <2>1 DEF FreeHead, Filling
<1>13. ASSUME ReleaseBlocks, ~ Resume(<<>>) PROVE Writer(fd)
  <2>1. PICK b, ptr, i : Resume(<<FreeHead(b), Release(ptr, i)>>)
    BY <1>13 DEF ReleaseBlocks
  <2>2. FreeHead(b).op \notin Filling /\ Release(ptr, i).op \notin Filling
    BY DEF FreeHead, Release, Filling
  <2> QED BY <1>4, <2>1, <2>2
<1>14. CASE FreeBlockHead \/ UnlinkDirectory \/ (UnlinkFile /\ ~ Die)
  BY <1>2, <1>14 DEF FreeBlockHead, UnlinkDirectory, UnlinkFile
<1>15. CASE WalkRefuses \/ OpenFound \/ LinkInode \/ RecursionOverflows \/ Die
  BY <1>0, <1>15 DEF WalkRefuses, OpenFound, LinkInode, RecursionOverflows, Fail, Finish, Die
<1> QED BY <1>2, <1>5, <1>6, <1>7, <1>8, <1>9, <1>10, <1>11, <1>12, <1>13, <1>14, <1>15

LEMMA WritersStay == ASSUME Inv, Step, NEW fd, Writer(fd)' PROVE Writer(fd)
  BY ScanLeavesNone, WritingLeavesSame, OthersLeaveNone DEF Step

---------------------------------------------------------------------------
(* Dates. *)

LEMMA TimesFacts ==
  /\ MaxTime \in Nat
  /\ NoTimes \in Times
  /\ \A what \in Dates : NoTimes[what] = 0
  /\ DOMAIN NoTimes = Dates
  /\ \A t \in Times, what \in Dates : t[what] \in Nat /\ t[what] <= MaxTime
  BY MaxTimeAssumption DEF NoTimes, Times, Dates

LEMMA StampFacts ==
  ASSUME TypeOK', NEW all \in [Addr -> Times], Stamp(all)
  PROVE  /\ times' \in [Addr -> Times]
         /\ \A b \in Addr : times'[b] = IF disk'[b].type = "INODE" THEN all[b] ELSE NoTimes
  BY TimesFacts DEF Stamp

(* What the dates may not do in a step. *)
Forward ==
  \A b \in Addr :
    disk[b].type = "INODE" /\ disk'[b].type = "INODE" =>
      \A what \in DOMAIN NoTimes : times[b][what] <= times'[b][what]

(* A step that stores the dates all, none of them older, at most now. *)
LEMMA DatesMove ==
  ASSUME Dated, TypeOK', NEW all \in [Addr -> Times], Stamp(all),
         clock' \in Nat, clock <= clock', clock' <= MaxTime,
         \A b \in Addr, what \in Dates : times[b][what] <= all[b][what]
                                         /\ all[b][what] <= clock',
         copy' \in Times, \A what \in Dates : copy'[what] <= clock',
         \A fd \in FDs : Writer(fd)' => NotLater(all[fd_table'[fd]], copy')
  PROVE  Dated' /\ Forward
<1>1. /\ times' \in [Addr -> Times]
      /\ \A b \in Addr : times'[b] = IF disk'[b].type = "INODE" THEN all[b] ELSE NoTimes
  BY StampFacts
<1>2. \A b \in Addr, what \in Dates : times'[b][what] <= clock'
  BY <1>1, TimesFacts
<1>3. \A fd \in FDs : Writer(fd)' => NotLater(times'[fd_table'[fd]], copy')
  <2> SUFFICES ASSUME NEW fd \in FDs, Writer(fd)', NEW what \in Dates
               PROVE  times'[fd_table'[fd]][what] <= copy'[what]
    BY DEF NotLater
  <2>1. fd_table'[fd] \in Addr
    BY DEF TypeOK
  <2>2. all[fd_table'[fd]][what] <= copy'[what]
    BY DEF NotLater
  <2>3. NoTimes[what] <= copy'[what]
    BY TimesFacts
  <2> QED BY <1>1, <2>1, <2>2, <2>3
<1>4. Forward
  BY <1>1, TimesFacts DEF Forward
<1> QED BY <1>1, <1>2, <1>3, <1>4 DEF Dated

LEMMA CopiedFacts ==
  ASSUME NEW t \in Times, Copied(t), \A what \in Dates : t[what] <= clock, clock \in Nat
  PROVE  copy' \in Times /\ \A what \in Dates : copy'[what] <= clock
  BY TimesFacts DEF Copied

(* Calls that leave the dates as they are. *)
LEMMA DatesStay ==
  ASSUME Dated, TypeOK', Stamp(times), Copied(copy), UNCHANGED clock,
         \A fd \in FDs : ~ Writer(fd)'
  PROVE  Dated' /\ Forward
<1>1. copy' \in Times /\ \A what \in Dates : copy'[what] <= clock
  BY CopiedFacts DEF Dated
<1>2. \A b \in Addr, what \in Dates : times[b][what] \in Nat
  BY TimesFacts DEF Dated
<1> QED BY <1>1, <1>2, DatesMove DEF Dated

(* What a call starts with: nothing, one step or three. *)
LEMMA StartsNone == ASSUME todo' = <<>>, NEW fd PROVE ~ Writer(fd)'
  BY DEF Writer

LEMMA StartsOne ==
  ASSUME NEW a, todo' = <<a>>, a.op \notin Filling, NEW fd PROVE ~ Writer(fd)'
  BY DEF Writer

LEMMA StartsThree ==
  ASSUME NEW a, NEW b, NEW c, todo' = <<a, b, c>>, NEW fd,
         a.op \notin Filling, b.op \notin Filling, c.op \notin Filling
  PROVE  ~ Writer(fd)'
  BY DEF Writer

LEMMA OthersWriteNone ==
  ASSUME OthersStamped, NEW fd PROVE ~ Writer(fd)'
<1>1. ASSUME Idle, UNCHANGED todo PROVE ~ Writer(fd)'
  BY <1>1, StartsNone DEF Idle
<1>2. CASE Formats
  <2>1. todo' = <<FormatAt(1)>>
    BY <1>2 DEF Formats, Mkfs, Begin
  <2>2. FormatAt(1).op \notin Filling
    BY DEF FormatAt, Filling
  <2> QED BY <2>1, <2>2, StartsOne
<1>3. CASE Mounts \/ Unmounts \/ Dies
  BY <1>1, <1>3, StartsNone DEF Mounts, Mount, MountOverflows, Unmounts, Unmount, Dies, Crash,
     Die, Return, Refuse
<1>4. CASE RemovesRoot
  <2>1. PICK path, dir, copied, i : todo' = <<Scan(path, dir, copied, i)>>
    BY <1>4 DEF RemovesRoot, RemoveAllOfRoot, Begin
  <2>2. Scan(path, dir, copied, i).op \notin Filling
    BY DEF Scan, Filling
  <2> QED BY <2>1, <2>2, StartsOne
<1>5. ASSUME NEW path, Opens(path) \/ CreatesDir(path) \/ RemovesDir(path) \/ RemovesAll(path)
      PROVE  ~ Writer(fd)'
  <2>1. PICK call : PathCall(call, path)
    BY <1>5 DEF Opens, OpenFile, CreatesDir, CreateDir, RemovesDir, RemoveDir, RemovesAll, RemoveAll
  <2>2. CASE Refuse(ERR_NO_DISK_MOUNTED)
    BY <1>1, <2>2 DEF Refuse, Return
  <2>3. CASE todo' = <<Walk(call, path, 1, SUPERBLOCK_DISKLOC)>>
    <3>1. Walk(call, path, 1, SUPERBLOCK_DISKLOC).op \notin Filling
      BY DEF Walk, Filling
    <3> QED BY <2>3, <3>1, StartsOne
  <2> QED BY <2>1, <2>2, <2>3 DEF PathCall, Begin
<1>6. ASSUME NEW f, Deletes(f) PROVE ~ Writer(fd)'
  <2>1. \/ Idle /\ UNCHANGED todo
        \/ \E n, p : todo' = <<Release(disk[n].ptr, 1), FreeBody(n), Unlink(n, p)>>
    BY <1>6 DEF Deletes, DeleteFile, NotReady, Refuse, Return, Begin, RemoveInode
  <2>2. ASSUME NEW n, NEW p, todo' = <<Release(disk[n].ptr, 1), FreeBody(n), Unlink(n, p)>>
        PROVE  ~ Writer(fd)'
    <3>1. /\ Release(disk[n].ptr, 1).op \notin Filling /\ FreeBody(n).op \notin Filling
          /\ Unlink(n, p).op \notin Filling
      BY DEF Release, FreeBody, Unlink, Filling
    <3> QED BY <2>2, <3>1, StartsThree
  <2> QED BY <1>1, <2>1, <2>2
<1>7. ASSUME NEW f, \/ Closes(f) \/ Reads(f) \/ \E offset \in Offsets : Seeks(f, offset)
      PROVE  ~ Writer(fd)'
  BY <1>1, <1>7 DEF Closes, CloseFile, Reads, ReadByte, Seeks, Seek, NotReady, Refuse, Return
<1> QED BY <1>2, <1>3, <1>4, <1>5, <1>6, <1>7 DEF OthersStamped

LEMMA OthersDated ==
  ASSUME Dated, TypeOK', OthersStamped PROVE Dated' /\ Forward
<1>1. \A fd \in FDs : ~ Writer(fd)'
  BY OthersWriteNone
<1> QED BY <1>1, DatesStay DEF OthersStamped, Keep

LEMMA RenamesDated ==
  ASSUME Dated, TypeOK, TypeOK', NEW fd \in FDs, NEW name, RenamesStamped(fd, name)
  PROVE  Dated' /\ Forward
<1>1. todo' = <<>>
  BY DEF RenamesStamped, Renames, Rename, NotReady, Refuse, Return, Idle
<1>2. \A f \in FDs : ~ Writer(f)'
  BY <1>1, StartsNone
<1>3. PICK n \in Addr : n = fd_table[fd]
  BY DEF TypeOK
<1>4. PICK t, new : t = times[n] /\ new = Renamed(t)
  OBVIOUS
<1>a. t \in Times /\ \A what \in Dates : t[what] \in Nat /\ t[what] <= clock
  BY <1>4, TimesFacts DEF Dated
<1>b. clock \in Nat /\ clock <= MaxTime
  BY DEF Dated
<1>c. new \in Times /\ \A what \in Dates : t[what] <= new[what] /\ new[what] <= clock
  BY <1>4, <1>a, <1>b DEF Renamed, Times, Dates
<1>5. CASE Stamp([times EXCEPT ![n] = new])
  <2>1. PICK all : all = [times EXCEPT ![n] = new]
    OBVIOUS
  <2>2. /\ all \in [Addr -> Times]
        /\ \A b \in Addr : all[b] = IF b = n THEN new ELSE times[b]
    BY <1>c, <2>1 DEF Dated
  <2>3. \A b \in Addr, what \in Dates : times[b][what] <= all[b][what]
                                        /\ all[b][what] <= clock
    BY <1>4, <1>c, <2>2, TimesFacts DEF Dated
  <2>4. copy' \in Times /\ \A what \in Dates : copy'[what] <= clock
    BY CopiedFacts DEF RenamesStamped, Keep, Dated
  <2>5. clock' = clock
    BY DEF RenamesStamped, Keep
  <2>6. Stamp(all)
    BY <1>5, <2>1
  <2> QED BY <1>2, <1>b, <2>2, <2>3, <2>4, <2>5, <2>6, DatesMove
<1>6. CASE Stamp(times)
  BY <1>2, <1>6, DatesStay DEF RenamesStamped, Keep
<1> QED BY <1>3, <1>4, <1>5, <1>6 DEF RenamesStamped

(* The copy that tfs_writeFile makes is as new as the inode it is of. *)
LEMMA WritesDated ==
  ASSUME Dated, TypeOK, TypeOK', NEW fd \in FDs, NEW tag, NEW size,
         WritesStamped(fd, tag, size)
  PROVE  Dated' /\ Forward
<1>1. PICK n, new : n \in Addr /\ n = fd_table[fd] /\ new = Modified(times[n])
  BY DEF TypeOK
<1>2. /\ new \in Times
      /\ \A what \in Dates : times[n][what] <= new[what] /\ new[what] <= clock
  BY <1>1 DEF Dated, Modified, Times, Dates
<1>3. Copied(new) /\ Stamp(times) /\ clock' = clock
  BY <1>1 DEF WritesStamped
<1>4. copy' \in Times /\ \A what \in Dates : copy'[what] <= clock
  BY <1>2, <1>3, CopiedFacts DEF Dated
<1>5. \A f \in FDs : Writer(f)' => NotLater(times[fd_table'[f]], copy')
  <2> SUFFICES ASSUME NEW f \in FDs, Writer(f)' PROVE NotLater(times[fd_table'[f]], copy')
    OBVIOUS
  <2>1. todo' # <<>>
    BY NoneWritesThen
  <2>2. PICK ptr, inode : todo' = <<Release(ptr, 1), Grab(fd, tag, inode, 0)>>
    BY <2>1 DEF WritesStamped, Writes, WriteFile, NotReady, Refuse, Return, Begin, Idle
  <2>3. f = fd
    <3>1. PICK a, g : a = Release(ptr, 1) /\ g = Grab(fd, tag, inode, 0)
      OBVIOUS
    <3>2. a.op \notin Filling /\ g.fd = fd
      BY <3>1 DEF Release, Grab, Filling
    <3>3. todo' = <<a, g>>
      BY <2>2, <3>1
    <3>4. PICK j \in 1 .. Len(todo') : todo'[j].op \in Filling /\ todo'[j].fd = f
      BY DEF Writer
    <3> QED BY <3>2, <3>3, <3>4
  <2>4. fd_table' = fd_table
    BY <2>1 DEF WritesStamped, Writes, WriteFile, NotReady, Refuse, Return, process
  <2>5. copy' = new
    BY <1>3, <2>1 DEF Copied
  <2> QED BY <1>1, <1>2, <2>3, <2>4, <2>5 DEF NotLater
<1>6. \A b \in Addr, what \in Dates : times[b][what] \in Nat
  BY TimesFacts DEF Dated
<1> QED BY <1>3, <1>4, <1>5, <1>6, DatesMove DEF Dated

---------------------------------------------------------------------------
(* The running call goes on. *)

(* While tfs_writeFile is at work no descriptor changes. *)
LEMMA WriterAtWork ==
  ASSUME Inv, Step, NEW fd, Writer(fd)'
  PROVE  /\ Writer(fd) /\ todo' # <<>> /\ todo # <<>>
         /\ UNCHANGED fd_table
         /\ Head(todo).op \in {"release", "freeHead", "grab", "fill", "point"}
<1>1. Writer(fd) /\ todo' # <<>>
  BY WritersStay, NoneWritesThen
<1>2. todo # <<>> /\ todo \notin Seq(Other)
  BY <1>1, NoWriter DEF Idle
<1>3. \A i : todo # <<FormatAt(i)>>
  <2> SUFFICES ASSUME NEW i, todo = <<FormatAt(i)>> PROVE FALSE
    OBVIOUS
  <2>1. FormatAt(i).op \notin Filling
    BY DEF FormatAt, Filling
  <2> QED BY <1>1, <2>1 DEF Writer
<1>4. todo \in Seq(Writing)
  BY <1>2, <1>3 DEF Inv, Working, Idle
<1>5. Head(todo).op \in {"release", "freeHead", "grab", "fill", "point"}
  BY <1>2, <1>4, HeadAndTail DEF Writing
<1>6. ReleaseBlocks \/ FreeBlockHead \/ GrabBlock \/ FillBlock \/ PointToBlock
  BY <1>5 DEF Step, Format, WalkRefuses, WalkOn, OpenFound, DirFound, NotFound, PopInode,
     WriteInode, LinkInode, FreeBlockBody, UnlinkFile, UnlinkDirectory, ScanNext,
     RecursionOverflows, RewriteDir, Readable, Doing
<1>7. UNCHANGED fd_table
  BY <1>6 DEF ReleaseBlocks, FreeBlockHead, GrabBlock, FillBlock, PointToBlock, process
<1> QED BY <1>1, <1>2, <1>5, <1>7

(* A new inode gets the three readings of the clock. *)
LEMMA NewInodeDated ==
  ASSUME Dated, Inv, TypeOK', ContinuesStamped, Doing("newInode")
  PROVE  Dated' /\ Forward
<1>1. PICK between, t :
        /\ between \in clock .. clock'
        /\ clock' \in clock .. MaxTime
        /\ t = IF Head(todo).kind = "file"
               THEN [created |-> clock, modified |-> between, accessed |-> clock']
               ELSE [created |-> clock, accessed |-> between, modified |-> clock']
        /\ Stamp([times EXCEPT ![Head(todo).blk] = t])
  BY DEF ContinuesStamped
<1>2. PICK n, all : n = Head(todo).blk /\ all = [times EXCEPT ![n] = t]
  OBVIOUS
<1>3. clock \in Nat /\ clock <= MaxTime /\ MaxTime \in Nat
  BY TimesFacts DEF Dated
<1>4. clock' \in Nat /\ clock <= clock' /\ clock' <= MaxTime /\ between \in Nat
  BY <1>1, <1>3
<1>5. t \in Times /\ \A what \in Dates : clock <= t[what] /\ t[what] <= clock'
  BY <1>1, <1>3, <1>4 DEF Times, Dates
<1>6. /\ all \in [Addr -> Times]
      /\ \A b \in Addr : all[b] = IF b = n THEN t ELSE times[b]
  BY <1>2, <1>5 DEF Dated
<1>7. \A b \in Addr, what \in Dates : times[b][what] \in Nat /\ times[b][what] <= clock
  BY TimesFacts DEF Dated
<1>8. \A b \in Addr, what \in Dates : times[b][what] <= all[b][what] /\ all[b][what] <= clock'
  <2> SUFFICES ASSUME NEW b \in Addr, NEW what \in Dates
               PROVE  times[b][what] <= all[b][what] /\ all[b][what] <= clock'
    OBVIOUS
  <2>1. t[what] \in Nat
    BY <1>5, TimesFacts
  <2> QED BY <1>3, <1>4, <1>5, <1>6, <1>7, <2>1
<1>9. copy' \in Times /\ \A what \in Dates : copy'[what] <= clock
  BY CopiedFacts DEF ContinuesStamped, Dated
<1>10. \A what \in Dates : copy'[what] <= clock'
  BY <1>3, <1>4, <1>9, TimesFacts
<1>11. \A fd \in FDs : ~ Writer(fd)'
  BY WriterAtWork DEF ContinuesStamped, Continues, Doing
<1>12. Stamp(all)
  BY <1>1, <1>2
<1> QED BY <1>4, <1>6, <1>8, <1>9, <1>10, <1>11, <1>12, DatesMove

LEMMA GoesOnDated ==
  ASSUME Dated, Inv, TypeOK', ContinuesStamped, ~ Doing("newInode")
  PROVE  Dated' /\ Forward
<1>1. PICK all : all = [b \in Addr |-> IF OpensOne(b) THEN Accessed(times[b])
                                       ELSE IF Stores(b) THEN Stored(copy) ELSE times[b]]
  OBVIOUS
<1>2. Stamp(all) /\ clock' = clock /\ Step /\ Copied(copy)
  BY <1>1 DEF ContinuesStamped, Continues
<1>3. clock \in Nat /\ clock <= MaxTime /\ MaxTime \in Nat
  BY TimesFacts DEF Dated
<1>4. \A b \in Addr, what \in Dates : times[b][what] \in Nat /\ times[b][what] <= clock
  BY TimesFacts DEF Dated
<1>5. ASSUME NEW b \in Addr
      PROVE  /\ Accessed(times[b]) \in Times
             /\ \A what \in Dates : times[b][what] <= Accessed(times[b])[what]
                                    /\ Accessed(times[b])[what] <= clock
  <2>1. PICK t : t = times[b]
    OBVIOUS
  <2>2. t \in Times /\ \A what \in Dates : t[what] \in Nat /\ t[what] <= clock
    BY <1>4, <2>1 DEF Dated
  <2>3. /\ Accessed(t) \in Times
        /\ \A what \in Dates : t[what] <= Accessed(t)[what] /\ Accessed(t)[what] <= clock
    BY <1>3, <2>2 DEF Accessed, Times, Dates
  <2> QED BY <2>1, <2>3
<1>6. ASSUME NEW b \in Addr, Stores(b)
      PROVE  \A what \in Dates : times[b][what] <= copy[what]
  <2>1. PICK fd : fd = Head(todo).fd
    OBVIOUS
  <2>2. todo # <<>> /\ Head(todo).op = "point" /\ b = fd_table[fd] /\ Head(todo) \in Steps
    BY <1>6, <2>1, HeadAndTail DEF Stores, Doing, Inv, TypeOK
  <2>3. fd \in FDs
    BY <2>1, <2>2, StepOf
  <2>4. 1 \in 1 .. Len(todo) /\ todo[1] = Head(todo)
    BY <2>2 DEF Inv, TypeOK
  <2>5. Writer(fd)
    BY <2>1, <2>2, <2>4 DEF Writer, Filling
  <2> QED BY <2>2, <2>3, <2>5 DEF Dated, NotLater
<1>7. \A b \in Addr : /\ all[b] \in Times
                      /\ \A what \in Dates : times[b][what] <= all[b][what]
                                             /\ all[b][what] <= clock
  <2> SUFFICES ASSUME NEW b \in Addr
               PROVE  /\ all[b] \in Times
                      /\ \A what \in Dates : times[b][what] <= all[b][what]
                                             /\ all[b][what] <= clock
    OBVIOUS
  <2>1. CASE OpensOne(b)
    BY <1>1, <1>5, <2>1
  <2>2. CASE ~ OpensOne(b) /\ Stores(b)
    <3>1. all[b] = copy
      BY <1>1, <2>2 DEF Stored
    <3> QED BY <1>6, <2>2, <3>1 DEF Dated
  <2>3. CASE ~ OpensOne(b) /\ ~ Stores(b)
    <3>1. all[b] = times[b]
      BY <1>1, <2>3
    <3> QED BY <1>4, <3>1 DEF Dated
  <2> QED BY <2>1, <2>2, <2>3
<1>8. all \in [Addr -> Times]
  BY <1>1, <1>7
<1>9. copy' \in Times /\ \A what \in Dates : copy'[what] <= clock
  BY <1>2, CopiedFacts DEF Dated
<1>10. ASSUME NEW fd \in FDs, Writer(fd)' PROVE NotLater(all[fd_table'[fd]], copy')
  <2>1. /\ Writer(fd) /\ todo' # <<>> /\ todo # <<>> /\ fd_table' = fd_table
        /\ Head(todo).op \in {"release", "freeHead", "grab", "fill", "point"}
    BY <1>2, <1>10, WriterAtWork
  <2>2. copy' = copy
    BY <1>2, <2>1 DEF Copied
  <2>3. PICK n \in Addr : n = fd_table[fd]
    BY DEF Inv, TypeOK
  <2>4. ~ OpensOne(n)
    BY <2>1 DEF OpensOne, Readable, Doing
  <2>5. all[n] = copy \/ all[n] = times[n]
    BY <1>1, <2>4 DEF Stored
  <2>6. \A what \in Dates : times[n][what] <= copy[what] /\ copy[what] \in Nat
    BY <2>1, <2>3, TimesFacts DEF Dated, NotLater
  <2> QED BY <2>1, <2>2, <2>3, <2>5, <2>6 DEF NotLater
<1> QED BY <1>2, <1>3, <1>7, <1>8, <1>9, <1>10, DatesMove

LEMMA TickDated == ASSUME Dated, Tick PROVE Dated' /\ Forward
<1>1. clock \in Nat /\ clock < MaxTime /\ MaxTime \in Nat /\ clock' = clock + 1
  BY TimesFacts DEF Dated, Tick
<1>2. /\ UNCHANGED <<disk, todo, fd_table, times, copy>>
  BY DEF Tick, cvars, vars, process
<1>3. \A fd \in FDs : Writer(fd)' <=> Writer(fd)
  BY <1>2 DEF Writer
<1>4. /\ \A b \in Addr, what \in Dates : times[b][what] \in Nat /\ times[b][what] <= clock
      /\ \A what \in Dates : copy[what] \in Nat /\ copy[what] <= clock
  BY TimesFacts DEF Dated
<1>5. Forward
  BY <1>2, <1>4, TimesFacts DEF Forward
<1> QED BY <1>1, <1>2, <1>3, <1>4, <1>5 DEF Dated

---------------------------------------------------------------------------
(* The whole program. *)

LEMMA StampedCalls == TimesNext => [Next]_vars
<1>1. ContinuesStamped => Step
  BY DEF ContinuesStamped, Continues
<1>2. OthersStamped => Next
  BY DEF OthersStamped, Next, Call, Formats, Mounts, Unmounts, RemovesRoot, Dies, Opens,
     CreatesDir, RemovesDir, RemovesAll, Closes, Deletes, Reads, Seeks
<1>3. \A fd \in FDs : \A name \in Names : RenamesStamped(fd, name) => Call
  BY DEF RenamesStamped, Renames, Call
<1>4. \A fd \in FDs : \A tag \in Tags, size \in Sizes : WritesStamped(fd, tag, size) => Call
  BY DEF WritesStamped, Writes, Call
<1>5. Tick => UNCHANGED vars
  BY DEF Tick, cvars
<1> QED BY <1>1, <1>2, <1>3, <1>4, <1>5 DEF TimesNext, Next

LEMMA DatedInit == TimesInit => Inv /\ Dated
<1> SUFFICES ASSUME TimesInit PROVE Inv /\ Dated
  OBVIOUS
<1>1. Inv
  BY InvInit DEF TimesInit, ClientInit
<1>2. todo = <<>>
  BY DEF TimesInit, ClientInit, Init
<1>3. \A fd \in FDs : ~ Writer(fd)
  BY <1>2 DEF Writer
<1>4. times = [b \in Addr |-> NoTimes] /\ copy = NoTimes /\ clock = 0
  BY DEF TimesInit
<1> QED BY <1>1, <1>3, <1>4, TimesFacts DEF Dated

LEMMA DatedNext == ASSUME Inv, Dated, TypeOK', TimesNext PROVE Dated' /\ Forward
  BY OthersDated, RenamesDated, WritesDated, NewInodeDated, GoesOnDated, TickDated
  DEF TimesNext, Inv

(* No copy of an inode brings back a date that was replaced on the disk    *)
(* while the copy was kept, whatever the program calls and wherever the    *)
(* process dies: tfs_writeFile's copy is of the inode its descriptor leads *)
(* to until the last block is written, and nothing stamps that meanwhile.  *)
THEOREM DatesOnlyGrow == TimesSpec => DatesNeverGoBack
<1>1. Inv /\ Dated /\ [TimesNext]_tvars => (Inv /\ Dated)' /\ (tvars' # tvars => Forward)
  <2>1. ASSUME Inv, Dated, TimesNext PROVE (Inv /\ Dated)' /\ Forward
    <3>1. Inv'
      BY <2>1, StampedCalls, InvNext
    <3>2. TypeOK'
      BY <3>1 DEF Inv
    <3> QED BY <2>1, <3>1, <3>2, DatedNext
  <2>2. ASSUME Inv, Dated, UNCHANGED tvars PROVE (Inv /\ Dated)'
    <3>1. UNCHANGED vars /\ UNCHANGED <<todo, fd_table, clock, times, copy>>
      BY <2>2 DEF tvars, cvars, vars, process
    <3>2. Inv'
      BY <2>2, <3>1, InvNext
    <3>3. \A fd \in FDs : Writer(fd)' <=> Writer(fd)
      BY <3>1 DEF Writer
    <3> QED BY <2>2, <3>1, <3>2, <3>3 DEF Dated
  <2> QED BY <2>1, <2>2
<1>2. [](Inv /\ Dated) /\ [][TimesNext]_tvars => [][Forward]_tvars
  <2>1. Inv /\ Dated /\ [TimesNext]_tvars => [Forward]_tvars
    BY <1>1
  <2> QED BY <2>1, PTL
<1>3. TimesSpec => [](Inv /\ Dated)
  BY <1>1, DatedInit, PTL DEF TimesSpec
<1>4. [][Forward]_tvars => DatesNeverGoBack
  BY PTL DEF DatesNeverGoBack, Forward
<1> QED BY <1>2, <1>3, <1>4, PTL DEF TimesSpec

---------------------------------------------------------------------------
(* The dates a call leaves.  While it runs, nothing is dated before it      *)
(* that it made, and what tfs_writeFile wrote.                             *)
Dating ==
  /\ began \in Nat /\ began <= clock
  /\ ~ Idle =>
       /\ \A fd \in FDs : settled.fds[fd] # 0 => settled.fds[fd] \in DOMAIN settled.tree
       /\ \A b \in Addr : disk[b].type = "INODE" /\ b \notin DOMAIN settled.tree =>
            \A what \in Dates : began <= times[b][what]
       /\ asked.op = "writeFile" =>
            LET n == settled.fds[asked.fd]
            IN  /\ began <= copy.modified
                /\ EndOf(todo).at > 0 => began <= times[n].modified
                /\ BlocksFor(asked.size) <= 0 =>
                     settled.tree[n].bytes = Promised!Written(asked.tag, asked.size)

LEMMA TypeOfOne ==
  ASSUME disk \in [Addr -> Sized], NEW n, NEW blk, disk' = [disk EXCEPT ![n] = blk],
         blk.type = "INODE" => disk[n].type = "INODE",
         NEW b \in Addr, disk'[b].type = "INODE"
  PROVE  disk[b].type = "INODE"
OBVIOUS

LEMMA TypesStay ==
  ASSUME disk \in [Addr -> Sized], NEW n, NEW i, NEW v,
         \/ disk' = [disk EXCEPT ![n].next = v] \/ disk' = [disk EXCEPT ![n].off = v]
         \/ disk' = [disk EXCEPT ![n].ptr = v] \/ disk' = [disk EXCEPT ![n].ptr[i] = v],
         NEW b \in Addr
  PROVE  disk'[b].type = disk[b].type
<1>1. PICK blk \in Sized : blk = disk[b]
  OBVIOUS
<1>2. DOMAIN disk = Addr
  OBVIOUS
<1>3. CASE n # b
  BY <1>2, <1>3
<1>4. CASE n = b
  <2>1. \/ disk'[b] = [blk EXCEPT !.next = v] \/ disk'[b] = [blk EXCEPT !.off = v]
        \/ disk'[b] = [blk EXCEPT !.ptr = v] \/ disk'[b] = [blk EXCEPT !.ptr[i] = v]
    BY <1>1, <1>2, <1>4
  <2> QED BY <1>1, <2>1 DEF Sized, Block
<1> QED BY <1>3, <1>4

(* Only tfs_openFile and tfs_createDir make an inode of another block. *)
LEMMA InodesWere ==
  ASSUME Story, Ownership, TypeOK, Step, ~ Doing("newInode"),
         NEW b \in Addr, disk'[b].type = "INODE"
  PROVE  disk[b].type = "INODE"
<1>0. disk \in [Addr -> Sized]
  BY DEF TypeOK
<1>1. CASE disk' = disk
  BY <1>1
<1>2. ASSUME NEW n, NEW m, disk' = [disk EXCEPT ![n] = FreeBlk(m)]
      PROVE  disk[b].type = "INODE"
  <2>1. FreeBlk(m).type # "INODE"
    BY DEF FreeBlk, Blank
  <2> QED BY <1>0, <1>2, <2>1, TypeOfOne
<1>3. CASE Format
  <2>1. PICK n, blk : disk' = [disk EXCEPT ![n] = blk]
                      /\ (blk = FormatSuper \/ \E i : blk = FormatBlk(i))
    BY <1>3 DEF Format
  <2> QED BY <1>0, <2>1, Unformatted, TypeOfOne
<1>4. CASE RewriteDir
  <2>1. PICK r : r = Head(todo)
    OBVIOUS
  <2>2. PICK list \in Lists : r \in ScanSteps /\ WaitsFor(disk, r, list)
    BY <1>4, <2>1, WhoRewrites DEF RewriteDir
  <2>3. r.copy \in Sized /\ r.copy.type = disk[r.dir].type
    BY <2>2 DEF WaitsFor, Alike, ScanSteps
  <2>4. PICK blk : blk = [r.copy EXCEPT !.ptr[r.at] = 0]
    OBVIOUS
  <2>5. blk.type = disk[r.dir].type
    BY <2>3, <2>4 DEF Sized, Block
  <2>6. disk' = [disk EXCEPT ![r.dir] = blk]
    BY <1>4, <2>1, <2>4 DEF RewriteDir
  <2> QED BY <1>0, <2>5, <2>6, TypeOfOne
<1>5. CASE FillBlock
  <2>1. PICK g, blk : disk' = [disk EXCEPT ![g.blk] = blk] /\ blk = Filled(disk[g.blk], g.tag, g.at)
    BY <1>0, <1>5 DEF FillBlock
  <2>2. CASE g.blk \in Addr
    <3>1. PICK old \in Sized : old = disk[g.blk]
      BY <1>0, <2>2
    <3>2. blk.type = "FILEEX"
      BY <2>1, <3>1 DEF Filled, Sized, Block
    <3> QED BY <1>0, <2>1, <3>2, TypeOfOne
  <2>3. CASE g.blk \notin Addr
    <3>1. disk'[b] = disk[b]
      BY <1>0, <2>1, <2>3
    <3> QED BY <3>1
  <2> QED BY <2>2, <2>3
<1>6. CASE PointToBlock
  <2>1. PICK op : op = "point" /\ Doing(op)
    BY <1>6 DEF PointToBlock
  <2>2. PICK list \in Lists, g \in WriteSteps, n \in Addr :
          WritesTo(g, n) /\ Took(g, n) /\ todo = <<g>> /\ Places(g, n, list)
    BY <2>1, WhoFills
  <2>3. disk[n].type = "INODE"
    BY <2>2, Ends DEF WritesTo, Places, Sound, Owns, Shaped
  <2>4. Head(todo) = g /\ fd_table[g.fd] = n
    BY <2>2, WriteFacts
  <2>5. PICK blk : disk' = [disk EXCEPT ![n] = blk]
    BY <1>6, <2>4 DEF PointToBlock
  <2> QED BY <1>0, <2>3, <2>5, TypeOfOne
<1>7. CASE FreeBlockBody \/ ReleaseBlocks
  BY <1>1, <1>2, <1>7 DEF FreeBlockBody, ReleaseBlocks, Freed
<1>8. CASE PopInode \/ FreeBlockHead \/ GrabBlock
  <2>1. disk' = disk \/ \E n, v : \/ disk' = [disk EXCEPT ![n].next = v]
                                  \/ disk' = [disk EXCEPT ![n].off = v]
    BY <1>8 DEF PopInode, FreeBlockHead, GrabBlock, Popped, Fail
  <2> QED BY <1>0, <1>1, <2>1, TypesStay
<1>9. CASE LinkInode \/ UnlinkFile \/ UnlinkDirectory
  <2>1. disk' = disk \/ \E n, i, v : \/ disk' = [disk EXCEPT ![n].ptr = v]
                                     \/ disk' = [disk EXCEPT ![n].ptr[i] = v]
    BY <1>9 DEF LinkInode, UnlinkFile, UnlinkDirectory, Die
  <2> QED BY <1>0, <1>1, <2>1, TypesStay
<1>10. CASE \/ WalkRefuses \/ WalkOn \/ OpenFound \/ DirFound \/ NotFound
            \/ ScanNext \/ RecursionOverflows
  <2>1. disk' = disk
    BY <1>10 DEF WalkRefuses, WalkOn, OpenFound, DirFound, NotFound, ScanNext,
       RecursionOverflows, Fail, Die
  <2> QED BY <1>1, <2>1
<1>11. ~ WriteInode
  BY DEF WriteInode
<1> QED BY <1>3, <1>4, <1>5, <1>6, <1>7, <1>8, <1>9, <1>10, <1>11 DEF Step

(* A file that gets no block had none, and reads as before. *)
LEMMA NothingToWrite ==
  ASSUME Story, Ownership, TypeOK, Careful, Idle, NEW fd \in FDs, NEW n, n = fd_table[fd], n # 0,
         NEW size \in Sizes, NEW tag, WritesWell(fd, size), BlocksFor(size) <= 0
  PROVE  settled.tree[n].bytes = Promised!Written(tag, size)
<1>1. /\ n \in Addr /\ disk[n].kind = "file" /\ disk[n].type = "INODE"
      /\ settled.tree[n] = Node(disk, n)
  BY OpenIs
<1>2. PICK list \in Lists : AtRest(list)
  BY WhereIdle
<1>3. disk \in Disks /\ Shaped(disk) /\ Bytes(disk)
  <2>1. Sound({}, {}, {}, list)
    BY <1>2 DEF AtRest
  <2>2. disk \in Disks /\ Shaped(disk)
    BY <2>1, RestOf
  <2> QED BY <2>2, RestIs
<1>4. Gapless(disk[n].ptr) /\ disk[n].ptr \in Ptrs
  <2>1. n \in Addr \ {SUPERBLOCK_DISKLOC}
    BY <1>1, Ends
  <2>2. disk[n].ptr \in Ptrs
    BY <1>1, <1>3, DiskFields
  <2> QED BY <1>1, <1>3, <2>1, <2>2 DEF Shaped
<1>5. PICK held : held = UsedCount(disk[n].ptr)
  OBVIOUS
<1>6. held \in 0 .. Slots /\ \A j \in 1 .. Slots : disk[n].ptr[j] # 0 <=> j <= held
  BY <1>4, <1>5, HeldSlots
<1>7. BlocksFor(size) >= held
  BY <1>5 DEF WritesWell, Keeps, Careful, Mindful
<1>8. size = 0
  <2>1. size \in Nat
    OBVIOUS
  <2>2. CASE size >= 1
    <3>1. 0 \in 0 .. size - 1
      BY <2>1, <2>2
    <3> QED BY <3>1, BlockOf
  <2> QED BY <2>1, <2>2
<1>9. held = 0
  <2>1. BlocksFor(size) \in Int
    BY <1>8 DEF BlocksFor, TruncDiv
  <2> QED BY <1>6, <1>7, <2>1
<1>10. disk[n].size = 0
  BY <1>1, <1>3, <1>6, <1>9 DEF Bytes
<1>11. Node(disk, n).bytes = [o \in 1 .. 0 |-> ByteAt(disk, disk[n], o - 1)]
  BY <1>10 DEF Node
<1>12. Promised!Written(tag, size) = [o \in 1 .. 0 |-> <<tag, o - 1>>]
  BY <1>8 DEF Promised!Written
<1>13. \A o \in 1 .. 0 : FALSE
  OBVIOUS
<1> QED BY <1>1, <1>11, <1>12, <1>13

LEMMA DatingEnds ==
  ASSUME todo' = <<>>, Began, clock' \in Nat PROVE Dating'
BY DEF Dating, Began, Idle

(* The calls that have more to do, but for tfs_writeFile. *)
LEMMA OthersBegin ==
  ASSUME OthersStamped, todo' # <<>>
  PROVE  /\ Idle /\ settled' = settled /\ asked'.op # "writeFile"
         /\ disk' = disk \/ \A b \in Addr : disk'[b].type # "INODE"
<1>1. CASE Formats
  <2>1. Idle /\ Settle(Promised!FormatRequest) /\ disk' = [b \in Addr |-> Blank]
    BY <1>1 DEF Formats, Mkfs, Begin
  <2>2. Blank.type # "INODE"
    BY DEF Blank
  <2> QED BY <2>1, <2>2 DEF Settle, Promised!FormatRequest
<1>2. ~ (Mounts \/ Unmounts \/ Dies)
  BY DEF Mounts, Mount, MountOverflows, Unmounts, Unmount, Dies, Crash, Die, Return, Refuse, Idle
<1>3. ASSUME NEW call \in Lookups, NEW path, ByPath(call, path), Idle, disk' = disk
      PROVE  /\ Idle /\ settled' = settled /\ asked'.op # "writeFile"
             /\ disk' = disk
  BY <1>3 DEF ByPath, Settle, Promised!PathRequest, Lookups
<1>4. CASE RemovesRoot
  <2>1. PICK call, path : call \in Lookups /\ ByPath(call, path) /\ Idle /\ disk' = disk
    BY <1>4 DEF RemovesRoot, RemoveAllOfRoot, Begin, Lookups
  <2> QED BY <1>3, <2>1
<1>5. ASSUME NEW path, Opens(path) \/ CreatesDir(path) \/ RemovesDir(path) \/ RemovesAll(path)
      PROVE  /\ Idle /\ settled' = settled /\ asked'.op # "writeFile"
             /\ disk' = disk
  <2>1. PICK call \in Lookups : ByPath(call, path) /\ PathCall(call, path)
    BY <1>5 DEF Opens, OpenFile, CreatesDir, CreateDir, RemovesDir, RemoveDir, RemovesAll,
       RemoveAll, Lookups
  <2>2. Idle /\ disk' = disk
    BY <2>1 DEF PathCall, Refuse, Return, Begin
  <2> QED BY <1>3, <2>1, <2>2
<1>6. ASSUME NEW fd, Deletes(fd)
      PROVE  /\ Idle /\ settled' = settled /\ asked'.op # "writeFile"
             /\ disk' = disk
  <2>1. Idle /\ disk' = disk /\ Settle(Promised!DeleteRequest(fd))
    BY <1>6 DEF Deletes, DeleteFile, NotReady, Refuse, Return, Begin
  <2> QED BY <2>1 DEF Settle, Promised!DeleteRequest
<1>7. ~ \E fd : Closes(fd) \/ Reads(fd) \/ \E offset \in Offsets : Seeks(fd, offset)
  BY DEF Closes, CloseFile, Reads, ReadByte, Seeks, Seek, NotReady, Refuse, Return, Idle
<1> QED BY <1>1, <1>2, <1>4, <1>5, <1>6, <1>7 DEF OthersStamped

LEMMA OthersDating ==
  ASSUME Story, Ownership, Inv, Dated, OthersStamped PROVE Dating'
<1>1. Began /\ clock' = clock /\ clock \in Nat
  BY DEF OthersStamped, Keep, Dated
<1>2. CASE todo' = <<>>
  BY <1>1, <1>2, DatingEnds
<1>3. CASE todo' # <<>>
  <2>1. /\ Idle /\ settled' = settled /\ asked'.op # "writeFile"
        /\ disk' = disk \/ \A b \in Addr : disk'[b].type # "INODE"
    BY <1>3, OthersBegin
  <2>2. /\ \A fd \in FDs : settled.fds[fd] # 0 => settled.fds[fd] \in DOMAIN settled.tree
        /\ \A b \in Addr : disk[b].type = "INODE" => b \in DOMAIN settled.tree
    BY <2>1, AllThere DEF Inv
  <2>3. began' = clock
    BY <1>1, <1>3, <2>1 DEF Began
  <2> QED BY <1>1, <2>1, <2>2, <2>3 DEF Dating
<1> QED BY <1>2, <1>3

LEMMA RenamesDating ==
  ASSUME Dated, NEW fd, NEW name, RenamesStamped(fd, name) PROVE Dating'
<1>1. todo' = <<>>
  BY DEF RenamesStamped, Renames, Rename, NotReady, Refuse, Return, Idle
<1> QED BY <1>1, DatingEnds DEF RenamesStamped, Keep, Dated

LEMMA WritesDating ==
  ASSUME Story, Ownership, Inv, Dated, Careful, NEW fd \in FDs, NEW tag, NEW size \in Sizes,
         WritesStamped(fd, tag, size)
  PROVE  Dating'
<1>1. Began /\ clock' = clock /\ clock \in Nat
  BY DEF WritesStamped, Dated
<1>2. CASE todo' = <<>>
  BY <1>1, <1>2, DatingEnds
<1>3. CASE todo' # <<>>
  <2>1. PICK n : n = fd_table[fd]
    OBVIOUS
  <2>2. /\ Idle /\ n # 0 /\ disk' = disk /\ WritesWell(fd, size)
        /\ \E ptr, inode : todo' = <<Release(ptr, 1), Grab(fd, tag, inode, 0)>>
        /\ Settle(Promised!WriteRequest(fd, tag, size))
    BY <1>3, <2>1 DEF WritesStamped, Writes, WriteFile, NotReady, Ready, Refuse, Return, Begin, Idle
  <2>3. PICK a, g : todo' = <<a, g>> /\ g.at = 0
    BY <2>2 DEF Grab
  <2>4. EndOf(todo') = g
    BY <2>3, EndsAre
  <2>5. /\ settled' = settled
        /\ asked'.op = "writeFile" /\ asked'.fd = fd /\ asked'.tag = tag /\ asked'.size = size
    BY <1>3, <2>2 DEF Settle, Promised!WriteRequest
  <2>6. TypeOK /\ settled.fds = fd_table
    BY <2>2, RestIs DEF Inv
  <2>7. /\ \A f \in FDs : settled.fds[f] # 0 => settled.fds[f] \in DOMAIN settled.tree
        /\ \A b \in Addr : disk[b].type = "INODE" => b \in DOMAIN settled.tree
    BY <2>2, <2>6, AllThere
  <2>8. BlocksFor(size) <= 0 => settled.tree[n].bytes = Promised!Written(tag, size)
    BY <2>1, <2>2, <2>6, NothingToWrite
  <2>9. began' = clock
    BY <1>1, <1>3, <2>2 DEF Began
  <2>10. copy'.modified = clock
    <3>1. PICK t \in Times : t = times[n]
      BY <2>1, <2>6 DEF Dated, TypeOK
    <3>2. copy' = Modified(t)
      BY <1>3, <2>1, <3>1 DEF WritesStamped, Copied
    <3> QED BY <3>1, <3>2 DEF Modified, Times
  <2>11. settled'.fds[asked'.fd] = n
    BY <2>1, <2>5, <2>6
  <2> QED BY <1>1, <2>2, <2>3, <2>4, <2>5, <2>7, <2>8, <2>9, <2>10, <2>11 DEF Dating, EndOf
<1> QED BY <1>2, <1>3

LEMMA TickDating == ASSUME Dating, Dated, Tick PROVE Dating'
<1>1. /\ clock' = clock + 1 /\ clock \in Nat
      /\ UNCHANGED <<disk, todo, settled, asked, times, copy, began>>
  BY DEF Tick, cvars, vars, Dated
<1> QED BY <1>1 DEF Dating, EndOf, Idle

(* The inode of another block is dated no earlier than now. *)
LEMMA NewInodeIsNew ==
  ASSUME Dated, TypeOK, TypeOK', ContinuesStamped, Doing("newInode"),
         NEW b \in Addr, disk[b].type # "INODE", disk'[b].type = "INODE"
  PROVE  \A what \in Dates : clock <= times'[b][what]
<1>1. PICK between, t :
        /\ between \in clock .. clock'
        /\ clock' \in clock .. MaxTime
        /\ t = IF Head(todo).kind = "file"
               THEN [created |-> clock, modified |-> between, accessed |-> clock']
               ELSE [created |-> clock, accessed |-> between, modified |-> clock']
        /\ Stamp([times EXCEPT ![Head(todo).blk] = t])
  BY DEF ContinuesStamped
<1>2. clock \in Nat
  BY DEF Dated
<1>3. \A what \in Dates : clock <= t[what]
  BY <1>1, <1>2 DEF Dates
<1>4. WriteInode
  BY DEF ContinuesStamped, Continues, Step, Format, WalkRefuses, WalkOn, OpenFound, DirFound,
     NotFound, PopInode, LinkInode, FreeBlockHead, FreeBlockBody, ReleaseBlocks, UnlinkFile,
     UnlinkDirectory, ScanNext, RecursionOverflows, RewriteDir, Readable, Doing, GrabBlock,
     FillBlock, PointToBlock
<1>5. PICK n, blk : n = Head(todo).blk /\ disk' = [disk EXCEPT ![n] = blk]
  BY <1>4 DEF WriteInode
<1>6. b = n
  <2>1. disk \in [Addr -> Sized]
    BY DEF TypeOK
  <2> QED BY <1>5, <2>1
<1>7. times'[b] = t
  <2>1. PICK all : all = [times EXCEPT ![n] = t]
    OBVIOUS
  <2>2. all[b] = t
    BY <1>6, <2>1 DEF Dated
  <2>3. Stamp(all)
    BY <1>1, <1>5, <2>1
  <2> QED BY <2>2, <2>3 DEF Stamp
<1> QED BY <1>3, <1>7

(* tfs_writeFile stores its copy of the times with each block. *)
LEMMA WritingDating ==
  ASSUME Story, Ownership, Inv, Careful, Dated, TypeOK', Dating, ContinuesStamped,
         todo' # <<>>, asked.op = "writeFile"
  PROVE  LET n == settled.fds[asked.fd]
         IN  EndOf(todo').at > 0 => began <= times'[n].modified
<1>1. Step /\ Settle(asked) /\ ~ Idle /\ TypeOK
  BY StepBusy DEF ContinuesStamped, Continues, Inv
<1>2. PICK g : \E n \in Addr :
        /\ g = EndOf(todo) /\ Fills(g, n)
        /\ disk[n].type = "INODE"
        /\ EndOf(todo').at = g.at
           \/ (Doing("point") /\ Head(todo) = g /\ fd_table[g.fd] = n)
  BY <1>1, WritingNext
<1>3. PICK n \in Addr :
        /\ g = EndOf(todo) /\ Fills(g, n)
        /\ disk[n].type = "INODE"
        /\ EndOf(todo').at = g.at
           \/ (Doing("point") /\ Head(todo) = g /\ fd_table[g.fd] = n)
  BY <1>2
<1>4. n = settled.fds[asked.fd]
  BY <1>3 DEF Fills
<1>5. settled' = settled /\ asked' = asked
  BY <1>1, Ongoing
<1>6. disk'[n].type = "INODE"
  <2>1. Story'
    BY <1>1, StoryStep DEF Good, ContinuesStamped
  <2>2. MidWrite'
    BY <1>5, <2>1 DEF MidWrite, Idle
  <2>3. FillsSome'
    BY <2>2, FillsWhileWriting, PTL
  <2>4. PICK m \in Addr : Fills(EndOf(todo), m)'
    BY <2>3 DEF FillsSome
  <2> QED BY <1>4, <1>5, <2>4 DEF Fills, Inodes
<1>7. ~ Doing("newInode")
  <2>1. \E list \in Lists : AtWrite(list)
    BY <1>1, WhereWriting
  <2> QED BY <2>1, OpOf, NoneWaits DEF Doing
<1>8. Dated' /\ Forward
  BY <1>7, GoesOnDated
<1>9. /\ times[n].modified <= times'[n].modified
      /\ times[n].modified \in Nat /\ times'[n].modified \in Nat /\ began \in Nat
  BY <1>3, <1>6, <1>8, TimesFacts DEF Forward, Dated, Dates, Dating, Times
<1>10. CASE EndOf(todo').at = g.at
  BY <1>1, <1>3, <1>4, <1>9, <1>10 DEF Dating
<1>11. CASE Doing("point") /\ Head(todo) = g /\ fd_table[g.fd] = n
  <2>1. PICK all : all = [b \in Addr |-> IF OpensOne(b) THEN Accessed(times[b])
                                         ELSE IF Stores(b) THEN Stored(copy) ELSE times[b]]
    OBVIOUS
  <2>2. Stamp(all)
    BY <1>7, <2>1 DEF ContinuesStamped
  <2>3. ~ OpensOne(n) /\ Stores(n)
    BY <1>11 DEF OpensOne, Readable, Doing, Stores
  <2>4. times'[n] = copy
    BY <1>6, <2>1, <2>2, <2>3 DEF Stamp, Stored
  <2> QED BY <1>1, <1>4, <2>4 DEF Dating
<1> QED BY <1>3, <1>10, <1>11

LEMMA GoesOnDating ==
  ASSUME Story, Ownership, Inv, Careful, Dated, TypeOK', Dating, ContinuesStamped
  PROVE  Dating'
<1>1. Step /\ Settle(asked) /\ ~ Idle /\ TypeOK /\ Began /\ Copied(copy)
  BY StepBusy DEF ContinuesStamped, Continues, Inv
<1>2. Dated' /\ Forward
  BY GoesOnDated, NewInodeDated
<1>3. CASE todo' = <<>>
  BY <1>1, <1>2, <1>3, DatingEnds DEF Dated
<1>4. CASE todo' # <<>>
  <2>1. settled' = settled /\ asked' = asked /\ began' = began /\ copy' = copy
    BY <1>1, <1>4, Ongoing DEF Began, Copied
  <2>2. began \in Nat /\ began <= clock /\ clock \in Nat
    BY DEF Dating, Dated
  <2>3. clock <= clock' /\ clock' \in Nat
    BY <1>2, <2>2 DEF ContinuesStamped, Dated
  <2>4. ASSUME NEW b \in Addr, disk'[b].type = "INODE", b \notin DOMAIN settled.tree,
               NEW what \in Dates
        PROVE  began <= times'[b][what]
    <3>1. times'[b][what] \in Nat /\ times[b][what] \in Nat
      BY <1>2, TimesFacts DEF Dated
    <3>2. CASE disk[b].type = "INODE"
      <4>1. began <= times[b][what]
        BY <1>1, <2>4, <3>2 DEF Dating
      <4>2. times[b][what] <= times'[b][what]
        BY <1>2, <2>4, <3>2, TimesFacts DEF Forward
      <4> QED BY <2>2, <3>1, <4>1, <4>2
    <3>3. CASE disk[b].type # "INODE"
      <4>1. Doing("newInode")
        BY <1>1, <2>4, <3>3, InodesWere
      <4>2. clock <= times'[b][what]
        BY <1>1, <2>4, <3>3, <4>1, NewInodeIsNew
      <4> QED BY <2>2, <3>1, <4>2
    <3> QED BY <3>2, <3>3
  <2>5. /\ began' \in Nat /\ began' <= clock'
        /\ \A fd \in FDs : settled'.fds[fd] # 0 => settled'.fds[fd] \in DOMAIN settled'.tree
        /\ \A b \in Addr : disk'[b].type = "INODE" /\ b \notin DOMAIN settled'.tree =>
             \A what \in Dates : began' <= times'[b][what]
    BY <1>1, <2>1, <2>2, <2>3, <2>4 DEF Dating
  <2>6. CASE asked.op = "writeFile"
    <3>1. PICK n : n = settled.fds[asked.fd]
      OBVIOUS
    <3>2. /\ began <= copy.modified
          /\ BlocksFor(asked.size) <= 0 =>
               settled.tree[n].bytes = Promised!Written(asked.tag, asked.size)
      BY <1>1, <2>6, <3>1 DEF Dating
    <3>3. EndOf(todo').at > 0 => began <= times'[n].modified
      BY <1>4, <2>6, <3>1, WritingDating
    <3> QED BY <2>1, <2>5, <3>1, <3>2, <3>3 DEF Dating, EndOf
  <2>7. CASE asked.op # "writeFile"
    BY <2>1, <2>5, <2>7 DEF Dating
  <2> QED BY <2>6, <2>7
<1> QED BY <1>3, <1>4

LEMMA DatingInit == TimesInit => Dating
  BY DEF TimesInit, ClientInit, Init, Dating, Idle

LEMMA DatingNext ==
  ASSUME Story, Ownership, Inv, Careful, Dated, TypeOK', Dating, TimesNext PROVE Dating'
  BY OthersDating, RenamesDating, WritesDating, GoesOnDating, TickDating DEF TimesNext

---------------------------------------------------------------------------
(* A call that ends. *)

LEMMA GoesOnToEnd ==
  ASSUME Careful, TimesNext, Succeeds
  PROVE  ContinuesStamped /\ Step /\ Settle(asked) /\ ~ Idle /\ todo' = <<>> /\ ret'.code >= 0
<1>1. todo # <<>> /\ todo' = <<>> /\ ret'.code >= 0
  BY DEF Succeeds
<1>2. ~ Tick
  BY <1>1 DEF Tick, cvars, vars
<1>3. ASSUME OthersStamped PROVE FALSE
  <2>1. Idle
    BY <1>3 DEF OthersStamped, Formats, Mkfs, Begin, Mounts, Mount, MountOverflows, Unmounts,
       Unmount, Refuse, Return, RemovesRoot, RemoveAllOfRoot, Dies, May, Careful, Opens, OpenFile,
       CreatesDir, CreateDir, RemovesDir, RemoveDir, RemovesAll, RemoveAll, PathCall, Closes,
       CloseFile, Deletes, DeleteFile, NotReady, Reads, ReadByte, Seeks, Seek
  <2> QED BY <1>1, <2>1 DEF Idle
<1>4. ASSUME NEW fd, NEW name, RenamesStamped(fd, name) PROVE FALSE
  <2>1. Idle
    BY <1>4 DEF RenamesStamped, Renames, Rename, NotReady, Refuse, Return
  <2> QED BY <1>1, <2>1 DEF Idle
<1>5. ASSUME NEW fd, NEW tag, NEW size, WritesStamped(fd, tag, size) PROVE FALSE
  <2>1. Idle
    BY <1>5 DEF WritesStamped, Writes, WriteFile, NotReady, Refuse, Return, Begin
  <2> QED BY <1>1, <2>1 DEF Idle
<1>6. ContinuesStamped
  BY <1>2, <1>3, <1>4, <1>5 DEF TimesNext
<1> QED BY <1>1, <1>6 DEF ContinuesStamped, Continues, Idle

LEMMA Asked ==
  ASSUME Story, TypeOK, ~ Idle PROVE asked # Promised!NoCall
<1>1. Erases \/ Runs
  BY DEF Story, Rests
<1>2. CASE Erases
  BY <1>2 DEF Erases, Promised!FormatRequest, Promised!NoCall
<1>3. CASE Runs
  <2>1. ASSUME NEW w, LooksFor(w) PROVE asked # Promised!NoCall
    <3>1. PICK k, path : k \in Lookups /\ asked = Promised!PathRequest(k, path)
      <4>1. w \in Steps /\ w.op = "walk" /\ asked = Promised!PathRequest(w.call, w.path)
        <5>1. w = Head(todo)
          BY <2>1 DEF LooksFor
        <5> QED BY <2>1, <5>1, TopOf DEF LooksFor, Idle
      <4>2. w.call \in Lookups
        BY <4>1, StepOf DEF WalkSteps
      <4> QED BY <4>1, <4>2
    <3> QED BY <3>1 DEF Promised!PathRequest, Promised!NoCall, Lookups
  <2>2. ASSUME NEW c, Makes(c) PROVE asked # Promised!NoCall
    BY <2>2 DEF Makes, Promised!NoCall
  <2>3. ASSUME NEW gone, NEW d, Clears(gone, d) PROVE asked # Promised!NoCall
    BY <2>3 DEF Clears, Aim, Promised!NoCall
  <2>4. asked.op = "writeFile" => asked # Promised!NoCall
    BY DEF Promised!NoCall
  <2> QED BY <1>3, <2>1, <2>2, <2>3, <2>4 DEF Runs
<1> QED BY <1>1, <1>2, <1>3

(* What it answers is what the file system promises. *)
LEMMA AnswersAsPromised ==
  ASSUME Story, Ownership, Inv, TypeOK', Careful, Step, Settle(asked), ~ Idle, todo' = <<>>
  PROVE  /\ Promised!Answer
         /\ settled'.fds = fd_table' /\ settled'.code = ret'.code
         /\ Story' /\ Ownership'
<1>1. TypeOK /\ Continues
  <2>1. TypeOK
    BY DEF Inv
  <2>2. Continues
    BY Zenon DEF Continues
  <2> QED BY <2>1, <2>2
<1>2. Good
  BY <1>1, StoryStep
<1>3. asked # Promised!NoCall
  BY <1>1, Asked
<1>4. asked' = Promised!NoCall
      /\ settled' = [tree |-> Tree(disk'), fds |-> fd_table', code |-> ret'.code]
  BY DEF Settle
<1>5. Promised!FSNext
  BY <1>2, <1>3, <1>4 DEF Good, Promised!fsVars
<1>6. Promised!Answer
  BY <1>3, <1>5 DEF Promised!FSNext, Promised!Ask, Promised!AtOnce
<1>7. Ownership'
  <2>1. ClientNext
    BY <1>1 DEF ClientNext
  <2> QED BY <2>1, OwnNext DEF Careful, Dies, May
<1> QED BY <1>2, <1>4, <1>6, <1>7 DEF Good

(* A call that succeeded opened at most the descriptor it returned, and    *)
(* wrote at most the file it was given.                                    *)
LEMMA AnswerChanges ==
  ASSUME Promised!Answer, settled'.code \in Int, settled'.code >= 0, Readout,
         \A f \in FDs : settled.fds[f] # 0 => settled.fds[f] \in DOMAIN settled.tree,
         ~ mounted => \A f \in FDs : settled.fds[f] = 0,
         settled.fds \in [FDs -> Addr],
         NEW fd \in FDs, NEW n, n = settled'.fds[fd], n # 0, n \in DOMAIN settled.tree
  PROVE  /\ settled.fds[fd] # n => asked.op = "openFile" /\ fd = settled'.code
         /\ settled'.tree[n].bytes # settled.tree[n].bytes =>
              /\ asked.op = "writeFile" /\ n = settled.fds[asked.fd]
              /\ settled'.tree[n].bytes = Promised!Written(asked.tag, asked.size)
<1> DEFINE Goal == /\ settled.fds[fd] # n => asked.op = "openFile" /\ fd = settled'.code
                   /\ settled'.tree[n].bytes # settled.tree[n].bytes =>
                        /\ asked.op = "writeFile" /\ n = settled.fds[asked.fd]
                        /\ settled'.tree[n].bytes = Promised!Written(asked.tag, asked.size)
<1>0. SUPERBLOCK_DISKLOC = 0
  BY Ends
<1>1. ~ Promised!Refuse
  BY DEF Promised!Refuse
<1>2. ~ Promised!Detach
  BY <1>0 DEF Promised!Detach, Promised!NoHandles
<1>3. ~ Promised!Clear
  BY <1>0 DEF Promised!Clear
<1>4. ASSUME NEW f \in FDs, NEW m, Promised!Opened(f, m), asked.op = "openFile",
             \A k \in DOMAIN settled.tree : settled'.tree[k] = settled.tree[k]
      PROVE  Goal
  BY <1>4 DEF Promised!Opened
<1>5. ASSUME NEW m, m \notin DOMAIN settled.tree, NEW kind, NEW name, NEW dir,
             Promised!Add(m, kind, name, dir)
      PROVE  \A k \in DOMAIN settled.tree : settled'.tree[k] = settled.tree[k]
  BY <1>5 DEF Promised!Add
<1>6. ASSUME NEW gone, Promised!Without(gone) PROVE Goal
  BY <1>0, <1>6 DEF Promised!Without
<1>7. ASSUME NEW m, m \notin DOMAIN settled.tree, NEW name, NEW dir,
             Promised!MakeDir(m, name, dir)
      PROVE  Goal
  BY <1>5, <1>7 DEF Promised!MakeDir
<1>8. ASSUME asked.op = "writeFile", Promised!Write(asked.fd, asked.tag, asked.size)
      PROVE  Goal
  <2>1. PICK m, new : /\ m = settled.fds[asked.fd]
                      /\ new = [settled.tree[m] EXCEPT
                                  !.bytes = Promised!Written(asked.tag, asked.size), !.off = 0]
    OBVIOUS
  <2>2. settled'.fds = settled.fds /\ settled'.tree = [settled.tree EXCEPT ![m] = new]
    BY <1>8, <2>1 DEF Promised!Write, Promised!Change, Promised!File
  <2>3. CASE n # m
    BY <2>2, <2>3
  <2>4. CASE n = m
    <3>1. settled'.tree[n] = new
      BY <2>2, <2>4
    <3>2. "bytes" \in DOMAIN settled.tree[m]
      <4>1. PICK node : node = settled.tree[n]
        OBVIOUS
      <4>2. node = [kind |-> node.kind, name |-> node.name, dir |-> node.dir,
                    off |-> node.off, bytes |-> node.bytes]
        BY <4>1 DEF Readout
      <4>3. "bytes" \in DOMAIN node
        BY <4>2
      <4> QED BY <2>4, <4>1, <4>3
    <3> QED BY <1>8, <2>1, <2>2, <2>4, <3>1, <3>2
  <2> QED BY <2>3, <2>4
<1>9. ASSUME asked.op = "openFile",
           \E f \in FDs :
             \/ \E m \in Promised!Files(asked.path) : Promised!Open(f, m)
             \/ \E m \in (Addr \ {SUPERBLOCK_DISKLOC}) \ DOMAIN settled.tree : \E name, dir :
                  Promised!OpenNew(f, m, name, dir)
      PROVE  Goal
  BY <1>4, <1>5, <1>9 DEF Promised!Open, Promised!OpenNew
<1>10. ASSUME \E m \in (Addr \ {SUPERBLOCK_DISKLOC}) \ DOMAIN settled.tree : \E name, dir :
                Promised!MakeDir(m, name, dir)
       PROVE  Goal
  BY <1>7, <1>10
<1>11. ASSUME \E gone : Promised!Without(gone) PROVE Goal
  BY <1>6, <1>11
<1> HIDE DEF Goal
<1>12. \/ asked.op = "writeFile" /\ Promised!Write(asked.fd, asked.tag, asked.size)
       \/ asked.op = "openFile" /\
            \E f \in FDs :
              \/ \E m \in Promised!Files(asked.path) : Promised!Open(f, m)
              \/ \E m \in (Addr \ {SUPERBLOCK_DISKLOC}) \ DOMAIN settled.tree : \E name, dir :
                   Promised!OpenNew(f, m, name, dir)
       \/ asked.op = "createDir" /\
            \E m \in (Addr \ {SUPERBLOCK_DISKLOC}) \ DOMAIN settled.tree : \E name, dir :
              Promised!MakeDir(m, name, dir)
       \/ \E gone : Promised!Without(gone)
  BY <1>1, <1>2, <1>3, Zenon
     DEF Promised!Answer, Promised!RemoveEmptyDir, Promised!RemoveTree, Promised!Delete
<1>13. Goal
  BY <1>8, <1>9, <1>10, <1>11, <1>12
<1> QED BY <1>13 DEF Goal

(* tfs_openFile ends with the descriptor of a file it found, or made. *)
LEMMA OpenEnds ==
  ASSUME Story, Ownership, TypeOK, Step, todo' = <<>>, asked.op = "openFile",
         NEW fd \in FDs, fd = ret'.code, NEW n, n = fd_table'[fd]
  PROVE  OpensOne(n) \/ n \notin DOMAIN settled.tree
<1>0. ~ Idle /\ fd \in Int /\ fd >= 0
  BY StepBusy DEF FDs
<1>1. PICK w : w = Head(todo)
  OBVIOUS
<1>2. \A steps : Len(steps) > 0 => steps # <<>>
  OBVIOUS
<1>3. \A e : todo' # <<e>> \o Tail(todo)
  BY <1>0, OnTop, TopOf DEF Idle
<1>4. LooksFor(w) \/ (Makes(w) /\ w.op \in {"create", "newInode", "link"})
  BY <1>0, <1>1 DEF Story, Rests, Erases, Runs, Clears, Aim, Promised!FormatRequest
<1>5. CASE LooksFor(w)
  <2>1. Doing("walk") /\ w.call = "openFile"
    BY <1>0, <1>1, <1>5 DEF LooksFor, Doing, Idle, Promised!PathRequest
  <2>2. WalkRefuses \/ WalkOn \/ OpenFound \/ DirFound \/ NotFound
    BY <2>1 DEF Step, Format, PopInode, WriteInode, LinkInode, FreeBlockHead, FreeBlockBody,
       ReleaseBlocks, UnlinkFile, UnlinkDirectory, ScanNext, RecursionOverflows, RewriteDir,
       Doing, GrabBlock, FillBlock, PointToBlock
  <2>3. ~ WalkRefuses
    BY <1>0, ReturnedIs DEF WalkRefuses, Fail, Finish, ERR_INVALID_INPUT, ERR_DIR_NOT_FOUND,
       ERR_NOT_A_DIR
  <2>4. ~ WalkOn
    BY <1>3, Zenon DEF WalkOn, Resume
  <2>5. ~ DirFound
    BY <1>1, <2>1 DEF DirFound
  <2>6. ~ NotFound
    BY <1>3, Zenon DEF NotFound, Resume
  <2>7. OpenFound
    BY <2>2, <2>3, <2>4, <2>5, <2>6
  <2>8. PICK child \in Addr :
          /\ Hit(w, child)
          /\ \/ \E f \in FDs :
                  /\ NextFd(f)
                  /\ fd_table' = [fd_table EXCEPT ![f] = child]
                  /\ Finish(f)
             \/ Fail(ERR_OUT_OF_FDS)
             \/ Die
    BY <1>1, <2>7 DEF OpenFound
  <2>9. ret'.code # PENDING /\ ret'.code # ERR_OUT_OF_FDS
    BY <1>0 DEF PENDING, ERR_OUT_OF_FDS
  <2>10. PICK f \in FDs : fd_table' = [fd_table EXCEPT ![f] = child] /\ ret'.code = f
    BY <2>8, <2>9, ReturnedIs DEF Fail, Finish, Die
  <2>11. n = child
    BY <2>10 DEF TypeOK
  <2> QED BY <1>1, <2>7, <2>8, <2>9, <2>11 DEF OpenFound, OpensOne
<1>6. CASE Makes(w) /\ w.op \in {"create", "newInode", "link"}
  <2>1. Doing(w.op)
    BY <1>0, <1>1 DEF Doing, Idle
  <2>2. PICK op \in {"create", "newInode", "link"} : op = w.op
    BY <1>6
  <2>3. PopInode \/ WriteInode \/ LinkInode
    BY <2>1, <2>2 DEF Step, Format, WalkRefuses, WalkOn, OpenFound, DirFound, NotFound, Readable,
       FreeBlockHead, FreeBlockBody, ReleaseBlocks, UnlinkFile, UnlinkDirectory, ScanNext,
       RecursionOverflows, RewriteDir, Doing, GrabBlock, FillBlock, PointToBlock
  <2>4. ~ PopInode
    <3>1. ~ Fail(ERR_DISK_OUT_OF_SPACE) /\ ~ Finish(ERR_OUT_OF_FDS)
      BY <1>0, ReturnedIs DEF Fail, Finish, ERR_DISK_OUT_OF_SPACE, ERR_OUT_OF_FDS
    <3> QED BY <1>3, <3>1, Zenon DEF PopInode, Resume
  <2>5. ~ WriteInode
    BY <1>3, Zenon DEF WriteInode, Resume
  <2>6. LinkInode
    BY <2>3, <2>4, <2>5
  <2>7. PICK list \in Lists, c \in NewSteps :
          c = w /\ todo = <<c>> /\ c.op = op /\ Makes(c) /\ (op = "link" => Links(c, list))
    BY <1>1, <2>1, <2>2, WhoMakes
  <2>8. op = "link"
    BY <1>1, <2>2, <2>6 DEF LinkInode, Doing
  <2>9. PICK b : b = c.blk
    OBVIOUS
  <2>10. ret'.code = c.code /\ fd_table' = fd_table
    BY <1>1, <2>6, <2>7, ReturnedIs DEF LinkInode, Finish, process
  <2>11. Opened(fd, b) /\ Kept({}, {})
    BY <2>7, <2>8, <2>9, <2>10 DEF Makes
  <2>12. n = b
    BY <2>10, <2>11 DEF Opened, TypeOK
  <2>13. Sound({}, {b}, {}, list)
    BY <2>7, <2>8, <2>9 DEF Links
  <2>14. DirOf(disk, b) = {}
    <3>1. b # 0
      BY <2>7, <2>8, <2>9, Ends DEF Links
    <3>2. \A x \in Addr, i \in 1 .. Slots : disk[x].ptr[i] # 0 => disk[x].ptr[i] # b
      BY <2>13 DEF Sound, Owns, Apart, Counts
    <3> QED BY <3>1, <3>2 DEF DirOf
  <2> QED BY <2>11, <2>12, <2>14 DEF Kept, Inodes
<1> QED BY <1>4, <1>5, <1>6

(* tfs_writeFile ends with as many blocks as it needs, stored in the inode. *)
LEMMA WriteEnds ==
  ASSUME Story, Ownership, TypeOK, Step, todo' = <<>>, asked.op = "writeFile"
  PROVE  /\ EndOf(todo).at \in Nat /\ BlocksFor(asked.size) \in Int
         /\ EndOf(todo).at >= BlocksFor(asked.size)
         /\ disk[settled.fds[asked.fd]].type = "INODE"
<1>1. PICK g \in WriteSteps, n \in Addr :
        /\ g = EndOf(todo) /\ Fills(g, n)
        /\ WritesTo(g, n) /\ Took(g, n)
        /\ ~ (g.at < BlocksFor(g.inode.size))
  BY WriteStops
<1>2. n = settled.fds[asked.fd] /\ disk[n].type = "INODE" /\ g.inode.size = asked.size /\ n # 0
  BY <1>1 DEF Fills, Inodes
<1>3. g.at \in Nat
  BY StepOf DEF WriteSteps
<1>4. BlocksFor(g.inode.size) \in Nat
  BY <1>1, <1>2, NeedOf
<1> QED BY <1>1, <1>2, <1>3, <1>4

(* Between calls a descriptor in use is of an inode. *)
Rested == Story /\ Ownership /\ TypeOK /\ Idle
OpenIsLive ==
  \A fd \in FDs :
    fd_table[fd] # 0 => fd_table[fd] \in Addr /\ disk[fd_table[fd]].type = "INODE"

LEMMA OpenNow == Rested => OpenIsLive
<1> SUFFICES ASSUME Rested, NEW fd \in FDs, fd_table[fd] # 0
             PROVE  fd_table[fd] \in Addr /\ disk[fd_table[fd]].type = "INODE"
  BY DEF OpenIsLive
<1>1. Story /\ Ownership /\ TypeOK /\ Idle
  BY DEF Rested
<1>2. settled.fds = fd_table /\ DOMAIN settled.tree = Inodes(disk)
  BY <1>1, RestIs, TreeIs
<1>3. fd_table[fd] \in Inodes(disk)
  BY <1>1, <1>2, AllThere
<1> QED BY <1>3 DEF Inodes

(* The end of a call that succeeds. *)
LEMMA EndDates ==
  ASSUME Careful, Story, Ownership, Inv, Dated, Dating, TypeOK', TimesNext, Succeeds,
         NEW fd \in FDs, NEW n, n = fd_table'[fd], n # 0
  PROVE  /\ settled.fds[fd] # n => times'[n].accessed >= began
         /\ n \notin DOMAIN settled.tree =>
              times'[n].created >= began /\ times'[n].modified >= began
         /\ n \in DOMAIN settled.tree /\ settled'.tree[n].bytes # settled.tree[n].bytes =>
              times'[n].modified >= began
<1>1. /\ ContinuesStamped /\ Step /\ Settle(asked) /\ ~ Idle
      /\ todo' = <<>> /\ ret'.code >= 0 /\ TypeOK
  BY GoesOnToEnd DEF Inv
<1>2. /\ Promised!Answer
      /\ settled'.fds = fd_table' /\ settled'.code = ret'.code
      /\ Story' /\ Ownership'
  BY <1>1, AnswersAsPromised
<1>3. Dated' /\ Forward
  BY DatedNext
<1>4. n \in Addr /\ disk'[n].type = "INODE"
  <2>1. Rested'
    BY <1>1, <1>2 DEF Rested, Idle
  <2>2. OpenIsLive'
    BY <2>1, OpenNow, PTL
  <2> QED BY <2>2 DEF OpenIsLive
<1>5. times[n] \in Times /\ times'[n] \in Times /\ began \in Nat
  BY <1>3, <1>4 DEF Dated, Dating
<1>6. /\ times[n].created \in Nat /\ times[n].modified \in Nat /\ times[n].accessed \in Nat
      /\ times'[n].created \in Nat /\ times'[n].modified \in Nat /\ times'[n].accessed \in Nat
  BY <1>5, TimesFacts DEF Times
<1>7. CASE n \notin DOMAIN settled.tree
  <2>1. ~ Doing("newInode")
    <3> SUFFICES ASSUME Doing("newInode") PROVE FALSE
      OBVIOUS
    <3>1. WriteInode
      BY <1>1 DEF Step, Format, WalkRefuses, WalkOn, OpenFound, DirFound, NotFound, PopInode,
         LinkInode, FreeBlockHead, FreeBlockBody, ReleaseBlocks, UnlinkFile, UnlinkDirectory,
         ScanNext, RecursionOverflows, RewriteDir, Readable, Doing, GrabBlock, FillBlock,
         PointToBlock
    <3>2. \A e : todo' # <<e>> \o Tail(todo)
      BY <1>1, OnTop, TopOf DEF Idle
    <3> QED BY <3>1, <3>2, Zenon DEF WriteInode, Resume
  <2>2. disk[n].type = "INODE"
    BY <1>1, <1>4, <2>1, InodesWere
  <2>3. \A what \in Dates : began <= times[n][what] /\ times[n][what] <= times'[n][what]
    BY <1>1, <1>3, <1>4, <1>7, <2>2, TimesFacts DEF Dating, Forward, Dates
  <2> QED BY <1>5, <1>6, <1>7, <2>3 DEF Dates
<1>8. CASE n \in DOMAIN settled.tree
  <2>1. Readout
    BY DEF Story
  <2>2. ~ mounted => \A f \in FDs : settled.fds[f] = 0
    <3> SUFFICES ASSUME ~ mounted PROVE \A f \in FDs : settled.fds[f] = 0
      OBVIOUS
    <3>1. settled.fds = fd_table
      BY <1>1 DEF Story, Rests, Erases, Runs
    <3> QED BY <3>1 DEF Inv, UnmountedIsQuiet, NoFds
  <2>3. settled'.code \in Int /\ settled'.code >= 0
    BY <1>1, <1>2 DEF TypeOK, Result
  <2>4. \A f \in FDs : settled.fds[f] # 0 => settled.fds[f] \in DOMAIN settled.tree
    BY <1>1 DEF Dating
  <2>5. settled.fds \in [FDs -> Addr]
    BY <2>1 DEF Readout
  <2>6. n = settled'.fds[fd]
    BY <1>2
  <2>7. /\ settled.fds[fd] # n => asked.op = "openFile" /\ fd = settled'.code
        /\ settled'.tree[n].bytes # settled.tree[n].bytes =>
             /\ asked.op = "writeFile" /\ n = settled.fds[asked.fd]
             /\ settled'.tree[n].bytes = Promised!Written(asked.tag, asked.size)
    BY <1>2, <1>8, <2>1, <2>2, <2>3, <2>4, <2>5, <2>6, AnswerChanges
  <2>8. ASSUME settled.fds[fd] # n PROVE times'[n].accessed >= began
    <3>1. OpensOne(n)
      BY <1>1, <1>2, <1>8, <2>7, <2>8, OpenEnds
    <3>2. ~ Doing("newInode")
      BY <3>1 DEF OpensOne, Readable, Doing
    <3>3. PICK all : all = [b \in Addr |-> IF OpensOne(b) THEN Accessed(times[b])
                                           ELSE IF Stores(b) THEN Stored(copy) ELSE times[b]]
      OBVIOUS
    <3>4. Stamp(all)
      BY <1>1, <3>2, <3>3 DEF ContinuesStamped
    <3>5. times'[n] = Accessed(times[n])
      BY <1>4, <3>1, <3>3, <3>4 DEF Stamp
    <3>6. times'[n].accessed = clock
      BY <1>5, <3>5 DEF Accessed, Times
    <3> QED BY <3>6 DEF Dating, Dated
  <2>9. ASSUME settled'.tree[n].bytes # settled.tree[n].bytes PROVE times'[n].modified >= began
    <3>1. /\ asked.op = "writeFile" /\ n = settled.fds[asked.fd]
          /\ settled.tree[n].bytes # Promised!Written(asked.tag, asked.size)
      BY <2>7, <2>9
    <3>2. /\ EndOf(todo).at \in Nat /\ BlocksFor(asked.size) \in Int
          /\ EndOf(todo).at >= BlocksFor(asked.size)
          /\ disk[n].type = "INODE"
      BY <1>1, <3>1, WriteEnds
    <3>3. EndOf(todo).at > 0
      BY <1>1, <3>1, <3>2 DEF Dating
    <3>4. began <= times[n].modified
      BY <1>1, <3>1, <3>3 DEF Dating
    <3>5. times[n].modified <= times'[n].modified
      BY <1>3, <1>4, <3>2, TimesFacts DEF Forward, Dates
    <3> QED BY <1>5, <1>6, <3>4, <3>5
  <2> QED BY <1>8, <2>8, <2>9
<1> QED BY <1>7, <1>8

(* The dates come on top of the calls. *)
LEMMA TimesCalls == [TimesNext]_tvars => [ClientNext]_cvars
<1>1. ContinuesStamped => ClientNext
  BY DEF ContinuesStamped, ClientNext
<1>2. OthersStamped => ClientNext
  BY Zenon DEF OthersStamped, ClientNext
<1>3. \A fd \in FDs : \A name \in Names : RenamesStamped(fd, name) => ClientNext
  BY Zenon DEF RenamesStamped, ClientNext
<1>4. \A fd \in FDs : \A tag \in Tags, size \in Sizes : WritesStamped(fd, tag, size) => ClientNext
  BY Zenon DEF WritesStamped, ClientNext
<1>5. Tick => UNCHANGED cvars
  BY DEF Tick
<1>6. UNCHANGED tvars => UNCHANGED cvars
  BY DEF tvars
<1> QED BY <1>1, <1>2, <1>3, <1>4, <1>5, <1>6 DEF TimesNext

LEMMA StutterDating == ASSUME Dated, Dating, UNCHANGED tvars PROVE Dated' /\ Dating'
<1>1. UNCHANGED <<disk, todo, fd_table, settled, asked, clock, times, copy, began>>
  BY DEF tvars, cvars, vars, process
<1>2. \A fd \in FDs : Writer(fd)' <=> Writer(fd)
  BY <1>1 DEF Writer
<1>3. Dated'
  BY <1>1, <1>2 DEF Dated
<1>4. Dating'
  BY <1>1 DEF Dating, EndOf, Idle
<1> QED BY <1>3, <1>4

EndDated ==
  Succeeds =>
    \A fd \in FDs :
      LET n    == fd_table'[fd]
          info == FileInfo(fd)'
      IN  n # 0 =>
            /\ settled.fds[fd] # n => info.accessed >= began
            /\ n \notin DOMAIN settled.tree =>
                 info.created >= began /\ info.modified >= began
            /\ n \in DOMAIN settled.tree
                 /\ settled'.tree[n].bytes # settled.tree[n].bytes =>
                   info.modified >= began

(* Of a program that opens files only, shrinks none, writes what there is  *)
(* room for, formats no mounted disk and does not die: when a call has     *)
(* returned, a descriptor it opened shows a file accessed no earlier than  *)
(* the call began, a file it made one created and modified no earlier, and *)
(* a file whose bytes it changed one modified no earlier.                  *)
THEOREM FilesDated == ASSUME Careful PROVE TimesSpec => FilesAreDated
<1>1. TimesInit => ClientInit /\ Dated /\ Dating
  BY DatedInit, DatingInit DEF TimesInit
<1>2. TimesSpec => ClientSpec
  BY <1>1, TimesCalls, PTL DEF TimesSpec, ClientSpec
<1>3. Story /\ Ownership /\ Inv /\ Inv' /\ Dated /\ Dating /\ [TimesNext]_tvars =>
        (Dated /\ Dating)'
  <2>1. ASSUME Story, Ownership, Inv, Inv', Dated, Dating, TimesNext PROVE Dated' /\ Dating'
    <3>1. TypeOK'
      BY <2>1 DEF Inv
    <3> QED BY <2>1, <3>1, DatedNext, DatingNext
  <2> QED BY <2>1, StutterDating
<1>4. Story /\ Ownership /\ Inv /\ Inv' /\ Dated /\ Dating /\ [TimesNext]_tvars =>
        [EndDated]_tvars
  <2> SUFFICES ASSUME Story, Ownership, Inv, Inv', Dated, Dating, TimesNext, Succeeds,
                      NEW fd \in FDs, NEW n, n = fd_table'[fd], n # 0
               PROVE  /\ settled.fds[fd] # n => times'[n].accessed >= began
                      /\ n \notin DOMAIN settled.tree =>
                           times'[n].created >= began /\ times'[n].modified >= began
                      /\ n \in DOMAIN settled.tree
                           /\ settled'.tree[n].bytes # settled.tree[n].bytes =>
                             times'[n].modified >= began
    BY Zenon DEF EndDated, FileInfo
  <2>1. TypeOK'
    BY DEF Inv
  <2> QED BY <2>1, EndDates
<1>5. TimesSpec => [](Story /\ Ownership /\ Inv)
  BY <1>2, OwnAlways, StoryAlways, PTL
<1>6. TimesSpec => [](Dated /\ Dating)
  BY <1>1, <1>3, <1>5, PTL DEF TimesSpec
<1>7. TimesSpec => [][EndDated]_tvars
  BY <1>4, <1>5, <1>6, PTL DEF TimesSpec
<1>8. [][EndDated]_tvars => FilesAreDated
  BY PTL DEF FilesAreDated, EndDated
<1> QED BY <1>7, <1>8, PTL

=============================================================================
