---------------------------- MODULE TinyFSTimes ----------------------------
(***************************************************************************)
(* The times in the inodes: which call writes which, while the clock goes  *)
(* on, and what tfs_readFileInfo then shows.  tfs_writeFile has its time   *)
(* in a copy of the inode that it stores once for each block.              *)
(*                                                                         *)
(* AccessedOnly and StoredBlank are mistakes the definition that follows    *)
(* each could have made; nothing uses them.                                *)
(***************************************************************************)
EXTENDS TinyFSClient

CONSTANT MaxTime  \* where the clock stops, to bound the states

ASSUME MaxTimeAssumption == MaxTime \in Nat

VARIABLES
  clock,  \* time(NULL)
  times,  \* the three times of every block that is an inode
  copy,   \* those in the copy of the inode that tfs_writeFile has
  began   \* when the running call began

tvars == <<cvars, clock, times, copy, began>>

Times == [created : 0 .. MaxTime, modified : 0 .. MaxTime, accessed : 0 .. MaxTime]
NoTimes == [created |-> 0, modified |-> 0, accessed |-> 0]

TimesInit ==
  /\ ClientInit
  /\ clock = 0
  /\ times = [b \in Addr |-> NoTimes]
  /\ copy = NoTimes
  /\ began = 0

Tick ==
  /\ clock < MaxTime
  /\ clock' = clock + 1
  /\ UNCHANGED <<cvars, times, copy, began>>

---------------------------------------------------------------------------
(* Blocks that are no inodes have no times: _free_block clears a block.    *)
Stamp(all) ==
  times' = [b \in Addr |-> IF disk'[b].type = "INODE" THEN all[b] ELSE NoTimes]
Began == began' = IF todo' = <<>> THEN 0 ELSE IF Idle THEN clock ELSE began
Copied(t) == copy' = IF todo' = <<>> THEN NoTimes ELSE t
Keep == Began /\ Copied(copy) /\ UNCHANGED clock

(* tfs_rename takes its time for the creation of the file.                 *)
Renamed(t) == [t EXCEPT !.created = clock]
RenamesStamped(fd, name) ==
  /\ Renames(fd, name)
  /\ Stamp(IF ret'.code = TFS_SUCCESS
           THEN [times EXCEPT ![fd_table[fd]] = Renamed(@)] ELSE times)
  /\ Keep

AccessedOnly(t) == [t EXCEPT !.accessed = clock]
Modified(t) == [t EXCEPT !.modified = clock]
WritesStamped(fd, tag, size) ==
  /\ Writes(fd, tag, size)
  /\ Copied(Modified(times[fd_table[fd]]))
  /\ Stamp(times)
  /\ Began
  /\ UNCHANGED clock

(* tfs_readByte takes a time too, in a copy of the inode it stores nothing *)
(* of: tfs_seek writes another one back.                                   *)
StoredBlank(t) == NoTimes
Stored(t) == t

(* The running call goes on: tfs_openFile on a file that is there, and on  *)
(* one that was not; tfs_createDir; and the copy of tfs_writeFile.         *)
Accessed(t) == [t EXCEPT !.accessed = clock]
OpensOne(b) ==
  LET w == Head(todo)
  IN  /\ Readable(w)
      /\ Last(w)
      /\ w.call = "openFile"
      /\ Hit(w, b)
      /\ ret'.code # PENDING
Stores(b) == Doing("point") /\ b = fd_table[Head(todo).fd]

ContinuesStamped ==
  /\ Continues
  /\ Copied(copy)
  /\ Began
  /\ \/ /\ ~ Doing("newInode")
        /\ Stamp([b \in Addr |-> IF OpensOne(b) THEN Accessed(times[b])
                                 ELSE IF Stores(b) THEN Stored(copy) ELSE times[b]])
        /\ UNCHANGED clock
     \/ /\ Doing("newInode")
        /\ clock' \in clock .. MaxTime
        /\ \E between \in clock .. clock' :
             LET t == IF Head(todo).kind = "file"
                      THEN [created |-> clock, modified |-> between, accessed |-> clock']
                      ELSE [created |-> clock, accessed |-> between, modified |-> clock']
             IN  Stamp([times EXCEPT ![Head(todo).blk] = t])

(* All other calls and steps write inodes back as they read them.          *)
OthersStamped ==
  /\ \/ Formats \/ Mounts \/ Unmounts \/ RemovesRoot \/ Dies
     \/ \E path \in Paths :
          Opens(path) \/ CreatesDir(path) \/ RemovesDir(path) \/ RemovesAll(path)
     \/ \E fd \in FDs :
          \/ Closes(fd) \/ Deletes(fd) \/ Reads(fd)
          \/ \E offset \in Offsets : Seeks(fd, offset)
  /\ Stamp(times)
  /\ Keep

TimesNext ==
  \/ Tick \/ ContinuesStamped \/ OthersStamped
  \/ \E fd \in FDs :
       \/ \E name \in Names : RenamesStamped(fd, name)
       \/ \E tag \in Tags, size \in Sizes : WritesStamped(fd, tag, size)

TimesSpec == TimesInit /\ [][TimesNext]_tvars

---------------------------------------------------------------------------
FileInfo(fd) == times[fd_table[fd]]  \* tfs_readFileInfo
Succeeds == todo # <<>> /\ todo' = <<>> /\ ret'.code >= 0

(* When a call has returned, tfs_readFileInfo shows that it created a file *)
(* that was not there when the call began, or that it opened one, or wrote *)
(* other bytes to one, no earlier than then.                               *)
FilesAreDated ==
  [][Succeeds =>
       \A fd \in FDs :
         LET n    == fd_table'[fd]
             info == FileInfo(fd)'
         IN  n # 0 =>
               /\ settled.fds[fd] # n => info.accessed >= began
               /\ n \notin DOMAIN settled.tree =>
                    info.created >= began /\ info.modified >= began
               /\ n \in DOMAIN settled.tree
                    /\ settled'.tree[n].bytes # settled.tree[n].bytes =>
                      info.modified >= began]_tvars

(* No copy of an inode brings back a time that was replaced on the disk    *)
(* while the copy was kept, and no step on its way loses one.              *)
DatesNeverGoBack ==
  [][\A b \in Addr :
       disk[b].type = "INODE" /\ disk'[b].type = "INODE" =>
         \A what \in DOMAIN NoTimes : times[b][what] <= times'[b][what]]_tvars
=============================================================================
