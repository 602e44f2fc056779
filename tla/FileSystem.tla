---------------------------- MODULE FileSystem ----------------------------
(***************************************************************************)
(* What TinyFS promises the program that calls it (libTinyFS.h, README):   *)
(* a tree of named files and directories, open files, and calls that do    *)
(* all of their work or none of it.  Which block holds what is invisible   *)
(* here; a file or directory is an id, its block number for the machine    *)
(* that implements this.                                                   *)
(***************************************************************************)
EXTENDS Integers, Sequences, FiniteSets

CONSTANTS
  Ids,    \* identities of files and directories
  Root,   \* the directory that is always there
  Names,  \* their names
  Paths,  \* the paths a program gives, as sequences of names
  Unreadable,  \* names that a path may not have
  FDs,    \* descriptors
  Tags,   \* buffers a program writes
  Sizes   \* sizes it writes

VARIABLES
  tree,     \* what each existing file or directory is
  handles,  \* the file behind each descriptor, Root for none
  online,   \* whether a disk is mounted
  code,     \* what the last call returned: negative for an error
  asked     \* the call that is running, or NoCall

fsVars == <<tree, handles, online, code, asked>>
state == <<tree, handles, online, code>>

(* The calls that take a while; the others return as soon as they begin.   *)
NoCall == [op |-> "none"]
PathRequest(call, path) == [op |-> call, path |-> path]
DeleteRequest(fd) == [op |-> "deleteFile", fd |-> fd]
WriteRequest(fd, tag, size) ==
  [op |-> "writeFile", fd |-> fd, tag |-> tag, size |-> size]
FormatRequest == [op |-> "mkfs"]
Requests ==
  {FormatRequest, PathRequest("removeAll", <<>>)}
    \cup {PathRequest(call, path) :
            call \in {"openFile", "createDir", "removeDir", "removeAll"},
            path \in Paths}
    \cup {DeleteRequest(fd) : fd \in FDs}
    \cup {WriteRequest(fd, tag, size) : fd \in FDs, tag \in Tags, size \in Sizes}

(* The bytes of a file that was written with size bytes of a buffer.       *)
Written(tag, size) == [o \in 1 .. size |-> <<tag, o - 1>>]
NewNode(kind, name, dir) ==
  [kind |-> kind, name |-> name, dir |-> dir, bytes |-> <<>>, off |-> 0]

IsDir(d) == d = Root \/ (d \in DOMAIN tree /\ tree[d].kind = "dir")
Children(d) == {n \in DOMAIN tree : tree[n].dir = d}
NoHandles == [fd \in FDs |-> Root]
NoTree == [n \in {} |-> n]

(* What a path leads to.                                                   *)
Nodes == DOMAIN tree \cup {Root}
Way(path, t) ==
  /\ t[0] = Root
  /\ \A i \in 1 .. Len(path) :
       /\ t[i] \in DOMAIN tree
       /\ tree[t[i]].dir = t[i - 1]
       /\ tree[t[i]].name = path[i]
At(path) == {n \in Nodes : \E t \in [0 .. Len(path) -> Nodes] :
                             Way(path, t) /\ t[Len(path)] = n}
Files(path) == {n \in At(path) : ~ IsDir(n)}
Dirs(path) == {n \in At(path) : IsDir(n)}
Upto(path, k) == SubSeq(path, 1, k)
Above(path) == Upto(path, Len(path) - 1)
Last(path) == path[Len(path)]
Readable(path) == \A i \in 1 .. Len(path) : path[i] \notin Unreadable

(* Renamed files can have the name of a directory, which paths then do not *)
(* lead through.                                                           *)
Hidden(path, k) == \E i \in 1 .. k : Files(Upto(path, i)) # {}

(* A directory and all that is below it: the least set that holds it and   *)
(* the children of what it holds.                                          *)
Below(d) ==
  LET closed == {S \in SUBSET Nodes :
                   d \in S /\ \A n \in DOMAIN tree : tree[n].dir \in S => n \in S}
  IN  {n \in Nodes : \A S \in closed : n \in S}

(* A call that returned success, and one that removed the nodes gone.      *)
Succeeds == code' = 0 /\ UNCHANGED online
Without(gone) ==
  /\ Succeeds
  /\ tree' = [n \in DOMAIN tree \ gone |-> tree[n]]
  /\ handles' = [fd \in FDs |-> IF handles[fd] \in gone THEN Root
                                ELSE handles[fd]]

FSInit ==
  /\ tree = NoTree
  /\ handles = NoHandles
  /\ online = FALSE
  /\ code < 0
  /\ asked = NoCall

(* An error leaves everything as it was, only a failed mount unmounts.     *)
Refuse == code' < 0 /\ UNCHANGED <<tree, handles, online>>
Attach == code' = 0 /\ online' = TRUE /\ handles' = NoHandles /\ UNCHANGED tree
Detach ==
  /\ online' = FALSE
  /\ handles' = NoHandles
  /\ code' <= 0
  /\ UNCHANGED tree

(* Formatting is for a disk that is not mounted.                           *)
Clear == ~ online /\ Succeeds /\ tree' = NoTree /\ UNCHANGED handles

Add(n, kind, name, dir) ==
  /\ online
  /\ IsDir(dir)
  /\ \A c \in Children(dir) : tree[c].name # name
  /\ tree' = [m \in DOMAIN tree \cup {n} |->
                IF m = n THEN NewNode(kind, name, dir) ELSE tree[m]]

MakeDir(n, name, dir) ==
  Add(n, "dir", name, dir) /\ Succeeds /\ UNCHANGED handles

Opened(fd, n) ==
  /\ handles[fd] = Root
  /\ handles' = [handles EXCEPT ![fd] = n]
  /\ code' = fd
  /\ UNCHANGED online

OpenNew(fd, n, name, dir) == Add(n, "file", name, dir) /\ Opened(fd, n)

Open(fd, n) == online /\ tree[n].kind = "file" /\ Opened(fd, n) /\ UNCHANGED tree

Close(fd) ==
  /\ handles[fd] # Root
  /\ handles' = [handles EXCEPT ![fd] = Root]
  /\ Succeeds
  /\ UNCHANGED tree

OnFile(fd) == online /\ handles[fd] # Root
File(fd) == tree[handles[fd]]
Change(fd, node) ==
  /\ OnFile(fd)
  /\ Succeeds
  /\ tree' = [tree EXCEPT ![handles[fd]] = node]
  /\ UNCHANGED handles

(* A write replaces the file; the offset goes back to the start.           *)
Write(fd, tag, size) ==
  Change(fd, [File(fd) EXCEPT !.bytes = Written(tag, size), !.off = 0])

MoveTo(fd, offset) == Change(fd, [File(fd) EXCEPT !.off = offset])

SetName(fd, name) == Change(fd, [File(fd) EXCEPT !.name = name])

(* A deleted file is closed at every descriptor.                           *)
Delete(fd) == OnFile(fd) /\ Without({handles[fd]})

RemoveEmptyDir(d) == online /\ IsDir(d) /\ Children(d) = {} /\ Without({d})

RemoveTree(d) == online /\ IsDir(d) /\ Without(Below(d) \ {Root})

---------------------------------------------------------------------------

HandleLeft == \E fd \in FDs : handles[fd] = Root

(* The calls that find what they are for, and may not refuse.              *)
Finds(path) ==
  /\ Readable(path)
  /\ \/ asked.op = "openFile" /\ Files(path) # {} /\ HandleLeft
        /\ ~ Hidden(path, Len(path) - 1)
     \/ asked.op = "removeDir" /\ (\E d \in Dirs(path) : Children(d) = {})
        /\ ~ Hidden(path, Len(path))
     \/ asked.op = "removeAll" /\ Dirs(path) # {} /\ ~ Hidden(path, Len(path))
Certain ==
  asked.op \notin {"mkfs", "deleteFile", "writeFile"} => Finds(asked.path)

Ask == asked = NoCall /\ asked' \in Requests /\ UNCHANGED state

(* Opening a file without a handle left may end the process.               *)
Answer ==
  /\ asked # NoCall
  /\ asked' = NoCall
  /\ \/ ~ Certain /\ Refuse
     \/ asked.op = "openFile" /\ ~ HandleLeft /\ Detach
     \/ asked.op = "mkfs" /\ Clear
     \/ /\ asked.op = "openFile"
        /\ \E fd \in FDs :
             \/ \E n \in Files(asked.path) : Open(fd, n)
             \/ \E n \in Ids \ DOMAIN tree, dir \in Dirs(Above(asked.path)) :
                  Readable(asked.path) /\ OpenNew(fd, n, Last(asked.path), dir)
     \/ /\ asked.op = "createDir"
        /\ Readable(asked.path)
        /\ \E n \in Ids \ DOMAIN tree, dir \in Dirs(Above(asked.path)) :
             MakeDir(n, Last(asked.path), dir)
     \/ asked.op = "removeDir" /\ \E d \in Dirs(asked.path) : RemoveEmptyDir(d)
     \/ asked.op = "removeAll" /\ \E d \in Dirs(asked.path) : RemoveTree(d)
     \/ asked.op = "deleteFile" /\ Delete(asked.fd)
     \/ asked.op = "writeFile" /\ Write(asked.fd, asked.tag, asked.size)

AtOnce ==
  /\ asked = NoCall
  /\ UNCHANGED asked
  /\ \/ Refuse \/ Attach \/ Detach
     \/ \E fd \in FDs :
          \/ Close(fd)
          \/ OnFile(fd) /\ \E offset \in 0 .. Len(File(fd).bytes) :
               MoveTo(fd, offset)
          \/ \E name \in Names : SetName(fd, name)

FSNext == Ask \/ Answer \/ AtOnce

FSSpec == FSInit /\ [][FSNext]_fsVars

=============================================================================
