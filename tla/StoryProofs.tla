---------------------------- MODULE StoryProofs ----------------------------
(***************************************************************************)
(* TinyFSClient implements FileSystem: for each action, the story of the   *)
(* call goes on, and what the call does last is what FileSystem promises.  *)
(* So every disk a careful program leaves is one it can mount again.       *)
(***************************************************************************)
EXTENDS StoryLemmas

(* The way to what a path leads to. *)

(* A removal goes on with other work, and writes nothing. *)
LEMMA ClearsGoOn ==
  ASSUME Story, Settle(asked), mounted, mounted' = mounted, disk' = disk,
         fd_table' = fd_table, NEW gone \in SUBSET Addr, NEW d \in Addr,
         Kept(gone, {}), Unopened(gone), gone \subseteq Promised!Below(d) \ {0},
         gone # {} => asked.op = "removeAll", todo' # <<>>,
         \A x \in WorkOf(todo') : Within(x, d),
         NEW h, h = Head(todo'), h.op = "walk" => Finds(h, d)',
         NEW z, z = EndOf(todo'), Aim(z, d)
  PROVE  Good
<1>1. settled' = settled
  BY Ongoing
<1>2. PICK busy : busy = Leaving(todo')
  OBVIOUS
<1>3. KeptOn(disk', gone, {})
  BY KeptIs
<1>4. KeptOn(disk', gone, busy)
  BY <1>3 DEF KeptOn
<1>5. Kept(gone, busy)'
  BY <1>1, <1>4, KeptIs
<1>6. Kept(gone, Leaving(todo))'
  BY <1>2, <1>5 DEF Leaving, WorkOf
<1>7. Unopened(gone)'
  BY <1>1 DEF Unopened
<1>8. DirsReadable(disk') /\ Bytes(disk')
  BY DEF Story
<1> QED BY <1>6, <1>7, <1>8, ClearsOn

LEMMA WhoWalks ==
  ASSUME Story, Ownership, TypeOK, Doing("walk"), NEW w, w = Head(todo)
  PROVE  \E list \in Lists, stack \in Stacks :
           /\ w \in WalkSteps /\ LooksUp(w, list, stack) /\ Waiting(disk, stack, list)
           /\ mounted /\ asked # Promised!NoCall
           /\ AtRest(list) /\ todo = <<w>> \o stack
           /\ \/ LooksFor(w) /\ stack = <<>>
              \/ \E gone \in SUBSET Addr, d \in Addr : Clears(gone, d)
<1>1. PICK list \in Lists, stack \in Stacks :
        Waiting(disk, stack, list) /\ w \in WalkSteps /\ LooksUp(w, list, stack)
  BY WhereWalk
<1>2. AtWalk(list, stack)
  BY <1>1 DEF AtWalk
<1>3. /\ mounted /\ asked # Promised!NoCall
      /\ LooksFor(w) \/ \E gone \in SUBSET Addr, d \in Addr : Clears(gone, d)
  BY <1>2, StoryAt
<1>4. AtRest(list) /\ todo = <<w>> \o stack
  BY <1>1 DEF LooksUp
<1>5. LooksFor(w) => stack = <<>>
  BY <1>4, OnTop DEF LooksFor
<1> QED BY <1>1, <1>3, <1>4, <1>5

(* A removal at a walk or a scan is about to remove nothing. *)
LEMMA LeavesNone ==
  ASSUME NEW stack \in Stacks, NEW a, ~ Unlinks(a), todo = <<a>> \o stack \/ todo = stack
  PROVE  Leaving(todo) = {}
<1>1. CASE todo = <<a>> \o stack
  <2>1. PICK u, W : u = <<a>> \o stack /\ W = {a}
    OBVIOUS
  <2>2. WorkOf(u) = W \cup WorkOf(stack)
    BY <2>1, WorkOfOne
  <2>3. Leaving(u) = {x.blk : x \in {y \in W : Unlinks(y)}}
    BY <2>2, LeavesOf
  <2> QED BY <1>1, <2>1, <2>3
<1>2. CASE todo = stack
  <2>1. \A y \in WorkOf(stack) : ~ Unlinks(y)
    BY StackWork DEF Unlinks
  <2> QED BY <1>2, <2>1 DEF Leaving
<1> QED BY <1>1, <1>2

LEMMA UntouchedStill ==
  ASSUME settled' = settled, disk' = disk, fd_table' = fd_table, Untouched
  PROVE  Untouched'
<1>1. PICK none : none = {}
  OBVIOUS
<1>2. Kept(none, none) /\ Unopened(none)
  BY <1>1 DEF Untouched
<1>3. Kept(none, none)'
  BY <1>2, KeptIs
<1>4. Unopened(none)'
  BY <1>2 DEF Unopened
<1> QED BY <1>1, <1>3, <1>4 DEF Untouched

LEMMA LeadsStill ==
  ASSUME NEW path, NEW k, NEW n
  PROVE  Leads(disk, path, k, n)' <=> Leads(disk', path, k, n)
BY DEF Leads, Trail, Hop, Named

LEMMA FindsStill ==
  ASSUME settled' = settled, asked' = asked, disk' = disk, NEW w, NEW h, NEW d,
         Finds(w, d), h.call = w.call, h.path = w.path,
         Tail(todo') = <<>> => Tail(todo) = <<>>
  PROVE  Finds(h, d)'
<1>1. PICK n \in Promised!Below(d) :
        /\ Leads(disk, w.path, Len(w.path), n)
        /\ n # 0
        /\ w.call = "removeDir" => \A i \in 1 .. Slots : disk[n].ptr[i] = 0
        /\ Tail(todo) = <<>> => n = d
  BY DEF Finds
<1>2. n \in Promised!Below(d)'
  BY AsBefore
<1>3. Leads(disk, h.path, Len(h.path), n)'
  BY <1>1, LeadsStill
<1>4. h.call = "removeDir" => \A i \in 1 .. Slots : disk'[n].ptr[i] = 0
  BY <1>1
<1>5. h.call \in {"removeDir", "removeAll"}
  BY DEF Finds
<1> QED BY <1>1, <1>2, <1>3, <1>4, <1>5 DEF Finds

LEMMA StoryWalkOn ==
  ASSUME Story, Ownership, TypeOK, TypeOK', WalkOn, Settle(asked) PROVE Good
<1>1. PICK w : w = Head(todo)
  OBVIOUS
<1>2. Doing("walk") /\ Name(w) \notin Unreadable
  BY <1>1 DEF WalkOn, Readable
<1>3. PICK list \in Lists, stack \in Stacks :
        /\ w \in WalkSteps /\ LooksUp(w, list, stack)
        /\ mounted
        /\ AtRest(list) /\ todo = <<w>> \o stack
        /\ \/ LooksFor(w) /\ stack = <<>>
           \/ \E gone \in SUBSET Addr, d \in Addr : Clears(gone, d)
  BY <1>1, <1>2, WhoWalks
<1>4. PICK child \in Addr : Resume(<<Walk(w.call, w.path, w.at + 1, child)>>)
  BY <1>1 DEF WalkOn
<1>5. PICK h : h = Walk(w.call, w.path, w.at + 1, child)
  OBVIOUS
<1>6. /\ todo' = <<h>> \o stack /\ disk' = disk /\ fd_table' = fd_table
      /\ mounted' = mounted
  <2>1. \A steps : Resume(steps) => todo' = steps \o stack
    BY <1>3, OnStack
  <2>2. Resume(<<h>>)
    BY <1>4, <1>5
  <2>3. UNCHANGED <<disk, process>>
    BY DEF WalkOn
  <2> QED BY <2>1, <2>2, <2>3 DEF process
<1>7. /\ h.op = "walk" /\ h.call = w.call /\ h.path = w.path /\ h.at = w.at + 1
      /\ todo' # <<>> /\ Head(todo') = h /\ Tail(todo') = stack /\ Tail(todo) = stack
  <2>1. h.op = "walk" /\ h.call = w.call /\ h.path = w.path /\ h.at = w.at + 1
    BY <1>5 DEF Walk
  <2>2. todo' # <<>> /\ Head(todo') = h /\ Tail(todo') = stack
    BY <1>6, OnTop DEF Stacks
  <2>3. Tail(todo) = stack
    BY <1>3, OnStack
  <2> QED BY <2>1, <2>2, <2>3
<1>8. DirsReadable(disk') /\ Bytes(disk')
  BY <1>6 DEF Story
<1>9. settled' = settled /\ asked' = asked
  BY <1>7, Ongoing
<1>10. CASE LooksFor(w) /\ stack = <<>>
  <2>1. todo' = <<h>>
    BY <1>6, <1>10, Alone
  <2>2. \A i \in 1 .. h.at - 1 : h.path[i] \notin Unreadable
    <3>1. \A i \in 1 .. w.at - 1 : w.path[i] \notin Unreadable
      BY <1>10 DEF LooksFor
    <3>2. w.at \in Nat
      BY <1>3, WalkIs
    <3>3. w.path[w.at] \notin Unreadable
      BY <1>2 DEF Name
    <3> QED BY <1>7, <3>1, <3>2, <3>3
  <2>3. Untouched'
    BY <1>6, <1>9, <1>10, UntouchedStill DEF LooksFor
  <2>4. LooksFor(h)'
    BY <1>7, <1>9, <1>10, <2>1, <2>2, <2>3 DEF LooksFor, Promised!PathRequest
  <2>5. Runs'
    BY <1>3, <1>6, <1>7, <2>4 DEF Runs
  <2> QED BY <1>6, <1>7, <1>8, <2>5, StoryGoes
<1>11. ASSUME NEW gone \in SUBSET Addr, NEW d \in Addr, Clears(gone, d) PROVE Good
  <2>1. Leaving(todo) = {}
    BY <1>3, LeavesNone DEF Unlinks, WalkSteps
  <2>2. /\ Kept(gone, {}) /\ Unopened(gone) /\ gone \subseteq Promised!Below(d) \ {0}
        /\ gone # {} => asked.op = "removeAll"
        /\ \A x \in WorkOf(todo) : Within(x, d)
        /\ Finds(w, d) /\ Aim(EndOf(todo), d)
    BY <1>1, <1>2, <1>11, <2>1 DEF Clears, EndOf, Doing
  <2>3. /\ WorkOf(todo) = {w} \cup WorkOf(stack) /\ WorkOf(todo') = {h} \cup WorkOf(stack)
        /\ EndOf(todo) = IF stack = <<>> THEN w ELSE EndOf(stack)
        /\ EndOf(todo') = IF stack = <<>> THEN h ELSE EndOf(stack)
    BY <1>3, <1>6, WorkOfOne
  <2>4. \A x \in WorkOf(todo') : Within(x, d)
    <3>1. Within(h, d)
      BY <1>7 DEF Within, Unlinks
    <3> QED BY <2>2, <2>3, <3>1
  <2>5. PICK z : z = EndOf(todo')
    OBVIOUS
  <2>6. Aim(z, d)
    <3>1. CASE stack = <<>>
      <4>1. Aim(w, d) /\ z = h /\ w.op = "walk"
        BY <1>3, <2>2, <2>3, <2>5, <3>1 DEF WalkSteps
      <4> QED BY <1>7, <4>1 DEF Aim
    <3> QED BY <2>2, <2>3, <2>5, <3>1
  <2>7. Finds(h, d)'
    BY <1>6, <1>7, <1>9, <2>2, FindsStill
  <2> QED BY <1>3, <1>6, <1>7, <2>2, <2>4, <2>5, <2>6, <2>7, ClearsGoOn
<1> QED BY <1>3, <1>10, <1>11

(* A path that tfs_removeAll made leads on. *)
LEMMA TrailFinds ==
  ASSUME Story, TypeOK, NEW list \in Lists, NEW stack, NEW w \in WalkSteps,
         LooksUp(w, list, stack), NEW d, Finds(w, d)
  PROVE  \E m \in Addr, n \in Promised!Below(d) :
           /\ \A child : Hit(w, child) <=> child = m
           /\ disk[m].kind = "dir" /\ Name(w) \notin Unreadable /\ ~ NoHit(w)
           /\ Last(w) => m = n
           /\ n # 0
           /\ w.call = "removeDir" => \A i \in 1 .. Slots : disk[n].ptr[i] = 0
           /\ Tail(todo) = <<>> => n = d
<1>1. PICK n \in Promised!Below(d) :
        /\ Leads(disk, w.path, Len(w.path), n)
        /\ n # 0
        /\ w.call = "removeDir" => \A i \in 1 .. Slots : disk[n].ptr[i] = 0
        /\ Tail(todo) = <<>> => n = d
  BY DEF Finds
<1>2. /\ w.at \in 1 .. Len(w.path) /\ Len(w.path) \in Nat
      /\ w.dir \in Addr /\ Leads(disk, w.path, w.at - 1, w.dir)
  BY WalkIs DEF LooksUp
<1>3. PICK k, j, x : k = Len(w.path) /\ j = w.at /\ x = w.dir
  OBVIOUS
<1>4. k \in Nat /\ j \in 1 .. k /\ Leads(disk, w.path, k, n) /\ Leads(disk, w.path, j - 1, x)
  BY <1>1, <1>2, <1>3
<1>5. PICK m \in Addr : Hop(disk, x, w.path[j], m) /\ (j = k => m = n)
  BY <1>4, OnLeads
<1>6. PICK i \in 1 .. Slots : First(Named(disk, w.dir, Name(w)), i) /\ m = disk[w.dir].ptr[i]
  BY <1>3, <1>5 DEF Hop, Name
<1>7. Named(disk, w.dir, Name(w)) = Matches(w.dir, Name(w))
  BY DEF Named, Matches
<1>8. \A child : Hit(w, child) <=> child = m
  <2>1. First(Matches(w.dir, Name(w)), i)
    BY <1>6, <1>7
  <2>2. \A l \in 1 .. Slots : First(Matches(w.dir, Name(w)), l) => l = i
    BY <2>1, Bounds DEF First, Matches
  <2> QED BY <1>6, <2>1, <2>2 DEF Hit
<1>9. disk[m].kind = "dir" /\ disk[m].name = Name(w) /\ ~ NoHit(w)
  BY <1>5, <1>6, <1>7 DEF Hop, NoHit, First, Named
<1>10. Name(w) \notin Unreadable
  BY <1>9 DEF Story, DirsReadable
<1> QED BY <1>1, <1>3, <1>5, <1>8, <1>9, <1>10 DEF Last

(* A call that changed nothing says so. *)
LEMMA StoryNo ==
  ASSUME Story, TypeOK, TypeOK', Settle(asked), asked # Promised!NoCall,
         Kept({}, {}), Unopened({}), Tree(disk') = Tree(disk), fd_table' = fd_table,
         mounted' = mounted, DirsReadable(disk'), Bytes(disk'),
         NEW code, code < 0, Finish(code), ~ Promised!Certain
  PROVE  Good
<1>1. todo' = <<>> /\ ret'.code < 0
  BY ReturnedIs DEF Finish
<1>2. settled.tree = Tree(disk')
  BY KeptTree DEF Story, Readout
<1>3. settled.fds = fd_table'
  <2>1. \A fd \in FDs : fd_table[fd] = settled.fds[fd]
    BY DEF Unopened
  <2> QED BY <2>1 DEF Story, Readout, TypeOK
<1>4. Promised!Refuse
  BY <1>1, <1>2, <1>3, Refused
<1>5. asked' = Promised!NoCall
  BY <1>1, Ended
<1>6. Promised!Answer
  BY <1>4, <1>5 DEF Promised!Answer
<1> QED BY <1>1, <1>6, AnswersNow

LEMMA StoryWalkRefuses ==
  ASSUME Story, Ownership, TypeOK, TypeOK', WalkRefuses, Settle(asked) PROVE Good
<1>1. PICK w : w = Head(todo)
  OBVIOUS
<1>2. /\ Doing("walk")
      /\ \/ Name(w) \in Unreadable
         \/ NoHit(w) /\ (~ Last(w) \/ w.call \in {"removeDir", "removeAll"})
         \/ /\ \E child \in Addr : Hit(w, child) /\ disk[child].kind = "file"
            /\ ~ Last(w) \/ w.call # "openFile"
  BY <1>1 DEF WalkRefuses, Readable
<1>3. PICK code : code < 0 /\ Fail(code)
  BY DEF WalkRefuses, ERR_INVALID_INPUT, ERR_DIR_NOT_FOUND, ERR_NOT_A_DIR
<1>4. PICK list \in Lists, stack \in Stacks :
        /\ w \in WalkSteps /\ LooksUp(w, list, stack)
        /\ asked # Promised!NoCall /\ AtRest(list)
        /\ \/ LooksFor(w)
           \/ \E gone \in SUBSET Addr, d \in Addr : Clears(gone, d)
  BY <1>1, <1>2, WhoWalks
<1>5. CASE LooksFor(w)
  <2>1. Leads(disk, w.path, w.at - 1, w.dir)
    BY <1>4 DEF LooksUp
  <2>2. asked = Promised!PathRequest(w.call, w.path) /\ Kept({}, {}) /\ Unopened({})
    BY <1>5 DEF LooksFor, Untouched
  <2>3. ~ Promised!Certain
    BY <1>2, <1>4, <2>1, <2>2, NoRefusal
  <2>4. disk' = disk /\ fd_table' = fd_table /\ mounted' = mounted /\ Finish(code)
    BY <1>3 DEF Fail, process
  <2>5. Tree(disk') = Tree(disk) /\ DirsReadable(disk') /\ Bytes(disk')
    BY <2>4 DEF Story
  <2> QED BY <1>3, <1>4, <2>2, <2>3, <2>4, <2>5, StoryNo
<1>6. ASSUME NEW gone \in SUBSET Addr, NEW d \in Addr, Clears(gone, d) PROVE FALSE
  <2>1. Finds(w, d)
    BY <1>1, <1>2, <1>6 DEF Clears, Doing
  <2>2. PICK m \in Addr :
          /\ \A child : Hit(w, child) <=> child = m
          /\ disk[m].kind = "dir" /\ Name(w) \notin Unreadable /\ ~ NoHit(w)
    BY <1>4, <2>1, TrailFinds
  <2> QED BY <1>2, <2>2
<1> QED BY <1>4, <1>5, <1>6

(* What there is for a path that is looked up. *)
LEMMA LookingIs ==
  ASSUME Story, TypeOK, NEW w \in WalkSteps, LooksFor(w)
  PROVE  /\ asked = Promised!PathRequest(w.call, w.path)
         /\ asked.op = w.call /\ asked.path = w.path
         /\ w.path \in AnyPath /\ w.path # <<>> /\ Len(w.path) \in Nat /\ w.path \in Paths
         /\ Kept({}, {}) /\ Unopened({})
         /\ settled.tree = Tree(disk) /\ settled.fds = fd_table
         /\ DOMAIN settled.tree \subseteq Addr
         /\ Promised!Upto(w.path, Len(w.path)) = w.path
<1>1. /\ asked = Promised!PathRequest(w.call, w.path)
      /\ Kept({}, {}) /\ Unopened({}) /\ w.path \in Paths
  BY DEF LooksFor, Untouched
<1>2. /\ w.path \in AnyPath /\ w.path # <<>> /\ Len(w.path) \in Nat
  BY WalkIs
<1>3. settled.tree = Tree(disk) /\ DOMAIN settled.tree \subseteq Addr
  BY <1>1, KeptTree DEF Story, Readout
<1>4. settled.fds = fd_table
  <2>1. \A fd \in FDs : fd_table[fd] = settled.fds[fd]
    BY <1>1 DEF Unopened
  <2> QED BY <2>1 DEF Story, Readout, TypeOK
<1>5. Promised!Upto(w.path, Len(w.path)) = w.path
  <2>1. PICK k \in 0 .. Len(w.path) : k = Len(w.path)
    BY <1>2
  <2> QED BY <1>2, <2>1, Prefix
<1>6. asked.op = w.call /\ asked.path = w.path
  BY <1>1 DEF Promised!PathRequest
<1> QED BY <1>1, <1>2, <1>3, <1>4, <1>5, <1>6

(* A file that is there is opened. *)
LEMMA OpensFound ==
  ASSUME Story, TypeOK, TypeOK', mounted, NEW w \in WalkSteps, LooksFor(w), w.call = "openFile",
         NEW list \in Lists, AtRest(list), Leads(disk, w.path, w.at - 1, w.dir), Last(w),
         NEW child \in Addr, Hit(w, child), disk[child].kind = "file",
         Settle(asked), todo' = <<>>, asked # Promised!NoCall, disk' = disk,
         NEW fd \in FDs, fd_table[fd] = 0, fd_table' = [fd_table EXCEPT ![fd] = child],
         ret'.code = fd, mounted' = mounted
  PROVE  Good
<1>1. PICK path, k : path = w.path /\ k = w.at
  OBVIOUS
<1>2. /\ asked.op = "openFile" /\ asked.path = path
      /\ path \in AnyPath /\ k \in 0 .. Len(path) /\ k = Len(path)
      /\ Kept({}, {}) /\ settled.tree = Tree(disk) /\ settled.fds = fd_table
      /\ DOMAIN settled.tree \subseteq Addr /\ Promised!Upto(path, k) = path
  BY <1>1, LookingIs, WalkIs DEF Last
<1>3. Reaches(path, k, child)
  BY <1>1, <1>2, HitReaches
<1>4. child \in Promised!At(path)
  BY <1>2, <1>3, ReachesAt
<1>5. child # 0 /\ \E i \in 1 .. Slots : disk[w.dir].ptr[i] = child
  BY HitDir
<1>6. ~ Promised!IsDir(child)
  BY <1>2, <1>5, DirIs, Ends DEF IsDirOn
<1>7. child \in Promised!Files(path)
  BY <1>4, <1>6 DEF Promised!Files
<1>8. settled.tree[child].kind = "file"
  <2>1. PICK i \in 1 .. Slots : disk[w.dir].ptr[i] = child
    BY <1>5
  <2>2. w.dir \in Addr /\ IsDirOn(disk, w.dir)
    BY HitDir, WalkIs
  <2> QED BY <1>2, <1>5, <2>1, <2>2, ChildIs
<1>9. /\ asked' = Promised!NoCall /\ settled'.tree = settled.tree
      /\ settled'.fds = [settled.fds EXCEPT ![fd] = child] /\ settled'.code = fd
  BY <1>2, Ended
<1>10. Promised!Open(fd, child)
  BY <1>2, <1>8, <1>9, Ends DEF Promised!Open, Promised!Opened
<1>11. Promised!Answer
  BY <1>2, <1>7, <1>9, <1>10 DEF Promised!Answer
<1>12. DirsReadable(disk') /\ Bytes(disk')
  BY DEF Story
<1> QED BY <1>11, <1>12, AnswersNow

(* With no descriptor left the process may die. *)
LEMMA OpensNot ==
  ASSUME Story, TypeOK, TypeOK', NEW w \in WalkSteps, LooksFor(w), w.call = "openFile",
         FdsFull, Settle(asked), asked # Promised!NoCall, Die
  PROVE  Good
<1>1. asked.op = "openFile" /\ settled.tree = Tree(disk) /\ settled.fds = fd_table
  BY LookingIs
<1>2. todo' = <<>> /\ disk' = disk /\ fd_table' = NoFds /\ mounted' = FALSE
  BY DEF Die
<1>3. ret'.code < 0
  BY ReturnedIs DEF Die, PENDING
<1>4. /\ asked' = Promised!NoCall /\ settled'.tree = settled.tree
      /\ settled'.fds = NoFds /\ settled'.code = ret'.code
  BY <1>1, <1>2, Ended
<1>5. Promised!Detach
  <2>1. settled'.code <= 0
    BY <1>3, <1>4 DEF TypeOK, Result
  <2> QED BY <1>2, <1>4, <2>1, Ends DEF Promised!Detach, Promised!NoHandles, NoFds
<1>6. ~ Promised!HandleLeft
  BY <1>1, Ends DEF Promised!HandleLeft, FdsFull
<1>7. Promised!Answer
  BY <1>1, <1>4, <1>5, <1>6 DEF Promised!Answer
<1>8. DirsReadable(disk') /\ Bytes(disk')
  BY <1>2 DEF Story
<1> QED BY <1>2, <1>7, <1>8, AnswersNow

LEMMA StoryOpenFound ==
  ASSUME Story, Ownership, TypeOK, TypeOK', Careful, OpenFound, Settle(asked) PROVE Good
<1>1. PICK w : w = Head(todo)
  OBVIOUS
<1>2. Doing("walk") /\ w.at = Len(w.path) /\ w.call = "openFile" /\ Last(w)
  BY <1>1 DEF OpenFound, Readable, Last
<1>3. PICK list \in Lists, stack \in Stacks :
        /\ w \in WalkSteps /\ LooksUp(w, list, stack)
        /\ mounted /\ asked # Promised!NoCall
        /\ AtRest(list)
        /\ \/ LooksFor(w)
           \/ \E gone \in SUBSET Addr, d \in Addr : Clears(gone, d)
  BY <1>1, <1>2, WhoWalks
<1>4. LooksFor(w)
  <2>1. ASSUME NEW gone \in SUBSET Addr, NEW d \in Addr, Clears(gone, d) PROVE FALSE
    BY <1>1, <1>2, <2>1 DEF Clears, Finds, Doing
  <2> QED BY <1>3, <2>1
<1>5. Leads(disk, w.path, w.at - 1, w.dir) /\ ~ NamesADir(w.path)
  BY <1>2, <1>3 DEF LooksUp, Careful, Mindful, Keeps
<1>6. PICK child \in Addr :
        /\ Hit(w, child)
        /\ \/ \E fd \in FDs :
                /\ NextFd(fd)
                /\ fd_table_index' = fd
                /\ fd_table' = [fd_table EXCEPT ![fd] = child]
                /\ Finish(fd)
                /\ UNCHANGED <<disk, mounted>>
           \/ FdsFull /\ Fail(ERR_OUT_OF_FDS)
           \/ FdsFull /\ Die
  BY <1>1 DEF OpenFound
<1>7. disk[child].kind = "file"
  <2>1. SUFFICES ASSUME disk[child].kind # "file" PROVE FALSE
    OBVIOUS
  <2>2. Len(w.path) \in Nat
    BY <1>3, WalkIs
  <2>3. /\ child # 0 /\ disk[child].kind \in {"file", "dir"}
        /\ Leads(disk, w.path, Len(w.path), child)
    BY <1>2, <1>3, <1>5, <1>6, <2>1, HitDir
  <2>4. Resolve(w.path) = child
    BY <2>2, <2>3, ResolveIs
  <2> QED BY <1>5, <2>1, <2>3, <2>4 DEF NamesADir
<1>8. ASSUME NEW fd \in FDs, NextFd(fd), fd_table' = [fd_table EXCEPT ![fd] = child],
             Finish(fd), UNCHANGED <<disk, mounted>>
      PROVE  Good
  <2>1. /\ fd_table[fd] = 0 /\ todo' = <<>> /\ ret'.code = fd
        /\ disk' = disk /\ mounted' = mounted
    BY <1>8, ReturnedIs DEF NextFd, Finish
  <2> QED BY <1>2, <1>3, <1>4, <1>5, <1>6, <1>7, <1>8, <2>1, OpensFound
<1>9. CASE FdsFull /\ Fail(ERR_OUT_OF_FDS)
  <2>1. PICK code : code = ERR_OUT_OF_FDS
    OBVIOUS
  <2>2. disk' = disk /\ fd_table' = fd_table /\ mounted' = mounted /\ Finish(code) /\ code < 0
    BY <1>9, <2>1 DEF Fail, process, ERR_OUT_OF_FDS
  <2>3. Kept({}, {}) /\ Unopened({})
    BY <1>3, <1>4, LookingIs
  <2>4. ~ Promised!Certain
    <3>1. SUFFICES ASSUME Promised!Certain PROVE FALSE
      OBVIOUS
    <3>2. PICK call \in Lookups, path \in AnyPath :
            /\ call = w.call /\ path = w.path /\ path # <<>>
            /\ asked = Promised!PathRequest(call, path)
            /\ DOMAIN settled.tree \subseteq Addr /\ settled.fds = fd_table
      BY <1>3, <1>4, LookingIs, WalkIs
    <3>3. \E fd \in FDs : settled.fds[fd] = 0
      BY <1>2, <3>1, <3>2, CertainFinds
    <3> QED BY <1>9, <3>2, <3>3 DEF FdsFull
  <2>5. Tree(disk') = Tree(disk) /\ DirsReadable(disk') /\ Bytes(disk')
    BY <2>2 DEF Story
  <2> QED BY <1>3, <2>2, <2>3, <2>4, <2>5, StoryNo
<1>10. CASE FdsFull /\ Die
  BY <1>2, <1>3, <1>4, <1>10, OpensNot
<1> QED BY <1>6, <1>8, <1>9, <1>10

(* A call that wants no directory, or an empty one, refuses the others. *)
LEMMA DirRefused ==
  ASSUME Story, TypeOK, NEW w \in WalkSteps, LooksFor(w),
         NEW list \in Lists, AtRest(list), Leads(disk, w.path, w.at - 1, w.dir), Last(w),
         NEW child \in Addr, Hit(w, child), disk[child].kind # "file",
         w.call = "createDir" \/ (w.call = "removeDir" /\ Empty(disk[child].ptr) # 1 .. Slots)
  PROVE  ~ Promised!Certain
<1>1. SUFFICES ASSUME Promised!Certain PROVE FALSE
  OBVIOUS
<1>2. PICK call \in Lookups, path \in AnyPath, k \in Nat :
        /\ call = w.call /\ path = w.path /\ path # <<>> /\ k = Len(path)
        /\ asked = Promised!PathRequest(call, path)
        /\ DOMAIN settled.tree \subseteq Addr /\ Kept({}, {})
  BY LookingIs, WalkIs
<1>3. /\ call # "createDir"
      /\ call # "openFile" => ~ Promised!Hidden(path, Len(path))
      /\ \E n : /\ Reaches(path, Len(path), n)
                /\ call # "openFile" => Promised!IsDir(n)
                /\ call = "removeDir" => Promised!Children(n) = {}
  BY <1>1, <1>2, CertainFinds
<1>4. call = "removeDir" /\ Empty(disk[child].ptr) # 1 .. Slots
  BY <1>2, <1>3
<1>5. PICK n : Reaches(path, k, n) /\ Promised!IsDir(n) /\ Promised!Children(n) = {}
  BY <1>2, <1>3, <1>4
<1>6. Leads(disk, path, k, n)
  BY <1>2, <1>3, <1>4, <1>5, ReachesLeads
<1>7. Leads(disk, path, k, child)
  BY <1>2, HitDir DEF Last
<1>8. n = child
  BY <1>2, <1>6, <1>7, LeadsOne
<1>9. PICK i \in 1 .. Slots : disk[child].ptr[i] # 0
  BY <1>4 DEF Empty
<1>10. IsDirOn(disk, child)
  BY <1>2, <1>7, LeadsToDir
<1>11. PICK m : m = disk[child].ptr[i]
  OBVIOUS
<1>12. m \in DOMAIN settled.tree /\ settled.tree[m].dir = child
  BY <1>2, <1>9, <1>10, <1>11, ChildIs
<1> QED BY <1>5, <1>8, <1>12 DEF Promised!Children

(* The directory that is to be removed or emptied, for d in the end. *)
Enters(w, child, stack, gone, d) ==
  /\ Kept(gone, {}) /\ Unopened(gone) /\ gone \subseteq Promised!Below(d) \ {0}
  /\ gone # {} => asked.op = "removeAll"
  /\ child \in Promised!Below(d) /\ child # 0
  /\ \A x \in WorkOf(stack) : Within(x, d)
  /\ stack = <<>> =>
       /\ d = child
       /\ asked.op \in {"removeDir", "removeAll"}
       /\ asked = Promised!PathRequest(asked.op, asked.path)
       /\ d \in Promised!Dirs(asked.path)
       /\ asked.op = "removeDir" => Promised!Children(d) = {}
       /\ w.call = "removeAll" => asked.op = "removeAll"
  /\ stack # <<>> => Aim(EndOf(stack), d)

LEMMA EntersFirst ==
  ASSUME Story, TypeOK, NEW w \in WalkSteps, LooksFor(w),
         NEW list \in Lists, AtRest(list), Leads(disk, w.path, w.at - 1, w.dir), Last(w),
         NEW child \in Addr, Hit(w, child), disk[child].kind # "file",
         w.call \in {"removeDir", "removeAll"},
         w.call = "removeDir" => Empty(disk[child].ptr) = 1 .. Slots,
         NEW stack \in Stacks, stack = <<>>
  PROVE  Enters(w, child, stack, {}, child)
<1>1. PICK path, k : path = w.path /\ k = w.at
  OBVIOUS
<1>2. /\ asked.op = w.call /\ asked.path = path
      /\ asked = Promised!PathRequest(w.call, path)
      /\ path \in AnyPath /\ k \in 0 .. Len(path) /\ k = Len(path)
      /\ Kept({}, {}) /\ Unopened({}) /\ settled.tree = Tree(disk) /\ settled.fds = fd_table
      /\ DOMAIN settled.tree \subseteq Addr /\ Promised!Upto(path, k) = path
  BY <1>1, LookingIs, WalkIs DEF Last
<1>3. /\ child # 0 /\ Leads(disk, path, k, child) /\ w.dir \in Addr /\ IsDirOn(disk, w.dir)
      /\ \E i \in 1 .. Slots : disk[w.dir].ptr[i] = child
  BY <1>1, HitDir, WalkIs
<1>4. child \in Promised!Dirs(path)
  <2>1. child \in Promised!Dirs(Promised!Upto(path, k))
    BY <1>2, <1>3, LeadsDirs
  <2> QED BY <1>2, <2>1
<1>5. child \in DOMAIN settled.tree
  BY <1>2, <1>3, ChildIs
<1>6. child \in Promised!Below(child)
  BY <1>5, BelowSelf
<1>7. w.call = "removeDir" => Promised!Children(child) = {}
  <2>1. SUFFICES ASSUME w.call = "removeDir",
                        NEW n \in DOMAIN settled.tree, settled.tree[n].dir = child
                 PROVE  FALSE
    BY DEF Promised!Children
  <2>2. PICK none : none = {}
    OBVIOUS
  <2>3. Kept(none, {}) /\ n \notin none
    BY <1>2, <2>2
  <2>4. n # 0 /\ \E i \in 1 .. Slots : disk[child].ptr[i] = n
    BY <2>1, <2>3, ChildHas
  <2> QED BY <2>1, <2>4 DEF Empty
<1>8. WorkOf(stack) = {}
  BY StackWork
<1> QED BY <1>2, <1>3, <1>4, <1>6, <1>7, <1>8 DEF Enters

LEMMA EntersNext ==
  ASSUME Story, TypeOK, NEW list \in Lists, NEW stack \in Stacks, NEW w \in WalkSteps,
         LooksUp(w, list, stack), todo = <<w>> \o stack, Last(w),
         NEW child \in Addr, Hit(w, child),
         NEW gone, NEW d, Clears(gone, d)
  PROVE  /\ Enters(w, child, stack, gone, d)
         /\ w.call = "removeDir" => Empty(disk[child].ptr) = 1 .. Slots
         /\ w.call # "createDir"
<1>1. w.op = "walk" /\ Head(todo) = w /\ Tail(todo) = stack
  BY OnStack DEF WalkSteps
<1>2. Leaving(todo) = {}
  BY <1>1, LeavesNone DEF Unlinks
<1>3. /\ Kept(gone, {}) /\ Unopened(gone) /\ gone \subseteq Promised!Below(d) \ {0}
      /\ gone # {} => asked.op = "removeAll"
      /\ \A x \in WorkOf(todo) : Within(x, d)
      /\ Finds(w, d) /\ Aim(EndOf(todo), d)
  BY <1>1, <1>2 DEF Clears, EndOf
<1>4. /\ WorkOf(todo) = {w} \cup WorkOf(stack)
      /\ EndOf(todo) = IF stack = <<>> THEN w ELSE EndOf(stack)
  BY WorkOfOne
<1>5. PICK m \in Addr, n \in Promised!Below(d) :
        /\ \A c : Hit(w, c) <=> c = m
        /\ Last(w) => m = n
        /\ n # 0
        /\ w.call = "removeDir" => \A i \in 1 .. Slots : disk[n].ptr[i] = 0
        /\ Tail(todo) = <<>> => n = d
  BY <1>3, TrailFinds
<1>6. child = n
  BY <1>5
<1>7. stack = <<>> => Aim(w, d) /\ d = child
  BY <1>1, <1>3, <1>4, <1>5, <1>6
<1>8. stack = <<>> =>
       /\ asked.op = "removeAll"
       /\ asked = Promised!PathRequest(asked.op, asked.path)
       /\ d \in Promised!Dirs(asked.path)
  BY <1>1, <1>7 DEF Aim
<1>9. w.call \in {"removeDir", "removeAll"}
  BY <1>3 DEF Finds
<1>10. w.call = "removeDir" => Empty(disk[child].ptr) = 1 .. Slots
  BY <1>5, <1>6 DEF Empty
<1> QED BY <1>3, <1>4, <1>5, <1>6, <1>7, <1>8, <1>9, <1>10 DEF Enters

(* It is removed, or its entries are gone through. *)
LEMMA EntersRemoves ==
  ASSUME Story, Settle(asked), mounted, mounted' = mounted, disk' = disk,
         fd_table' = fd_table, NEW stack \in Stacks, NEW w, NEW child \in Addr,
         NEW gone \in SUBSET Addr, NEW d \in Addr, Enters(w, child, stack, gone, d),
         NEW p, todo' = <<FreeBody(child), UnlinkDir(child, p)>> \o stack
  PROVE  Good
<1>1. PICK f, z : f = FreeBody(child) /\ z = UnlinkDir(child, p)
  OBVIOUS
<1>2. f.op = "freeBody" /\ z.op = "unlinkDir" /\ z.blk = child /\ Unlinks(z)
  BY <1>1 DEF FreeBody, UnlinkDir, Unlinks
<1>3. /\ todo' = <<f, z>> \o stack /\ todo' # <<>> /\ Head(todo') = f
      /\ WorkOf(todo') = {f, z} \cup WorkOf(stack)
      /\ EndOf(todo') = IF stack = <<>> THEN z ELSE EndOf(stack)
  BY <1>1, Tops, WorkOfTwo
<1>4. child \in Promised!Below(d) /\ child # 0 /\ \A x \in WorkOf(stack) : Within(x, d)
  BY DEF Enters
<1>5. Within(f, d) /\ Within(z, d)
  BY <1>2, <1>4 DEF Within, Unlinks
<1>6. \A x \in WorkOf(todo') : Within(x, d)
  BY <1>3, <1>4, <1>5
<1>7. PICK l : l = EndOf(todo')
  OBVIOUS
<1>8. Aim(l, d)
  BY <1>2, <1>3, <1>7 DEF Enters, Aim
<1>9. f.op # "walk"
  BY <1>2
<1>10. /\ Kept(gone, {}) /\ Unopened(gone) /\ gone \subseteq Promised!Below(d) \ {0}
       /\ gone # {} => asked.op = "removeAll"
  BY DEF Enters
<1> QED BY <1>3, <1>6, <1>7, <1>8, <1>9, <1>10, ClearsGoOn

LEMMA EntersScans ==
  ASSUME Story, Settle(asked), mounted, mounted' = mounted, disk' = disk,
         fd_table' = fd_table, NEW stack \in Stacks, NEW w, NEW child \in Addr,
         NEW gone \in SUBSET Addr, NEW d \in Addr, Enters(w, child, stack, gone, d),
         w.call = "removeAll", NEW path, NEW copy, todo' = <<Scan(path, child, copy, 1)>> \o stack
  PROVE  Good
<1>1. PICK z : z = Scan(path, child, copy, 1)
  OBVIOUS
<1>2. z.op = "scan" /\ z.dir = child /\ z.at = 1
  BY <1>1 DEF Scan
<1>3. /\ todo' = <<z>> \o stack /\ todo' # <<>> /\ Head(todo') = z
      /\ WorkOf(todo') = {z} \cup WorkOf(stack)
      /\ EndOf(todo') = IF stack = <<>> THEN z ELSE EndOf(stack)
  BY <1>1, Tops, WorkOfOne
<1>4. child \in Promised!Below(d) /\ \A x \in WorkOf(stack) : Within(x, d)
  BY DEF Enters
<1>5. Within(z, d)
  <2>1. \A i \in 1 .. Slots : ~ (i < 1)
    BY Bounds
  <2> QED BY <1>2, <1>4, <2>1 DEF Within, Unlinks
<1>6. \A x \in WorkOf(todo') : Within(x, d)
  BY <1>3, <1>4, <1>5
<1>7. PICK l : l = EndOf(todo')
  OBVIOUS
<1>8. Aim(l, d)
  BY <1>2, <1>3, <1>7 DEF Enters, Aim
<1>9. z.op # "walk"
  BY <1>2
<1>10. /\ Kept(gone, {}) /\ Unopened(gone) /\ gone \subseteq Promised!Below(d) \ {0}
       /\ gone # {} => asked.op = "removeAll"
  BY DEF Enters
<1> QED BY <1>3, <1>6, <1>7, <1>8, <1>9, <1>10, ClearsGoOn

LEMMA StoryDirFound ==
  ASSUME Story, Ownership, TypeOK, TypeOK', DirFound, Settle(asked) PROVE Good
<1>1. PICK w : w = Head(todo)
  OBVIOUS
<1>2. /\ Doing("walk") /\ Last(w) /\ disk' = disk /\ fd_table' = fd_table
      /\ mounted' = mounted
  BY <1>1 DEF DirFound, Readable, process
<1>3. PICK list \in Lists, stack \in Stacks :
        /\ w \in WalkSteps /\ LooksUp(w, list, stack)
        /\ mounted /\ asked # Promised!NoCall
        /\ AtRest(list) /\ todo = <<w>> \o stack
        /\ \/ LooksFor(w) /\ stack = <<>>
           \/ \E gone \in SUBSET Addr, d \in Addr : Clears(gone, d)
  BY <1>1, <1>2, WhoWalks
<1>4. PICK child \in Addr :
        /\ Hit(w, child)
        /\ disk[child].kind # "file"
        /\ \/ w.call = "createDir" /\ Finish(ERR_DIR_ALREADY_EXISTS)
           \/ /\ w.call = "removeDir"
              /\ Empty(disk[child].ptr) # 1 .. Slots
              /\ Finish(ERR_DIR_NOT_EMPTY)
           \/ /\ w.call = "removeDir"
              /\ Empty(disk[child].ptr) = 1 .. Slots
              /\ Resume(<<FreeBody(child), UnlinkDir(child, w.dir)>>)
           \/ /\ w.call = "removeAll"
              /\ Resume(<<Scan(w.path, child, disk[child], 1)>>)
  BY <1>1 DEF DirFound
<1>5. Leads(disk, w.path, w.at - 1, w.dir)
  BY <1>3 DEF LooksUp
<1>6. \A steps : Resume(steps) => todo' = steps \o stack
  BY <1>3, OnStack
<1>7. CASE \/ w.call = "createDir" /\ Finish(ERR_DIR_ALREADY_EXISTS)
           \/ /\ w.call = "removeDir"
              /\ Empty(disk[child].ptr) # 1 .. Slots
              /\ Finish(ERR_DIR_NOT_EMPTY)
  <2>1. PICK code : code < 0 /\ Finish(code)
    BY <1>7 DEF ERR_DIR_ALREADY_EXISTS, ERR_DIR_NOT_EMPTY
  <2>2. LooksFor(w)
    <3>1. ASSUME NEW gone \in SUBSET Addr, NEW d \in Addr, Clears(gone, d) PROVE FALSE
      <4>1. /\ w.call = "removeDir" => Empty(disk[child].ptr) = 1 .. Slots
            /\ w.call # "createDir"
        BY <1>2, <1>3, <1>4, <3>1, EntersNext
      <4> QED BY <1>7, <4>1
    <3> QED BY <1>3, <3>1
  <2>3. ~ Promised!Certain
    BY <1>2, <1>3, <1>4, <1>5, <1>7, <2>2, DirRefused
  <2>4. Kept({}, {}) /\ Unopened({})
    BY <1>3, <2>2, LookingIs
  <2>5. Tree(disk') = Tree(disk) /\ DirsReadable(disk') /\ Bytes(disk')
    BY <1>2 DEF Story
  <2> QED BY <1>2, <1>3, <2>1, <2>3, <2>4, <2>5, StoryNo
<1>8. CASE \/ /\ w.call = "removeDir"
              /\ Empty(disk[child].ptr) = 1 .. Slots
              /\ Resume(<<FreeBody(child), UnlinkDir(child, w.dir)>>)
           \/ /\ w.call = "removeAll"
              /\ Resume(<<Scan(w.path, child, disk[child], 1)>>)
  <2>1. PICK gone \in SUBSET Addr, d \in Addr : Enters(w, child, stack, gone, d)
    <3>1. CASE LooksFor(w) /\ stack = <<>>
      <4>1. PICK none \in SUBSET Addr : none = {}
        OBVIOUS
      <4>2. Enters(w, child, stack, {}, child)
        BY <1>2, <1>3, <1>4, <1>5, <1>8, <3>1, EntersFirst
      <4>3. Enters(w, child, stack, none, child)
        BY <4>1, <4>2
      <4> QED BY <4>3
    <3>2. ASSUME NEW gone \in SUBSET Addr, NEW d \in Addr, Clears(gone, d)
          PROVE  Enters(w, child, stack, gone, d)
      BY <1>2, <1>3, <1>4, <3>2, EntersNext
    <3> QED BY <1>3, <3>1, <3>2
  <2>2. CASE Resume(<<FreeBody(child), UnlinkDir(child, w.dir)>>)
    <3>1. todo' = <<FreeBody(child), UnlinkDir(child, w.dir)>> \o stack
      BY <1>6, <2>2
    <3> QED BY <1>2, <1>3, <2>1, <3>1, EntersRemoves
  <2>3. CASE w.call = "removeAll" /\ Resume(<<Scan(w.path, child, disk[child], 1)>>)
    <3>1. todo' = <<Scan(w.path, child, disk[child], 1)>> \o stack
      BY <1>6, <2>3
    <3> QED BY <1>2, <1>3, <2>1, <2>3, <3>1, EntersScans
  <2> QED BY <1>8, <2>2, <2>3
<1> QED BY <1>4, <1>7, <1>8

---------------------------------------------------------------------------
(* What a path does not lead to is made. *)

LEMMA StoryNotFound ==
  ASSUME Story, Ownership, TypeOK, TypeOK', NotFound, Settle(asked) PROVE Good
<1>1. PICK w : w = Head(todo)
  OBVIOUS
<1>2. /\ Doing("walk") /\ Last(w) /\ disk' = disk /\ fd_table' = fd_table
      /\ mounted' = mounted /\ Name(w) \notin Unreadable
  BY <1>1 DEF NotFound, Readable, process
<1>3. PICK list \in Lists, stack \in Stacks :
        /\ w \in WalkSteps /\ LooksUp(w, list, stack)
        /\ mounted /\ asked # Promised!NoCall
        /\ AtRest(list) /\ todo = <<w>> \o stack
        /\ \/ LooksFor(w) /\ stack = <<>>
           \/ \E gone \in SUBSET Addr, d \in Addr : Clears(gone, d)
  BY <1>1, <1>2, WhoWalks
<1>4. PICK c : /\ Resume(<<c>>) /\ c.op = "create" /\ c.name = Name(w) /\ c.dir = w.dir
               /\ c.kind = KindOf(w.call) /\ w.call \in {"openFile", "createDir"}
  BY <1>1 DEF NotFound, Create, KindOf
<1>5. LooksFor(w) /\ stack = <<>>
  <2>1. ASSUME NEW gone \in SUBSET Addr, NEW d \in Addr, Clears(gone, d) PROVE FALSE
    BY <1>1, <1>2, <1>4, <2>1 DEF Clears, Finds, Doing
  <2> QED BY <1>3, <2>1
<1>6. PICK path : path = w.path
  OBVIOUS
<1>7. /\ asked.op = w.call /\ asked.path = path
      /\ asked = Promised!PathRequest(w.call, path)
      /\ path \in Paths /\ Len(path) \in Nat /\ w.at = Len(path) /\ path # <<>>
      /\ Kept({}, {}) /\ Unopened({})
  BY <1>2, <1>3, <1>5, <1>6, LookingIs DEF Last
<1>8. Leads(disk, path, Len(path) - 1, w.dir)
  BY <1>3, <1>6, <1>7 DEF LooksUp
<1>9. todo' = <<c>> /\ todo' # <<>> /\ Head(todo') = c
  <2>1. todo' = <<c>> \o stack
    BY <1>3, <1>4, OnStack
  <2> QED BY <1>5, <2>1, Alone
<1>10. settled' = settled /\ asked' = asked
  BY <1>9, Ongoing
<1>11. Promised!Readable(path)
  <2>1. \A i \in 1 .. w.at - 1 : path[i] \notin Unreadable
    BY <1>5, <1>6 DEF LooksFor
  <2>2. path[w.at] \notin Unreadable
    BY <1>2, <1>6 DEF Name
  <2> QED BY <1>7, <2>1, <2>2 DEF Promised!Readable
<1>12. Kept({}, {})' /\ Unopened({})'
  <2>1. Untouched'
    BY <1>2, <1>7, <1>10, UntouchedStill DEF Untouched
  <2> QED BY <2>1 DEF Untouched
<1>13. c.name = Promised!Last(path) /\ Leads(disk, path, Len(path) - 1, c.dir)'
  <2>1. c.name = Promised!Last(path)
    BY <1>4, <1>6, <1>7 DEF Name, Promised!Last
  <2>2. Leads(disk', path, Len(path) - 1, c.dir)
    BY <1>2, <1>4, <1>8
  <2> QED BY <2>1, <2>2, LeadsStill
<1>14. Makes(c)'
  <2>1. /\ asked'.op \in {"openFile", "createDir"} /\ asked'.op = w.call /\ asked'.path = path
        /\ asked' = Promised!PathRequest(asked'.op, asked'.path)
    BY <1>4, <1>7, <1>10
  <2>2. Promised!Readable(asked.path)'
    BY <1>11, <2>1 DEF Promised!Readable
  <2> QED BY <1>4, <1>7, <1>9, <1>12, <1>13, <2>1, <2>2
          DEF Makes, Promised!Last, Promised!PathRequest
<1>15. Runs'
  BY <1>2, <1>3, <1>4, <1>9, <1>14 DEF Runs
<1>16. DirsReadable(disk') /\ Bytes(disk')
  BY <1>2 DEF Story
<1> QED BY <1>2, <1>9, <1>15, <1>16, StoryGoes

(* Who makes an inode, and where. *)
LEMMA WhoMakes ==
  ASSUME Story, Ownership, TypeOK, NEW op \in {"create", "newInode", "link"}, Doing(op)
  PROVE  \E list \in Lists, c \in NewSteps :
           /\ c = Head(todo) /\ c.op = op /\ todo = <<c>> /\ Makes(c)
           /\ InDir(c.dir) /\ c.dir \in Addr
           /\ op = "create" => Creates(c, list)
           /\ op = "newInode" => WritesInode(c, list)
           /\ op = "link" => Links(c, list)
           /\ mounted /\ asked # Promised!NoCall
<1>1. PICK list \in Lists, stack \in Stacks : stack = <<>> /\ AtCreate(list)
  BY Where
<1>2. Makes(Head(todo)) /\ mounted /\ asked # Promised!NoCall
  BY <1>1, StoryAt
<1>3. PICK c \in NewSteps :
        /\ todo = <<c>>
        /\ InDir(c.dir)
        /\ Creates(c, list) \/ WritesInode(c, list) \/ Links(c, list)
  BY <1>1 DEF AtCreate
<1>4. Head(todo) = c /\ c.op = op
  BY <1>3 DEF Doing
<1>5. /\ op = "create" => Creates(c, list)
      /\ op = "newInode" => WritesInode(c, list)
      /\ op = "link" => Links(c, list)
  BY <1>3, <1>4 DEF Creates, WritesInode, Links
<1>6. c.dir \in Addr
  BY <1>3 DEF InDir
<1> QED BY <1>2, <1>3, <1>4, <1>5, <1>6

(* What such a call is asked for. *)
LEMMA MakingIs ==
  ASSUME Story, NEW c, Makes(c), NEW path, path = asked.path
  PROVE  /\ asked.op \in {"openFile", "createDir"} /\ asked.op \in Lookups
         /\ asked = Promised!PathRequest(asked.op, path)
         /\ path \in AnyPath /\ path # <<>> /\ Len(path) \in Nat \ {0} /\ path \in Paths
         /\ Promised!Readable(path)
         /\ Kept({}, {}) /\ settled.tree = Tree(disk)
         /\ DOMAIN settled.tree \subseteq Addr
         /\ c.op = "create" =>
              /\ c.kind = KindOf(asked.op) /\ c.name = Promised!Last(path)
              /\ Leads(disk, path, Len(path) - 1, c.dir)
              /\ Unopened({})
              /\ fd_table \in [FDs -> Addr] => settled.fds = fd_table
<1>1. /\ asked.op \in {"openFile", "createDir"} /\ asked.op \in Lookups
      /\ asked = Promised!PathRequest(asked.op, path)
      /\ path \in Paths /\ Promised!Readable(path) /\ Kept({}, {})
  BY DEF Makes, Lookups
<1>2. path \in AnyPath /\ path # <<>> /\ Len(path) \in Nat \ {0}
  <2>1. path \in Seq(Names) /\ path # <<>>
    BY <1>1, CallsAssumption
  <2>2. path \in Seq(AnyName)
    BY <2>1 DEF AnyName
  <2> QED BY <2>1, <2>2 DEF AnyPath
<1>3. settled.tree = Tree(disk) /\ DOMAIN settled.tree \subseteq Addr
  BY <1>1, KeptTree DEF Story, Readout
<1>4. c.op = "create" =>
        /\ c.kind = KindOf(asked.op) /\ c.name = Promised!Last(path)
        /\ Leads(disk, path, Len(path) - 1, c.dir)
        /\ Unopened({})
  BY DEF Makes
<1>5. Unopened({}) /\ fd_table \in [FDs -> Addr] => settled.fds = fd_table
  <2>1. Unopened({}) => \A fd \in FDs : fd_table[fd] = settled.fds[fd]
    BY DEF Unopened
  <2> QED BY <2>1 DEF Story, Readout
<1> QED BY <1>1, <1>2, <1>3, <1>4, <1>5

(* It may refuse: nothing of that name was there. *)
LEMMA MakesUncertain ==
  ASSUME Story, TypeOK, NEW list \in Lists, NEW c, c.op = "create", Makes(c), Creates(c, list)
  PROVE  ~ Promised!Certain
<1>1. PICK call, path, k, x :
        call = asked.op /\ path = asked.path /\ k = Len(path) /\ x = c.dir
  OBVIOUS
<1>2. /\ call \in Lookups /\ path \in AnyPath /\ Len(path) \in Nat \ {0}
      /\ asked = Promised!PathRequest(call, path) /\ Kept({}, {})
      /\ c.name = Promised!Last(path) /\ Leads(disk, path, Len(path) - 1, c.dir)
  BY <1>1, MakingIs
<1>3. k \in Nat /\ k \in 1 .. Len(path) /\ k - 1 \in Nat /\ Leads(disk, path, k - 1, x)
  BY <1>1, <1>2
<1>4. x \in Addr
  BY <1>3, LeadsToDir
<1>5. PICK w : w = [op |-> "walk", call |-> call, path |-> path, at |-> k, dir |-> x]
  OBVIOUS
<1>6. w \in WalkSteps
  BY <1>2, <1>3, <1>4, <1>5 DEF WalkSteps
<1>7. w.call = call /\ w.path = path /\ w.at = k /\ w.dir = x
  BY <1>5
<1>8. AtRest(list) /\ Named(disk, c.dir, c.name) = {}
  BY DEF Creates
<1>9. NoHit(w)
  BY <1>1, <1>2, <1>7, <1>8 DEF NoHit, Matches, Named, Name, Promised!Last
<1> QED BY <1>2, <1>3, <1>6, <1>7, <1>8, <1>9, NoRefusal

LEMMA PoppedShows ==
  ASSUME Story, TypeOK, TypeOK', NEW m, disk' = WithHead(disk, m)
  PROVE  /\ Shows(disk, disk', {}) /\ Tree(disk') = Tree(disk)
         /\ DirsReadable(disk') /\ Bytes(disk')
         /\ disk \in Disks /\ disk' \in Disks
<1>1. PICK d, e : d = disk /\ e = disk'
  OBVIOUS
<1>2. d \in Disks /\ e \in Disks /\ e = WithHead(d, m) /\ DirsReadable(d) /\ Bytes(d)
  BY <1>1 DEF TypeOK, Disks, Story
<1>3. \A b \in Addr : Alike(d[b], e[b]) /\ e[b].ptr = d[b].ptr
  BY <1>2, HeadWrite
<1>4. Shows(d, e, {})
  BY <1>2, <1>3, NextShows
<1>5. DirsReadable(e) /\ Bytes(e)
  BY <1>2, <1>3, ReadableNext
<1> QED BY <1>1, <1>2, <1>4, <1>5, ShowsAll

(* The call goes on with the inode. *)
LEMMA MakesNext ==
  ASSUME Story, TypeOK, TypeOK', Settle(asked), mounted, mounted' = mounted,
         NEW list \in Lists, NEW c, c.op = "create", Makes(c), Creates(c, list),
         NEW m, disk' = WithHead(disk, m),
         NEW b, NEW code, NEW h, h = NewInode(c.kind, c.name, c.dir, b, code), todo' = <<h>>,
         IF asked.op = "openFile"
         THEN code \in FDs /\ fd_table[code] = 0 /\ fd_table' = [fd_table EXCEPT ![code] = b]
         ELSE code = TFS_SUCCESS /\ fd_table' = fd_table
  PROVE  Good
<1>1. PICK path, k : path = asked.path /\ k = Len(path) - 1
  OBVIOUS
<1>2. /\ asked.op \in {"openFile", "createDir"}
      /\ asked = Promised!PathRequest(asked.op, path)
      /\ path \in AnyPath /\ Len(path) \in Nat \ {0} /\ path \in Paths
      /\ Promised!Readable(path)
      /\ Kept({}, {}) /\ settled.tree = Tree(disk)
      /\ DOMAIN settled.tree \subseteq Addr
      /\ c.kind = KindOf(asked.op) /\ c.name = Promised!Last(path)
      /\ Leads(disk, path, k, c.dir)
  BY <1>1, MakingIs
<1>3. settled.fds = fd_table
  BY <1>1, MakingIs DEF TypeOK
<1>4. todo' # <<>> /\ Head(todo') = h /\ settled' = settled /\ asked' = asked
  BY Ongoing
<1>5. h.op = "newInode" /\ h.kind = c.kind /\ h.name = c.name /\ h.dir = c.dir
      /\ h.blk = b /\ h.code = code
  BY DEF NewInode
<1>6. c.dir \in Promised!Dirs(Promised!Above(path))
  <2>1. AtRest(list) /\ k \in 0 .. Len(path)
    BY <1>1, <1>2 DEF Creates
  <2>2. c.dir \in Promised!Dirs(Promised!Upto(path, k))
    BY <1>2, <2>1, LeadsDirs
  <2> QED BY <1>1, <2>2 DEF Promised!Above
<1>7. Kept({}, {})'
  <2>1. PICK none : none = {}
    OBVIOUS
  <2>2. KeptOn(disk, none, none) /\ Shows(disk, disk', none)
    BY <1>2, <2>1, KeptIs, PoppedShows
  <2>3. KeptOn(disk', none, none)
    BY <2>2, KeptShows
  <2>4. Kept(none, none)'
    BY <1>4, <2>3, KeptIs
  <2> QED BY <2>1, <2>4
<1>8. Opened(h.code, h.blk)'
  BY <1>3, <1>4, <1>5 DEF Opened
<1>9. (c.dir \in Promised!Dirs(Promised!Above(asked.path)))'
  BY <1>1, <1>4, <1>6
     DEF Promised!Dirs, Promised!At, Promised!Way, Promised!IsDir, Promised!Nodes
<1>10. Promised!Readable(asked.path)'
  BY <1>1, <1>2, <1>4 DEF Promised!Readable
<1>11. Makes(h)'
  BY <1>1, <1>2, <1>4, <1>5, <1>7, <1>8, <1>9, <1>10
     DEF Makes, Promised!Last, Promised!PathRequest
<1>12. Runs'
  BY <1>4, <1>5, <1>11 DEF Runs
<1>13. DirsReadable(disk') /\ Bytes(disk')
  BY PoppedShows
<1> QED BY <1>4, <1>12, <1>13, StoryGoes

LEMMA StoryPopInode ==
  ASSUME Story, Ownership, TypeOK, TypeOK', PopInode, Settle(asked) PROVE Good
<1>1. PICK list \in Lists, c \in NewSteps :
        /\ c = Head(todo) /\ c.op = "create" /\ todo = <<c>> /\ Makes(c)
        /\ Creates(c, list) /\ mounted /\ asked # Promised!NoCall
  <2>1. Doing("create")
    BY DEF PopInode
  <2>2. PICK op \in {"create", "newInode", "link"} : op = "create"
    OBVIOUS
  <2> QED BY <2>1, <2>2, WhoMakes
<1>2. \A steps : Resume(steps) => todo' = steps
  <2>1. PICK s \in Stacks : s = <<>>
    BY NoneWaits
  <2>2. todo = <<c>> \o s
    BY <1>1, <2>1, Alone
  <2>3. \A steps : Resume(steps) => todo' = steps \o s
    BY <2>2, OnStack
  <2> QED BY <1>1, <2>1 DEF Resume
<1>3. PICK path : path = asked.path
  OBVIOUS
<1>4. /\ asked.op \in {"openFile", "createDir"} /\ c.kind = KindOf(asked.op)
      /\ Kept({}, {}) /\ Unopened({})
  BY <1>1, <1>3, MakingIs
<1>5. ~ Promised!Certain
  BY <1>1, MakesUncertain
<1>6. ASSUME NEW code, code < 0, Finish(code), fd_table' = fd_table, mounted' = mounted,
             disk' = disk \/ \E m : disk' = WithHead(disk, m)
      PROVE  Good
  <2>1. Tree(disk') = Tree(disk) /\ DirsReadable(disk') /\ Bytes(disk')
    BY <1>6, PoppedShows DEF Story
  <2> QED BY <1>1, <1>4, <1>5, <1>6, <2>1, StoryNo
<1>7. CASE FreePtr = 0 /\ Fail(ERR_DISK_OUT_OF_SPACE)
  <2>1. PICK code : code = ERR_DISK_OUT_OF_SPACE
    OBVIOUS
  <2>2. code < 0 /\ Finish(code) /\ fd_table' = fd_table /\ mounted' = mounted /\ disk' = disk
    BY <1>7, <2>1 DEF Fail, process, ERR_DISK_OUT_OF_SPACE
  <2> QED BY <1>6, <2>2
<1>8. CASE /\ disk' = Popped
           /\ \/ /\ c.kind = "dir"
                 /\ Resume(<<NewInode(c.kind, c.name, c.dir, FreePtr, TFS_SUCCESS)>>)
                 /\ UNCHANGED process
              \/ /\ c.kind = "file"
                 /\ FdsFull
                 /\ Finish(ERR_OUT_OF_FDS)
                 /\ UNCHANGED process
              \/ /\ c.kind = "file"
                 /\ \E fd \in FDs :
                      /\ NextFd(fd)
                      /\ fd_table_index' = fd
                      /\ fd_table' = [fd_table EXCEPT ![fd] = FreePtr]
                      /\ Resume(<<NewInode(c.kind, c.name, c.dir, FreePtr, fd)>>)
                 /\ UNCHANGED mounted
  <2>1. PICK m, b : disk' = WithHead(disk, m) /\ b = FreePtr
    BY <1>8, Ends DEF Popped, WithHead
  <2>2. CASE /\ c.kind = "dir"
             /\ Resume(<<NewInode(c.kind, c.name, c.dir, FreePtr, TFS_SUCCESS)>>)
             /\ UNCHANGED process
    <3>1. PICK code, h : code = TFS_SUCCESS /\ h = NewInode(c.kind, c.name, c.dir, b, code)
      OBVIOUS
    <3>2. todo' = <<h>> /\ fd_table' = fd_table /\ mounted' = mounted
      BY <1>2, <2>1, <2>2, <3>1 DEF process
    <3>3. asked.op # "openFile"
      BY <1>4, <2>2 DEF KindOf
    <3> QED BY <1>1, <2>1, <3>1, <3>2, <3>3, MakesNext
  <2>3. CASE /\ c.kind = "file"
             /\ FdsFull
             /\ Finish(ERR_OUT_OF_FDS)
             /\ UNCHANGED process
    <3>1. PICK code : code = ERR_OUT_OF_FDS
      OBVIOUS
    <3>2. code < 0 /\ Finish(code) /\ fd_table' = fd_table /\ mounted' = mounted
      BY <2>3, <3>1 DEF process, ERR_OUT_OF_FDS
    <3> QED BY <1>6, <2>1, <3>2
  <2>4. ASSUME c.kind = "file", NEW fd \in FDs, NextFd(fd),
               fd_table' = [fd_table EXCEPT ![fd] = FreePtr],
               Resume(<<NewInode(c.kind, c.name, c.dir, FreePtr, fd)>>), UNCHANGED mounted
        PROVE  Good
    <3>1. PICK h : h = NewInode(c.kind, c.name, c.dir, b, fd)
      OBVIOUS
    <3>2. todo' = <<h>> /\ mounted' = mounted
      BY <1>2, <2>1, <2>4, <3>1
    <3>3. asked.op = "openFile" /\ fd_table[fd] = 0 /\ fd_table' = [fd_table EXCEPT ![fd] = b]
      BY <1>4, <2>1, <2>4 DEF KindOf, NextFd
    <3> QED BY <1>1, <2>1, <3>1, <3>2, <3>3, MakesNext
  <2> QED BY <1>8, <2>2, <2>3, <2>4
<1>9. \/ FreePtr = 0 /\ Fail(ERR_DISK_OUT_OF_SPACE)
      \/ /\ disk' = Popped
         /\ \/ /\ c.kind = "dir"
               /\ Resume(<<NewInode(c.kind, c.name, c.dir, FreePtr, TFS_SUCCESS)>>)
               /\ UNCHANGED process
            \/ /\ c.kind = "file"
               /\ FdsFull
               /\ Finish(ERR_OUT_OF_FDS)
               /\ UNCHANGED process
            \/ /\ c.kind = "file"
               /\ \E fd \in FDs :
                    /\ NextFd(fd)
                    /\ fd_table_index' = fd
                    /\ fd_table' = [fd_table EXCEPT ![fd] = FreePtr]
                    /\ Resume(<<NewInode(c.kind, c.name, c.dir, FreePtr, fd)>>)
               /\ UNCHANGED mounted
  BY <1>1 DEF PopInode
<1> QED BY <1>7, <1>8, <1>9

(* A new inode is in no directory yet. *)
LEMMA StoryWriteInode ==
  ASSUME Story, Ownership, TypeOK, TypeOK', WriteInode, Settle(asked) PROVE Good
<1>1. PICK list \in Lists, c \in NewSteps :
        /\ c = Head(todo) /\ c.op = "newInode" /\ todo = <<c>> /\ Makes(c)
        /\ WritesInode(c, list) /\ mounted
  <2>1. Doing("newInode")
    BY DEF WriteInode
  <2>2. PICK op \in {"create", "newInode", "link"} : op = "newInode"
    OBVIOUS
  <2> QED BY <2>1, <2>2, WhoMakes
<1>2. PICK path, b : path = asked.path /\ b = c.blk
  OBVIOUS
<1>3. /\ asked.op \in {"openFile", "createDir"}
      /\ asked = Promised!PathRequest(asked.op, path)
      /\ path \in AnyPath /\ Len(path) \in Nat \ {0} /\ path \in Paths
      /\ Promised!Readable(path) /\ Kept({}, {})
  BY <1>1, <1>2, MakingIs
<1>4. /\ c.kind = KindOf(asked.op) /\ c.name = Promised!Last(path)
      /\ c.dir \in Promised!Dirs(Promised!Above(path)) /\ Opened(c.code, b)
  BY <1>1, <1>2 DEF Makes
<1>5. PICK h : h = Link(b, c.dir, c.code)
  OBVIOUS
<1>6. h.op = "link" /\ h.blk = b /\ h.dir = c.dir /\ h.code = c.code
  BY <1>5 DEF Link
<1>7. /\ todo' = <<h>> /\ disk' = [disk EXCEPT ![b] = Inode(c.kind, c.name)]
      /\ fd_table' = fd_table /\ mounted' = mounted
  <2>1. disk' = [disk EXCEPT ![b] = Inode(c.kind, c.name)] /\ Resume(<<h>>)
    BY <1>1, <1>2, <1>5 DEF WriteInode
  <2>2. PICK s \in Stacks : s = <<>>
    BY NoneWaits
  <2>3. todo = <<c>> \o s
    BY <1>1, <2>2, Alone
  <2>4. todo' = <<h>> \o s
    BY <2>1, <2>3, OnStack
  <2>5. todo' = <<h>>
    BY <2>2, <2>4, Alone
  <2> QED BY <2>1, <2>5 DEF WriteInode, process
<1>8. todo' # <<>> /\ Head(todo') = h /\ settled' = settled /\ asked' = asked
  BY <1>7, Ongoing
<1>9. PICK d, e, blk : d = disk /\ e = disk' /\ blk = Inode(c.kind, c.name)
  OBVIOUS
<1>10. /\ b \in Addr /\ b # 0 /\ d \in Disks /\ e \in Disks /\ d[b].type = "FREE"
       /\ e = [d EXCEPT ![b] = blk]
       /\ Owns(d, {}, {b}, list) /\ DirsReadable(d) /\ Bytes(d) /\ Shaped(d)
  <2>1. b \in Addr /\ b # 0 /\ disk[b].type = "FREE" /\ Sound({}, {b}, IF c.kind = "file" THEN {b} ELSE {}, list)
    <3>1. b # 0 /\ disk[b].type = "FREE" /\ Sound({}, {b}, IF c.kind = "file" THEN {b} ELSE {}, list)
      BY <1>1, <1>2, Ends DEF WritesInode
    <3>2. c \in Steps
      BY <1>1, TopOf
    <3>3. b \in Addr
      BY <1>1, <1>2, <3>2, StepOf
    <3> QED BY <3>1, <3>3
  <2>2. Owns(disk, {}, {b}, list)
    BY <2>1 DEF Sound
  <2> QED BY <1>7, <1>9, <2>1, <2>2 DEF TypeOK, Disks, Story, Owns
<1>11. e[b] = blk /\ \A x \in Addr \ {b} : e[x] = d[x]
  <2>1. b \in Addr /\ d \in Disks /\ e = [d EXCEPT ![b] = blk]
    BY <1>10
  <2> QED BY <2>1, BlockWrite
<1>12. /\ blk.type = "INODE" /\ blk.kind = c.kind /\ blk.name = c.name /\ blk.size = 0
       /\ \A j \in 1 .. Slots : blk.ptr[j] = 0
  BY <1>9 DEF Inode, Blank
<1>13. \A x \in Addr, i \in 1 .. Slots : d[x].ptr[i] # b
  BY <1>10, OneOwnerOf DEF Counts
<1>14. \A x \in Addr, i \in 1 .. Slots : e[x].ptr[i] # b
  BY <1>10, <1>11, <1>12, <1>13
<1>15. b \notin Inodes(d) /\ b \notin Inodes(e)
  BY <1>13, <1>14 DEF Inodes, DirOf
<1>16. Shows(d, e, {})
  <2>1. PICK none : none = {}
    OBVIOUS
  <2>2. ASSUME NEW n \in Addr \ none, n \in Inodes(d) \/ n \in Inodes(e)
        PROVE  /\ n # b /\ b \notin DirOf(d, n) /\ b \notin DirOf(e, n)
               /\ d[n].size # 0 => \A i \in 1 .. Slots : d[n].ptr[i] # b
    <3>1. n # b /\ n # 0
      <4>1. n # b
        BY <1>15, <2>2
      <4>2. d[0].type # "INODE" /\ e[0] = d[0]
        BY <1>10, <1>11, Ends DEF Shaped
      <4> QED BY <2>2, <4>1, <4>2 DEF Inodes
    <3>2. b \notin DirOf(d, n)
      BY <1>10 DEF DirOf
    <3>3. b \notin DirOf(e, n)
      BY <1>11, <1>12, <3>1 DEF DirOf
    <3> QED BY <1>13, <2>2, <3>1, <3>2, <3>3
  <2>3. Shows(d, e, none)
    BY <1>10, <1>11, <2>2, BlockShows
  <2> QED BY <2>1, <2>3
<1>17. Kept({}, {})'
  <2>1. PICK none : none = {}
    OBVIOUS
  <2>2. KeptOn(disk, none, none) /\ Shows(disk, disk', none)
    BY <1>3, <1>9, <1>16, <2>1, KeptIs
  <2>3. KeptOn(disk', none, none)
    BY <2>2, KeptShows
  <2>4. Kept(none, none)'
    BY <1>8, <2>3, KeptIs
  <2> QED BY <2>1, <2>4
<1>18. DirsReadable(e) /\ Bytes(e)
  <2>1. c.kind = "dir" => c.name \notin Unreadable
    BY <1>3, <1>4 DEF Promised!Readable, Promised!Last
  <2>2. DirsReadable(e)
    BY <1>10, <1>11, <1>12, <2>1 DEF DirsReadable
  <2>3. Bytes(e)
    BY <1>10, <1>11, <1>12 DEF Bytes
  <2> QED BY <2>2, <2>3
<1>19. (c.dir \in Promised!Dirs(Promised!Above(asked.path)))'
  BY <1>2, <1>4, <1>8
     DEF Promised!Dirs, Promised!At, Promised!Way, Promised!IsDir, Promised!Nodes
<1>20. Opened(h.code, h.blk)'
  BY <1>4, <1>6, <1>7, <1>8 DEF Opened
<1>21. Promised!Readable(asked.path)'
  BY <1>2, <1>3, <1>8 DEF Promised!Readable
<1>22. disk'[h.blk] = Inode(KindOf(asked'.op), Promised!Last(asked'.path))
  BY <1>2, <1>4, <1>6, <1>8, <1>9, <1>11
<1>23. Makes(h)'
  BY <1>2, <1>3, <1>6, <1>7, <1>8, <1>17, <1>19, <1>20, <1>21, <1>22
     DEF Makes, Promised!Last, Promised!PathRequest, KindOf
<1>24. Runs'
  BY <1>1, <1>6, <1>7, <1>8, <1>23 DEF Runs
<1> QED BY <1>1, <1>7, <1>8, <1>9, <1>18, <1>24, StoryGoes

(* A pointer to an inode that was nowhere puts it into one directory. *)
LEMMA LinkedPtr ==
  ASSUME NEW d \in Disks, NEW e \in Disks, NEW b \in Addr, b # 0,
         NEW list, Owns(d, {}, {b}, list), DirsReadable(d), Bytes(d),
         NEW p \in Addr, p # b, IsDirOn(d, p), NEW k \in 1 .. Slots, d[p].ptr[k] = 0,
         d[b].type = "INODE", \A i \in 1 .. Slots : d[b].ptr[i] = 0,
         e = WithPtr(d, p, k, b)
  PROVE  /\ DirsReadable(e) /\ Bytes(e) /\ Shows(d, e, {b})
         /\ e[b] = d[b] /\ d[b].size = 0 /\ DirOf(e, b) = {p}
         /\ b \notin Inodes(d) /\ b \in Inodes(e)
<1>1. /\ \A x \in Addr : Alike(d[x], e[x])
      /\ \A x \in Addr, i \in 1 .. Slots : x # p \/ i # k => e[x].ptr[i] = d[x].ptr[i]
      /\ e[p].ptr[k] = b
  BY PtrWrite
<1>2. \A x \in Addr \ {p} : e[x] = d[x]
  BY DEF WithPtr, Disks
<1>3. /\ d[p].kind # "file" /\ Shaped(d)
      /\ d[p].type = "SUPERBLOCK" \/ (d[p].type = "INODE" /\ d[p].kind = "dir")
  BY DirsAre DEF Owns
<1>4. d[p].size = 0 /\ d[b].size = 0
  BY <1>3 DEF Bytes
<1>5. DirsReadable(e) /\ Bytes(e)
  <2>1. \A x \in Addr :
           /\ e[x].kind = "dir" =>
                e[x].name \notin Unreadable \/ (d[x].kind = "dir" /\ e[x].name = d[x].name)
           /\ e[x].size # 0 => /\ e[x].size = d[x].size /\ e[x].kind = d[x].kind
                               /\ e[x].ptr = d[x].ptr
    BY <1>1, <1>2, <1>4 DEF Alike
  <2> QED BY <2>1, ReadableAs
<1>6. \A n \in Addr \ {b} : n \in Inodes(d) \/ n \in Inodes(e) =>
        \A i \in 1 .. Slots : d[p].ptr[i] = n <=> e[p].ptr[i] = n
  <2>1. \A n \in Addr : n \in Inodes(d) \/ n \in Inodes(e) => n # 0
    BY <1>1, <1>3 DEF Inodes, Alike, Shaped, SUPERBLOCK_DISKLOC
  <2> QED BY <1>1, <2>1
<1>7. Shows(d, e, {b})
  BY <1>1, <1>2, <1>4, <1>6, PtrShows
<1>8. \A x \in Addr, i \in 1 .. Slots : d[x].ptr[i] # b
  BY OneOwnerOf DEF Counts
<1>9. DirOf(d, b) = {}
  BY <1>8 DEF DirOf
<1>10. DirOf(e, b) = {p}
  <2>1. p \in DirOf(e, b)
    BY <1>1, <1>3 DEF DirOf, Alike
  <2>2. \A x \in Addr \ {p} : x \notin DirOf(e, b)
    BY <1>1, <1>8 DEF DirOf
  <2>3. DirOf(e, b) \subseteq Addr
    BY DEF DirOf
  <2> QED BY <2>1, <2>2, <2>3
<1>11. b \notin Inodes(d) /\ b \in Inodes(e)
  BY <1>2, <1>9, <1>10 DEF Inodes
<1> QED BY <1>2, <1>4, <1>5, <1>7, <1>10, <1>11

(* The tree has one node more. *)
LEMMA TreeMore ==
  ASSUME Kept({}, {}), NEW e, NEW b \in Addr, Shows(disk, e, {b}),
         b \notin Inodes(disk), b \in Inodes(e), NEW node, Node(e, b) = node
  PROVE  /\ b \notin DOMAIN settled.tree
         /\ Tree(e) = [m \in DOMAIN settled.tree \cup {b} |->
                         IF m = b THEN node ELSE settled.tree[m]]
<1>1. /\ DOMAIN settled.tree = Inodes(disk)
      /\ \A m \in Inodes(disk) : settled.tree[m] = Node(disk, m)
  BY DEF Kept
<1>2. Inodes(e) = Inodes(disk) \cup {b}
  BY DEF Shows
<1>3. \A m \in Inodes(e) : Node(e, m) = IF m = b THEN node ELSE settled.tree[m]
  BY <1>1, <1>2 DEF Shows
<1> QED BY <1>1, <1>2, <1>3 DEF Tree

LEMMA NewNodeIs ==
  ASSUME NEW e, NEW b, NEW kind, NEW name, e[b] = Inode(kind, name),
         NEW p \in Addr, DirOf(e, b) = {p}
  PROVE  Node(e, b) = Promised!NewNode(kind, name, p)
<1>1. /\ e[b].kind = kind /\ e[b].name = name /\ e[b].off = 0 /\ e[b].size = 0
  BY DEF Inode, Blank
<1>2. MinOf({p}) = p
  <2>1. {p} \in SUBSET Nat /\ {p} # {}
    BY DEF Addr
  <2>2. MinOf({p}) \in {p}
    BY <2>1, MinIs
  <2> QED BY <2>2
<1>3. [o \in 1 .. e[b].size |-> ByteAt(e, e[b], o - 1)] = <<>>
  BY <1>1
<1> QED BY <1>1, <1>2, <1>3 DEF Node, Promised!NewNode

(* The last write of tfs_openFile and tfs_createDir. *)
LEMMA StoryLinkInode ==
  ASSUME Story, Ownership, TypeOK, TypeOK', LinkInode, Settle(asked) PROVE Good
<1>1. PICK list \in Lists, c \in NewSteps :
        /\ c = Head(todo) /\ c.op = "link" /\ todo = <<c>> /\ Makes(c)
        /\ Links(c, list) /\ mounted /\ asked # Promised!NoCall
        /\ InDir(c.dir)
  <2>1. Doing("link")
    BY DEF LinkInode
  <2>2. PICK op \in {"create", "newInode", "link"} : op = "link"
    OBVIOUS
  <2> QED BY <2>1, <2>2, WhoMakes
<1>2. PICK path, b, p, code : path = asked.path /\ b = c.blk /\ p = c.dir /\ code = c.code
  OBVIOUS
<1>3. /\ asked.op \in {"openFile", "createDir"}
      /\ asked = Promised!PathRequest(asked.op, path)
      /\ path \in AnyPath /\ Len(path) \in Nat \ {0} /\ path \in Paths
      /\ Promised!Readable(path) /\ Kept({}, {})
  BY <1>1, <1>2, MakingIs
<1>4. PICK kind, name : kind = KindOf(asked.op) /\ name = Promised!Last(path)
  OBVIOUS
<1>5. /\ disk[b] = Inode(kind, name)
      /\ p \in Promised!Dirs(Promised!Above(path)) /\ Opened(code, b)
  BY <1>1, <1>2, <1>4 DEF Makes
<1>6. /\ disk \in Disks /\ disk' \in Disks
      /\ b \in Addr /\ p \in Addr /\ b # 0 /\ b # p /\ IsDirOn(disk, p)
      /\ Owns(disk, {}, {b}, list) /\ disk[b].type = "INODE"
      /\ \A i \in 1 .. Slots : disk[b].ptr[i] = 0
      /\ Named(disk, p, disk[b].name) = {}
      /\ DirsReadable(disk) /\ Bytes(disk)
  <2>1. c \in Steps
    BY <1>1, TopOf
  <2>2. b \in Addr /\ b # 0 /\ b # p /\ p \in Addr /\ IsDirOn(disk, p)
    BY <1>1, <1>2, <2>1, StepOf, Ends DEF Links, InDir
  <2>3. Sound({}, {b}, {}, list)
    BY <1>1, <1>2 DEF Links
  <2> QED BY <1>1, <1>2, <2>2, <2>3 DEF Links, Sound, TypeOK, Disks, Story
<1>7. PICK k \in 1 .. Slots : disk[p].ptr[k] = 0 /\ disk' = WithPtr(disk, p, k, b)
  <2>1. Empty(disk[p].ptr) # {}
    <3>1. \E i \in 1 .. Slots : disk[p].ptr[i] = 0
      BY <1>6, RoomInDir
    <3> QED BY <3>1 DEF Empty
  <2>2. PICK k \in 1 .. Slots :
          First(Empty(disk[p].ptr), k) /\ disk' = [disk EXCEPT ![p].ptr[k] = b]
    BY <1>1, <1>2, <2>1 DEF LinkInode
  <2> QED BY <2>2 DEF First, Empty, WithPtr
<1>8. todo' = <<>> /\ ret'.code = code /\ fd_table' = fd_table /\ mounted' = mounted
  BY <1>1, <1>2, ReturnedIs DEF LinkInode, Finish, process
<1>9. /\ DirsReadable(disk') /\ Bytes(disk') /\ Shows(disk, disk', {b})
      /\ disk'[b] = disk[b] /\ DirOf(disk', b) = {p}
      /\ b \notin Inodes(disk) /\ b \in Inodes(disk')
  BY <1>6, <1>7, LinkedPtr
<1>10. Node(disk', b) = Promised!NewNode(kind, name, p)
  BY <1>5, <1>6, <1>9, NewNodeIs
<1>11. /\ settled'.tree = Tree(disk') /\ settled'.fds = fd_table' /\ settled'.code = code
       /\ asked' = Promised!NoCall
  BY <1>8, Ended
<1>12. /\ b \notin DOMAIN settled.tree
       /\ settled'.tree = [m \in DOMAIN settled.tree \cup {b} |->
                             IF m = b THEN Promised!NewNode(kind, name, p) ELSE settled.tree[m]]
  <2>1. PICK node : node = Promised!NewNode(kind, name, p)
    OBVIOUS
  <2>2. Node(disk', b) = node
    BY <1>10, <2>1
  <2>3. /\ b \notin DOMAIN settled.tree
        /\ Tree(disk') = [m \in DOMAIN settled.tree \cup {b} |->
                            IF m = b THEN node ELSE settled.tree[m]]
    <3>1. PICK e : e = disk'
      OBVIOUS
    <3>2. /\ Kept({}, {}) /\ b \in Addr /\ Shows(disk, e, {b})
          /\ b \notin Inodes(disk) /\ b \in Inodes(e) /\ Node(e, b) = node
      BY <1>3, <1>6, <1>9, <2>2, <3>1
    <3>3. /\ b \notin DOMAIN settled.tree
          /\ Tree(e) = [m \in DOMAIN settled.tree \cup {b} |->
                          IF m = b THEN node ELSE settled.tree[m]]
      BY <3>2, TreeMore
    <3> QED BY <3>1, <3>3
  <2> QED BY <1>11, <2>1, <2>3
<1>13. Promised!IsDir(p)
  BY <1>5 DEF Promised!Dirs
<1>14. \A n \in Promised!Children(p) : settled.tree[n].name # name
  <2>1. SUFFICES ASSUME NEW n \in DOMAIN settled.tree, settled.tree[n].dir = p,
                        settled.tree[n].name = name
                 PROVE  FALSE
    BY DEF Promised!Children
  <2>2. n \in Inodes(disk) /\ settled.tree[n] = Node(disk, n)
    BY <1>3 DEF Kept
  <2>3. n # 0 /\ \E i \in 1 .. Slots : disk[Node(disk, n).dir].ptr[i] = n
    BY <1>6, <2>2, NodeEntry
  <2>4. disk[n].name = name /\ disk[b].name = name
    BY <1>5, <2>1, <2>2 DEF Node, Inode, Blank
  <2> QED BY <1>6, <2>1, <2>2, <2>3, <2>4, Ends DEF Named
<1>15. Promised!Add(b, kind, name, p)
  BY <1>1, <1>12, <1>13, <1>14 DEF Promised!Add
<1>16. b \in (Addr \ {SUPERBLOCK_DISKLOC}) \ DOMAIN settled.tree
  BY <1>6, <1>12, Ends
<1>17. CASE asked.op = "openFile"
  <2>1. /\ code \in FDs /\ settled.fds[code] = 0
        /\ fd_table = [settled.fds EXCEPT ![code] = b]
    BY <1>5, <1>17 DEF Opened
  <2>2. Promised!Opened(code, b)
    BY <1>8, <1>11, <2>1, Ends DEF Promised!Opened
  <2>3. kind = "file"
    BY <1>4, <1>17 DEF KindOf
  <2>4. Promised!OpenNew(code, b, Promised!Last(path), p)
    BY <1>4, <1>15, <2>2, <2>3 DEF Promised!OpenNew
  <2>5. Promised!Answer
    BY <1>1, <1>2, <1>3, <1>5, <1>11, <1>16, <1>17, <2>1, <2>4 DEF Promised!Answer
  <2> QED BY <1>1, <1>8, <1>9, <2>5, AnswersNow
<1>18. CASE asked.op = "createDir"
  <2>1. code = TFS_SUCCESS /\ fd_table = settled.fds
    BY <1>5, <1>18 DEF Opened
  <2>2. Promised!Succeeds /\ settled'.fds = settled.fds
    BY <1>8, <1>11, <2>1 DEF Promised!Succeeds, TFS_SUCCESS
  <2>3. kind = "dir"
    BY <1>4, <1>18 DEF KindOf
  <2>4. Promised!MakeDir(b, Promised!Last(path), p)
    BY <1>4, <1>15, <2>2, <2>3 DEF Promised!MakeDir
  <2>5. Promised!Answer
    BY <1>1, <1>2, <1>3, <1>5, <1>11, <1>16, <1>18, <2>4 DEF Promised!Answer
  <2> QED BY <1>1, <1>8, <1>9, <2>5, AnswersNow
<1> QED BY <1>3, <1>17, <1>18

---------------------------------------------------------------------------
(* tfs_removeAll goes through the entries of a directory.                  *)

Passes(s, stack, gone, d) ==
  /\ Kept(gone, {}) /\ Unopened(gone) /\ gone \subseteq Promised!Below(d) \ {0}
  /\ gone # {} => asked.op = "removeAll"
  /\ s.dir \in Promised!Below(d)
  /\ \A i \in 1 .. Slots : i < s.at => s.copy.ptr[i] = 0
  /\ \A x \in WorkOf(stack) : Within(x, d)
  /\ stack = <<>> =>
       /\ s.dir = d
       /\ asked.op = "removeAll"
       /\ asked = Promised!PathRequest(asked.op, asked.path)
       /\ d \in Promised!Dirs(asked.path)
  /\ stack # <<>> => Aim(EndOf(stack), d)

LEMMA ClearsPasses ==
  ASSUME NEW stack \in Stacks, NEW s, s.op \in {"scan", "rewrite"}, TypeOK,
         todo = <<s>> \o stack, NEW gone, NEW d, Clears(gone, d)
  PROVE  Passes(s, stack, gone, d)
<1>1. Head(todo) = s /\ Tail(todo) = stack
  BY OnStack
<1>2. Leaving(todo) = {}
  BY LeavesNone DEF Unlinks
<1>3. /\ Kept(gone, {}) /\ Unopened(gone) /\ gone \subseteq Promised!Below(d) \ {0}
      /\ gone # {} => asked.op = "removeAll"
      /\ \A x \in WorkOf(todo) : Within(x, d)
      /\ Aim(EndOf(todo), d)
  BY <1>2 DEF Clears, EndOf
<1>4. /\ WorkOf(todo) = {s} \cup WorkOf(stack)
      /\ EndOf(todo) = IF stack = <<>> THEN s ELSE EndOf(stack)
  BY WorkOfOne
<1>5. Within(s, d)
  BY <1>3, <1>4
<1>6. stack = <<>> => Aim(s, d)
  BY <1>3, <1>4
<1>7. s.dir \in Promised!Below(d) /\ \A i \in 1 .. Slots : i < s.at => s.copy.ptr[i] = 0
  BY <1>5 DEF Within
<1>8. stack = <<>> =>
       /\ s.dir = d
       /\ asked.op = "removeAll"
       /\ asked = Promised!PathRequest(asked.op, asked.path)
       /\ d \in Promised!Dirs(asked.path)
  BY <1>6 DEF Aim
<1> QED BY <1>3, <1>4, <1>7, <1>8 DEF Passes

LEMMA WhoScans ==
  ASSUME Story, Ownership, TypeOK, Doing("scan"), NEW s, s = Head(todo)
  PROVE  \E list \in Lists, stack \in Stacks, gone \in SUBSET Addr, d \in Addr :
           /\ s \in ScanSteps /\ Scans(s, list, stack) /\ Waiting(disk, stack, list)
           /\ Passes(s, stack, gone, d)
           /\ mounted /\ asked # Promised!NoCall
<1>1. PICK list \in Lists, stack \in Stacks :
        Waiting(disk, stack, list) /\ s \in ScanSteps /\ Scans(s, list, stack)
  BY WhereScan
<1>2. AtScan(list, stack)
  BY <1>1 DEF AtScan
<1>3. /\ mounted /\ asked # Promised!NoCall
      /\ \E gone \in SUBSET Addr, d \in Addr : Clears(gone, d)
  BY <1>2, StoryAt
<1>4. PICK gone \in SUBSET Addr, d \in Addr : Clears(gone, d)
  BY <1>3
<1>5. s.op = "scan" /\ todo = <<s>> \o stack
  BY <1>1 DEF Scans
<1>6. Passes(s, stack, gone, d)
  BY <1>4, <1>5, ClearsPasses
<1> QED BY <1>1, <1>3, <1>6

LEMMA WhoRewrites ==
  ASSUME Story, Ownership, TypeOK, Doing("rewrite"), NEW r, r = Head(todo)
  PROVE  \E list \in Lists, stack \in Stacks, gone \in SUBSET Addr, d \in Addr :
           /\ r \in ScanSteps /\ r.op = "rewrite" /\ todo = <<r>> \o stack
           /\ Tail(todo) = stack
           /\ WaitsFor(disk, r, list) /\ disk[r.dir].ptr[r.at] = 0 /\ AtRest(list)
           /\ Passes(r, stack, gone, d)
           /\ mounted /\ asked # Promised!NoCall
<1>1. PICK list \in Lists, all \in Stacks : Waiting(disk, all, list) /\ AtRewrite(list, all)
  BY Where
<1>2. all # <<>> /\ todo = all /\ AtRest(list) /\ disk[all[1].dir].ptr[all[1].at] = 0
  BY <1>1 DEF AtRewrite
<1>3. PICK stack : stack = Tail(all)
  OBVIOUS
<1>4. /\ all[1] = r /\ r \in ScanSteps /\ r.op = "rewrite" /\ stack \in Stacks
      /\ 1 \in 1 .. Len(all) /\ todo = <<r>> \o stack
  <2>1. Head(all) = all[1]
    BY <1>2
  <2> QED BY <1>2, <1>3, <2>1, StackTop
<1>5. WaitsFor(disk, r, list)
  BY <1>1, <1>4 DEF Waiting
<1>6. /\ mounted /\ asked # Promised!NoCall
      /\ \E gone \in SUBSET Addr, d \in Addr : Clears(gone, d)
  BY <1>1, StoryAt
<1>7. PICK gone \in SUBSET Addr, d \in Addr : Clears(gone, d)
  BY <1>6
<1>8. Passes(r, stack, gone, d)
  BY <1>4, <1>7, ClearsPasses
<1> QED BY <1>2, <1>3, <1>4, <1>5, <1>6, <1>8

(* The first entry that is left is below the directory that is removed. *)
LEMMA ScanEntry ==
  ASSUME TypeOK, NEW list \in Lists, NEW stack, NEW s \in ScanSteps, Scans(s, list, stack),
         NEW gone, NEW d, Passes(s, stack, gone, d),
         NEW i \in 1 .. Slots, First(Entries(s), i), NEW n, n = s.copy.ptr[i]
  PROVE  /\ n \in Addr /\ n # 0 /\ n \in Promised!Below(d)
         /\ disk[n].kind \in {"file", "dir"}
         /\ \A j \in 1 .. Slots : j < i => s.copy.ptr[j] = 0
         /\ disk[n].kind = "dir" =>
              LET path == Append(s.path, disk[n].name)
              IN  Len(path) = Len(s.path) + 1 /\ Leads(disk, path, Len(path), n)
<1>1. /\ AtRest(list) /\ s.copy = disk[s.dir] /\ Leads(disk, s.path, Len(s.path), s.dir)
  BY DEF Scans
<1>2. s.dir \in Addr /\ Len(s.path) \in Nat /\ s.path \in AnyPath /\ IsDirOn(disk, s.dir)
  BY <1>1, ScanIs, LeadsToDir
<1>3. n # 0 /\ disk[s.dir].ptr[i] = n
  BY <1>1 DEF First, Entries
<1>4. n \in Addr /\ disk[n].kind \in {"file", "dir"}
  BY <1>1, <1>2, <1>3, EntryIs
<1>5. \A j \in 1 .. Slots : j < i => s.copy.ptr[j] = 0
  <2>1. SUFFICES ASSUME NEW j \in 1 .. Slots, j < i, s.copy.ptr[j] # 0 PROVE FALSE
    OBVIOUS
  <2>2. ~ (j < s.at)
    BY <2>1 DEF Passes
  <2>3. j >= s.at
    BY <2>2, ScanIs
  <2> QED BY <2>1, <2>3 DEF First, Entries
<1>6. n \in Promised!Below(d)
  <2>1. n \in DOMAIN settled.tree /\ settled.tree[n].dir = s.dir
    <3>1. Kept(gone, {})
      BY DEF Passes
    <3> QED BY <1>1, <1>2, <1>3, <3>1, ChildIs
  <2>2. s.dir \in Promised!Below(d)
    BY DEF Passes
  <2> QED BY <2>1, <2>2, BelowChild
<1>7. ASSUME disk[n].kind = "dir", NEW path, path = Append(s.path, disk[n].name)
      PROVE  Len(path) = Len(s.path) + 1 /\ Leads(disk, path, Len(path), n)
  <2>1. /\ Len(path) = Len(s.path) + 1 /\ path[Len(s.path) + 1] = disk[n].name
        /\ \A j \in 1 .. Len(s.path) : path[j] = s.path[j]
    BY <1>2, <1>7 DEF AnyPath
  <2>2. \A j \in 1 .. Slots : j < i => disk[s.dir].ptr[j] = 0
    BY <1>1, <1>5
  <2>3. PICK way, x, e : way = s.path /\ x = s.dir /\ e = disk
    OBVIOUS
  <2>4. /\ Len(way) \in Nat /\ Leads(e, way, Len(way), x)
        /\ \A j \in 1 .. Slots : j < i => e[x].ptr[j] = 0
        /\ n \in Addr /\ e[x].ptr[i] = n /\ n # 0 /\ e[n].kind = "dir"
        /\ Len(path) = Len(way) + 1 /\ path[Len(way) + 1] = e[n].name
        /\ \A j \in 1 .. Len(way) : path[j] = way[j]
    BY <1>1, <1>2, <1>3, <1>4, <1>7, <2>1, <2>2, <2>3
  <2>5. Leads(e, path, Len(path), n)
    BY <2>4, EntryLeads
  <2> QED BY <2>1, <2>3, <2>5
<1> QED BY <1>3, <1>4, <1>5, <1>6, <1>7

(* The call that goes on with the next entry. *)
LEMMA PassesRewrite ==
  ASSUME NEW stack \in Stacks, NEW s, NEW gone, NEW d, Passes(s, stack, gone, d),
         NEW r, r.op = "rewrite", r.dir = s.dir, r.copy = s.copy,
         \A j \in 1 .. Slots : j < r.at => s.copy.ptr[j] = 0,
         NEW long, long = <<r>> \o stack
  PROVE  /\ \A x \in WorkOf(long) : Within(x, d)
         /\ long # <<>> /\ Aim(EndOf(long), d)
<1>1. /\ WorkOf(long) = {r} \cup WorkOf(stack)
      /\ EndOf(long) = IF stack = <<>> THEN r ELSE EndOf(stack)
      /\ long # <<>>
  BY WorkOfOne, Tops
<1>2. Within(r, d)
  BY DEF Within, Passes, Unlinks
<1>3. stack = <<>> => Aim(r, d)
  BY DEF Passes, Aim
<1> QED BY <1>1, <1>2, <1>3 DEF Passes

(* The next entry of a directory is a file: it is removed. *)
LEMMA StoryScanFile ==
  ASSUME Story, TypeOK, Settle(asked), mounted, mounted' = mounted, disk' = disk,
         fd_table' = fd_table, NEW list \in Lists, NEW stack \in Stacks,
         NEW s \in ScanSteps, Scans(s, list, stack),
         NEW gone \in SUBSET Addr, NEW d \in Addr, Passes(s, stack, gone, d),
         NEW i \in 1 .. Slots, First(Entries(s), i), NEW n, n = s.copy.ptr[i],
         disk[n].kind = "file",
         todo' = (RemoveInode(n, s.dir) \o <<Rewrite(s.path, s.dir, s.copy, i)>>) \o stack
  PROVE  Good
<1>1. PICK r, p : r = Rewrite(s.path, s.dir, s.copy, i) /\ p = s.dir
  OBVIOUS
<1>2. r.op = "rewrite" /\ r.path = s.path /\ r.dir = s.dir /\ r.copy = s.copy /\ r.at = i
  BY <1>1 DEF Rewrite
<1>3. /\ n \in Addr /\ n # 0 /\ n \in Promised!Below(d)
      /\ \A j \in 1 .. Slots : j < i => s.copy.ptr[j] = 0
  BY ScanEntry
<1>4. PICK long : long = <<r>> \o stack
  OBVIOUS
<1>5. long \in Stacks
  <2>1. r \in Steps
    <3>1. s.path \in AnyPath /\ s.dir \in Addr /\ s.copy \in Sized /\ i \in Nat
          /\ (s.dir = 0 \/ s.path # <<>>)
      BY ScanIs, Bounds
    <3> QED BY <1>1, <3>1, NewWork
  <2>2. r \in ScanSteps
    BY <1>2, <2>1, StepOf
  <2> QED BY <1>2, <1>4, <2>2 DEF Stacks
<1>6. /\ \A x \in WorkOf(long) : Within(x, d)
      /\ long # <<>> /\ Aim(EndOf(long), d)
  BY <1>2, <1>3, <1>4, PassesRewrite
<1>7. PICK a, b, c : a = Release(disk[n].ptr, 1) /\ b = FreeBody(n) /\ c = Unlink(n, p)
  OBVIOUS
<1>8. /\ a.op = "release" /\ b.op = "freeBody" /\ c.op = "unlink" /\ c.blk = n
  BY <1>7 DEF Release, FreeBody, Unlink
<1>9. todo' = <<a, b, c>> \o long
  <2>1. PICK x : x = RemoveInode(n, p)
    OBVIOUS
  <2>2. PICK T : T = {a, b, c}
    OBVIOUS
  <2>3. x = <<a, b, c>> /\ x \in Seq(T)
    BY <1>7, <2>1, <2>2 DEF RemoveInode
  <2>4. (x \o <<r>>) \o stack = x \o (<<r>> \o stack)
    BY <2>3, Regroup
  <2>5. todo' = x \o long
    BY <1>1, <1>4, <2>1, <2>4
  <2> QED BY <2>3, <2>5
<1>10. /\ todo' # <<>> /\ Head(todo') = a
       /\ WorkOf(todo') = {a, b, c} \cup WorkOf(long)
       /\ EndOf(todo') = EndOf(long)
  <2>1. PICK u : u = <<a, b, c>> \o long
    OBVIOUS
  <2>2. u # <<>> /\ Head(u) = a
    BY <1>5, <2>1, Tops
  <2>3. WorkOf(u) = {a, b, c} \cup WorkOf(long)
    BY <1>5, <2>1, WorkOfThree
  <2>4. EndOf(u) = IF long = <<>> THEN c ELSE EndOf(long)
    BY <1>5, <2>1, WorkOfThree
  <2> QED BY <1>6, <1>9, <2>1, <2>2, <2>3, <2>4
<1>11. Within(a, d) /\ Within(b, d) /\ Within(c, d)
  BY <1>3, <1>8 DEF Within, Unlinks
<1>12. \A x \in WorkOf(todo') : Within(x, d)
  BY <1>6, <1>10, <1>11
<1>13. PICK l : l = EndOf(todo')
  OBVIOUS
<1>14. Aim(l, d) /\ a.op # "walk"
  BY <1>6, <1>8, <1>10, <1>13
<1>15. /\ Kept(gone, {}) /\ Unopened(gone) /\ gone \subseteq Promised!Below(d) \ {0}
       /\ gone # {} => asked.op = "removeAll"
  BY DEF Passes
<1> QED BY <1>10, <1>12, <1>13, <1>14, <1>15, ClearsGoOn

(* It is a directory: tfs_removeAll is called on its path. *)
LEMMA StoryScanDir ==
  ASSUME Story, TypeOK, Settle(asked), mounted, mounted' = mounted, disk' = disk,
         fd_table' = fd_table, NEW list \in Lists, NEW stack \in Stacks,
         NEW s \in ScanSteps, Scans(s, list, stack),
         NEW gone \in SUBSET Addr, NEW d \in Addr, Passes(s, stack, gone, d),
         NEW i \in 1 .. Slots, First(Entries(s), i), NEW n, n = s.copy.ptr[i],
         disk[n].kind = "dir",
         todo' = (<<Walk("removeAll", Append(s.path, disk[n].name), 1, SUPERBLOCK_DISKLOC)>>
                    \o <<Rewrite(s.path, s.dir, s.copy, i)>>) \o stack
  PROVE  Good
<1>1. PICK path, r, w :
        /\ path = Append(s.path, disk[n].name)
        /\ r = Rewrite(s.path, s.dir, s.copy, i)
        /\ w = Walk("removeAll", path, 1, SUPERBLOCK_DISKLOC)
  OBVIOUS
<1>2. /\ r.op = "rewrite" /\ r.path = s.path /\ r.dir = s.dir /\ r.copy = s.copy
      /\ r.at = i
      /\ w.op = "walk" /\ w.call = "removeAll" /\ w.path = path
  BY <1>1 DEF Rewrite, Walk
<1>3. /\ n \in Addr /\ n # 0 /\ n \in Promised!Below(d)
      /\ \A j \in 1 .. Slots : j < i => s.copy.ptr[j] = 0
      /\ Leads(disk, path, Len(path), n)
  BY <1>1, ScanEntry
<1>4. PICK long : long = <<r>> \o stack
  OBVIOUS
<1>5. long \in Stacks
  <2>1. r \in Steps
    <3>1. s.path \in AnyPath /\ s.dir \in Addr /\ s.copy \in Sized /\ i \in Nat
          /\ (s.dir = 0 \/ s.path # <<>>)
      BY ScanIs, Bounds
    <3> QED BY <1>1, <3>1, NewWork
  <2>2. r \in ScanSteps
    BY <1>2, <2>1, StepOf
  <2> QED BY <1>2, <1>4, <2>2 DEF Stacks
<1>6. /\ \A x \in WorkOf(long) : Within(x, d)
      /\ long # <<>> /\ Aim(EndOf(long), d)
  BY <1>2, <1>3, <1>4, PassesRewrite
<1>7. todo' = <<w>> \o long
  <2>1. PICK x : x = <<w>>
    OBVIOUS
  <2>2. PICK T : T = {w}
    OBVIOUS
  <2>3. x \in Seq(T)
    BY <2>1, <2>2
  <2>4. (x \o <<r>>) \o stack = x \o (<<r>> \o stack)
    BY <2>3, Regroup
  <2>5. todo' = x \o long
    BY <1>1, <1>4, <2>1, <2>4
  <2> QED BY <2>1, <2>5
<1>8. /\ todo' # <<>> /\ Head(todo') = w /\ Tail(todo') = long
      /\ WorkOf(todo') = {w} \cup WorkOf(long)
      /\ EndOf(todo') = EndOf(long)
  <2>1. PICK u : u = <<w>> \o long
    OBVIOUS
  <2>2. u # <<>> /\ Head(u) = w /\ Tail(u) = long
    BY <1>5, <2>1, Tops
  <2>3. WorkOf(u) = {w} \cup WorkOf(long)
    BY <1>5, <2>1, WorkOfOne
  <2>4. EndOf(u) = IF long = <<>> THEN w ELSE EndOf(long)
    BY <1>5, <2>1, WorkOfOne
  <2> QED BY <1>6, <1>7, <2>1, <2>2, <2>3, <2>4
<1>9. Within(w, d)
  BY <1>2 DEF Within, Unlinks
<1>10. \A x \in WorkOf(todo') : Within(x, d)
  BY <1>6, <1>8, <1>9
<1>11. PICK l : l = EndOf(todo')
  OBVIOUS
<1>12. Aim(l, d)
  BY <1>6, <1>8, <1>11
<1>13. Finds(w, d)'
  <2>1. (n \in Promised!Below(d))'
    <3>1. settled' = settled /\ asked' = asked
      BY <1>8, Ongoing
    <3>2. Promised!Below(d)' = Promised!Below(d)
      BY <3>1, AsBefore
    <3> QED BY <1>3, <3>2
  <2>2. Leads(disk, w.path, Len(w.path), n)'
    BY <1>2, <1>3, LeadsStill
  <2> QED BY <1>2, <1>3, <1>6, <1>8, <2>1, <2>2 DEF Finds
<1>14. /\ Kept(gone, {}) /\ Unopened(gone) /\ gone \subseteq Promised!Below(d) \ {0}
       /\ gone # {} => asked.op = "removeAll"
  BY DEF Passes
<1> QED BY <1>8, <1>10, <1>11, <1>12, <1>13, <1>14, ClearsGoOn

(* There is no entry left: the directory itself is removed, but the root.  *)
LEMMA ScannedIsEmpty ==
  ASSUME NEW list, NEW stack, NEW s \in ScanSteps, Scans(s, list, stack),
         NEW gone, NEW d, Passes(s, stack, gone, d), Entries(s) = {}
  PROVE  \A i \in 1 .. Slots : disk[s.dir].ptr[i] = 0
<1>1. SUFFICES ASSUME NEW i \in 1 .. Slots, s.copy.ptr[i] # 0 PROVE FALSE
  BY DEF Scans
<1>2. ~ (i < s.at)
  BY <1>1 DEF Passes
<1>3. i >= s.at
  BY <1>2, ScanIs
<1> QED BY <1>1, <1>3 DEF Entries

LEMMA StoryRootDone ==
  ASSUME Story, TypeOK, TypeOK', Settle(asked), mounted, mounted' = mounted,
         asked # Promised!NoCall, disk' = disk, fd_table' = fd_table,
         NEW list \in Lists, NEW stack \in Stacks,
         NEW s \in ScanSteps, Scans(s, list, stack),
         NEW gone \in SUBSET Addr, NEW d \in Addr, Passes(s, stack, gone, d),
         Entries(s) = {}, s.dir = 0, todo' = stack, ret'.code = 0 \/ todo' # <<>>
  PROVE  Good
<1>1. AtRest(list) /\ (stack # <<>> => Pending(disk, stack[1], s.dir, s.path))
  BY DEF Scans
<1>2. stack = <<>> /\ todo' = <<>> /\ ret'.code = 0
  BY <1>1 DEF Pending
<1>3. /\ Kept(gone, {}) /\ Unopened(gone) /\ gone \subseteq Promised!Below(d) \ {0}
      /\ d = 0 /\ asked.op = "removeAll" /\ d \in Promised!Dirs(asked.path)
  BY <1>2 DEF Passes
<1>4. \A i \in 1 .. Slots : disk[0].ptr[i] = 0
  BY ScannedIsEmpty
<1>5. PICK e, none : e = disk /\ none = {}
  OBVIOUS
<1>6. e \in Disks /\ Owns(e, {}, {}, list)
  BY <1>1, <1>5 DEF AtRest, Sound, TypeOK, Disks
<1>7. KeptOn(e, gone, {})
  BY <1>3, <1>5, KeptIs
<1>8. Promised!Below(d) \ {0} = gone
  <2>1. Readout
    BY DEF Story
  <2>2. d = 0 /\ \A i \in 1 .. Slots : e[0].ptr[i] = 0
    BY <1>3, <1>4, <1>5
  <2> QED BY <1>3, <1>6, <1>7, <2>1, <2>2, AllGone
<1>9. Promised!Without(gone)
  <2>1. KeptOn(disk', gone, {})
    BY <1>5, <1>7
  <2>2. \A fd \in FDs :
          fd_table'[fd] = IF settled.fds[fd] \in gone THEN 0 ELSE settled.fds[fd]
    BY <1>3 DEF Unopened
  <2> QED BY <1>2, <2>1, <2>2, WithoutIs
<1>10. Promised!RemoveTree(d)
  BY <1>3, <1>8, <1>9, Ends DEF Promised!RemoveTree, Promised!Dirs
<1>11. asked' = Promised!NoCall
  BY <1>2, Ended
<1>12. Promised!Answer
  BY <1>3, <1>10, <1>11 DEF Promised!Answer
<1>13. DirsReadable(disk') /\ Bytes(disk')
  BY DEF Story
<1> QED BY <1>2, <1>12, <1>13, AnswersNow

LEMMA StoryScanDone ==
  ASSUME Story, TypeOK, Settle(asked), mounted, mounted' = mounted,
         disk' = disk, fd_table' = fd_table,
         NEW list \in Lists, NEW stack \in Stacks,
         NEW s \in ScanSteps, Scans(s, list, stack),
         NEW gone \in SUBSET Addr, NEW d \in Addr, Passes(s, stack, gone, d),
         Entries(s) = {}, s.dir # 0,
         todo' = <<Walk("removeDir", s.path, 1, SUPERBLOCK_DISKLOC)>> \o stack
  PROVE  Good
<1>1. PICK w, n : w = Walk("removeDir", s.path, 1, SUPERBLOCK_DISKLOC) /\ n = s.dir
  OBVIOUS
<1>2. w.op = "walk" /\ w.call = "removeDir" /\ w.path = s.path
  BY <1>1 DEF Walk
<1>3. /\ Kept(gone, {}) /\ Unopened(gone) /\ gone \subseteq Promised!Below(d) \ {0}
      /\ gone # {} => asked.op = "removeAll"
      /\ n \in Promised!Below(d)
      /\ \A x \in WorkOf(stack) : Within(x, d)
      /\ stack = <<>> => n = d
  BY <1>1 DEF Passes
<1>4. /\ todo' # <<>> /\ Head(todo') = w /\ Tail(todo') = stack
      /\ WorkOf(todo') = {w} \cup WorkOf(stack)
      /\ EndOf(todo') = IF stack = <<>> THEN w ELSE EndOf(stack)
  BY <1>1, Tops, WorkOfOne
<1>5. Within(w, d)
  BY <1>2 DEF Within, Unlinks
<1>6. \A x \in WorkOf(todo') : Within(x, d)
  BY <1>3, <1>4, <1>5
<1>7. PICK l : l = EndOf(todo')
  OBVIOUS
<1>8. Aim(l, d)
  BY <1>2, <1>4, <1>7 DEF Passes, Aim
<1>9. Finds(w, d)'
  <2>1. (n \in Promised!Below(d))'
    <3>1. settled' = settled /\ asked' = asked
      BY <1>4, Ongoing
    <3>2. Promised!Below(d)' = Promised!Below(d)
      BY <3>1, AsBefore
    <3> QED BY <1>3, <3>2
  <2>2. Leads(disk, w.path, Len(w.path), n)'
    <3>1. Leads(disk, s.path, Len(s.path), s.dir)
      BY DEF Scans
    <3> QED BY <1>1, <1>2, <3>1, LeadsStill
  <2>3. \A i \in 1 .. Slots : disk'[n].ptr[i] = 0
    BY <1>1, ScannedIsEmpty
  <2> QED BY <1>1, <1>2, <1>3, <1>4, <2>1, <2>2, <2>3 DEF Finds
<1> QED BY <1>3, <1>4, <1>6, <1>7, <1>8, <1>9, ClearsGoOn

LEMMA StoryScanNext ==
  ASSUME Story, Ownership, TypeOK, TypeOK', ScanNext, Settle(asked) PROVE Good
<1>0. PICK s : s = Head(todo)
  OBVIOUS
<1>1. Doing("scan") /\ UNCHANGED <<disk, process>>
  BY DEF ScanNext
<1>2. PICK list \in Lists, stack \in Stacks, gone \in SUBSET Addr, d \in Addr :
        /\ s \in ScanSteps /\ Scans(s, list, stack) /\ Waiting(disk, stack, list)
        /\ Passes(s, stack, gone, d)
        /\ mounted /\ asked # Promised!NoCall
  BY <1>0, <1>1, WhoScans
<1>3. todo = <<s>> \o stack
  BY <1>2 DEF Scans
<1>4. \A steps : Resume(steps) => todo' = steps \o stack
  BY <1>3, OnStack
<1>5. disk' = disk /\ fd_table' = fd_table /\ mounted' = mounted
  BY <1>1 DEF process
<1>6. CASE Entries(s) = {} /\ s.dir = 0 /\ Resume(<<>>)
  <2>1. todo' = stack
    <3>1. todo' = <<>> \o stack
      BY <1>4, <1>6
    <3> QED BY <3>1 DEF Stacks
  <2>2. ret'.code = 0 \/ todo' # <<>>
    BY <1>6, ReturnedIs DEF Resume, TFS_SUCCESS
  <2> QED BY <1>2, <1>5, <1>6, <2>1, <2>2, StoryRootDone
<1>7. CASE /\ Entries(s) = {} /\ s.dir # 0
           /\ Resume(<<Walk("removeDir", s.path, 1, SUPERBLOCK_DISKLOC)>>)
  <2>1. todo' = <<Walk("removeDir", s.path, 1, SUPERBLOCK_DISKLOC)>> \o stack
    BY <1>4, <1>7
  <2> QED BY <1>2, <1>5, <1>7, <2>1, StoryScanDone
<1>8. ASSUME NEW i \in 1 .. Slots, First(Entries(s), i),
             NEW n, n = s.copy.ptr[i],
             NEW path, path = Append(s.path, disk[n].name),
             NEW then, then = <<Rewrite(s.path, s.dir, s.copy, i)>>,
             CASE disk[n].kind = "file" -> Resume(RemoveInode(n, s.dir) \o then)
               [] disk[n].kind = "dir" ->
                    /\ Len(path) <= NumBlocks
                    /\ Resume(<<Walk("removeAll", path, 1, SUPERBLOCK_DISKLOC)>> \o then)
               [] OTHER -> Resume(then)
      PROVE  Good
  <2>1. disk[n].kind \in {"file", "dir"}
    BY <1>2, <1>8, ScanEntry
  <2>2. CASE disk[n].kind = "file"
    <3>1. Resume(RemoveInode(n, s.dir) \o then)
      BY <1>8, <2>2
    <3>2. todo' = (RemoveInode(n, s.dir) \o then) \o stack
      BY <1>4, <3>1
    <3> QED BY <1>2, <1>5, <1>8, <2>2, <3>2, StoryScanFile
  <2>3. CASE disk[n].kind = "dir"
    <3>1. Resume(<<Walk("removeAll", path, 1, SUPERBLOCK_DISKLOC)>> \o then)
      BY <1>8, <2>3
    <3>2. todo' = (<<Walk("removeAll", path, 1, SUPERBLOCK_DISKLOC)>> \o then) \o stack
      BY <1>4, <3>1
    <3> QED BY <1>2, <1>5, <1>8, <2>3, <3>2, StoryScanDir
  <2> QED BY <2>1, <2>2, <2>3
<1>9. \/ /\ Entries(s) = {}
         /\ IF s.dir = SUPERBLOCK_DISKLOC THEN Resume(<<>>)
            ELSE Resume(<<Walk("removeDir", s.path, 1, SUPERBLOCK_DISKLOC)>>)
      \/ \E i \in 1 .. Slots :
           /\ First(Entries(s), i)
           /\ CASE disk[s.copy.ptr[i]].kind = "file" ->
                     Resume(RemoveInode(s.copy.ptr[i], s.dir)
                              \o <<Rewrite(s.path, s.dir, s.copy, i)>>)
                [] disk[s.copy.ptr[i]].kind = "dir" ->
                     /\ Len(Append(s.path, disk[s.copy.ptr[i]].name)) <= NumBlocks
                     /\ Resume(<<Walk("removeAll",
                                     Append(s.path, disk[s.copy.ptr[i]].name), 1,
                                     SUPERBLOCK_DISKLOC)>>
                                 \o <<Rewrite(s.path, s.dir, s.copy, i)>>)
                [] OTHER -> Resume(<<Rewrite(s.path, s.dir, s.copy, i)>>)
  BY <1>0 DEF ScanNext
<1>10. SUPERBLOCK_DISKLOC = 0
  BY Ends
<1>11. \/ Entries(s) = {} /\ s.dir = 0 /\ Resume(<<>>)
       \/ /\ Entries(s) = {} /\ s.dir # 0
          /\ Resume(<<Walk("removeDir", s.path, 1, SUPERBLOCK_DISKLOC)>>)
       \/ Good
  BY <1>8, <1>9, <1>10
<1> QED BY <1>6, <1>7, <1>11

(* No path is longer than the disk has blocks: no directory is below       *)
(* itself.                                                                 *)
LEMMA NeverOverflows ==
  ASSUME Story, Ownership, TypeOK, RecursionOverflows PROVE FALSE
<1>0. PICK s : s = Head(todo)
  OBVIOUS
<1>1. PICK list \in Lists, stack \in Stacks, gone \in SUBSET Addr, d \in Addr :
        s \in ScanSteps /\ Scans(s, list, stack) /\ Passes(s, stack, gone, d)
  <2>1. Doing("scan")
    BY DEF RecursionOverflows
  <2> QED BY <1>0, <2>1, WhoScans
<1>2. PICK i \in 1 .. Slots :
        /\ First(Entries(s), i)
        /\ disk[s.copy.ptr[i]].kind = "dir"
        /\ Len(s.path) >= NumBlocks
  BY <1>0 DEF RecursionOverflows
<1>3. PICK n, path : n = s.copy.ptr[i] /\ path = Append(s.path, disk[n].name)
  OBVIOUS
<1>4. Len(path) = Len(s.path) + 1 /\ Leads(disk, path, Len(path), n)
  BY <1>1, <1>2, <1>3, ScanEntry
<1>5. OneParent(disk)
  <2>1. PICK none : none = {}
    OBVIOUS
  <2>2. disk \in Disks /\ Owns(disk, none, {}, list)
    BY <1>1, <2>1 DEF Scans, AtRest, Sound, TypeOK, Disks
  <2>3. Spent(disk, none)
    BY <2>1 DEF Spent
  <2> QED BY <2>2, <2>3, OneParentIs
<1>6. Len(path) < NumBlocks
  <2>1. Len(path) \in Nat
    BY <1>1, <1>4, ScanIs
  <2> QED BY <1>4, <1>5, <2>1, PathsEnd
<1> QED BY <1>1, <1>2, <1>4, <1>6, ScanIs, Bounds

(* tfs_removeAll writes its copy of the directory back, without the entry. *)
LEMMA StoryRewriteDir ==
  ASSUME Story, Ownership, TypeOK, TypeOK', RewriteDir, Settle(asked) PROVE Good
<1>0. PICK r : r = Head(todo)
  OBVIOUS
<1>1. Doing("rewrite") /\ UNCHANGED process
  BY DEF RewriteDir
<1>2. PICK list \in Lists, stack \in Stacks, gone \in SUBSET Addr, d \in Addr :
        /\ r \in ScanSteps /\ r.op = "rewrite" /\ todo = <<r>> \o stack
        /\ Tail(todo) = stack
        /\ WaitsFor(disk, r, list) /\ disk[r.dir].ptr[r.at] = 0 /\ AtRest(list)
        /\ Passes(r, stack, gone, d)
        /\ mounted /\ asked # Promised!NoCall
  BY <1>0, <1>1, WhoRewrites
<1>3. PICK copy, s : copy = CopyOf(r) /\ s = Scan(r.path, r.dir, copy, r.at + 1)
  OBVIOUS
<1>4. s.op = "scan" /\ s.dir = r.dir /\ s.copy = copy /\ s.at = r.at + 1
  BY <1>3 DEF Scan
<1>5. disk' = Rewritten(disk, r) /\ todo' = <<s>> \o stack
  BY <1>0, <1>2, <1>3 DEF RewriteDir, Resume, Rewritten, CopyOf
<1>6. /\ fd_table' = fd_table /\ mounted' = mounted
  BY <1>1 DEF process
<1>7. \/ disk' = disk
      \/ \E m : disk' = WithHead(disk, m)
  BY <1>2, <1>5, CopyIs
<1>8. Shows(disk, disk', {}) /\ DirsReadable(disk') /\ Bytes(disk')
  <2>1. CASE disk' = disk
    BY <2>1 DEF Story, Shows
  <2>2. CASE \E m : disk' = WithHead(disk, m)
    BY <2>2, PoppedShows
  <2> QED BY <1>7, <2>1, <2>2
<1>9. /\ todo' # <<>> /\ Head(todo') = s
      /\ WorkOf(todo') = {s} \cup WorkOf(stack)
      /\ EndOf(todo') = IF stack = <<>> THEN s ELSE EndOf(stack)
  BY <1>2, <1>5, Tops, WorkOfOne
<1>10. settled' = settled /\ asked' = asked
  BY <1>9, Ongoing
<1>11. /\ Kept(gone, {}) /\ Unopened(gone) /\ gone \subseteq Promised!Below(d) \ {0}
       /\ gone # {} => asked.op = "removeAll"
       /\ r.dir \in Promised!Below(d)
       /\ \A i \in 1 .. Slots : i < r.at => r.copy.ptr[i] = 0
       /\ \A x \in WorkOf(stack) : Within(x, d)
  BY <1>2 DEF Passes
<1>12. Within(s, d)
  <2>1. r.at \in 1 .. Slots /\ r.at \in Nat
    BY <1>2, ScanIs DEF WaitsFor
  <2>2. r.copy.ptr \in [1 .. Slots -> Addr]
    BY <1>2, ScanIs DEF Sized, Block
  <2>3. copy.ptr = [r.copy.ptr EXCEPT ![r.at] = 0]
    <3>1. r.copy \in Block
      BY <1>2, ScanIs DEF Sized
    <3>2. PICK blk, q : blk = r.copy /\ q = [r.copy.ptr EXCEPT ![r.at] = 0]
      OBVIOUS
    <3>3. copy = [blk EXCEPT !.ptr = q]
      BY <1>3, <3>2 DEF CopyOf
    <3> QED BY <3>1, <3>2, <3>3 DEF Block
  <2>4. ASSUME NEW i \in 1 .. Slots, i < r.at + 1 PROVE copy.ptr[i] = 0
    <3>1. i < r.at \/ i = r.at
      BY <2>1, <2>4
    <3> QED BY <1>11, <2>1, <2>2, <2>3, <3>1
  <2> QED BY <1>4, <1>11, <2>4 DEF Within, Unlinks
<1>13. \A x \in WorkOf(todo') : Within(x, d)
  BY <1>9, <1>11, <1>12
<1>14. PICK l : l = EndOf(todo')
  OBVIOUS
<1>15. Aim(l, d)
  BY <1>2, <1>4, <1>9, <1>14 DEF Passes, Aim
<1>16. Kept(gone, Leaving(todo))'
  <2>1. PICK none : none = {}
    OBVIOUS
  <2>2. KeptOn(disk, gone, none) /\ Shows(disk, disk', none)
    BY <1>8, <1>11, <2>1, KeptIs
  <2>3. KeptOn(disk', gone, none)
    BY <2>2, KeptShows
  <2>4. Leaving(todo') = none
    <3>1. s.op \notin {"unlink", "unlinkDir"}
      BY <1>4
    <3>2. \A x \in WorkOf(stack) : x.op = "rewrite"
      BY StackWork
    <3> QED BY <1>9, <2>1, <3>1, <3>2 DEF Leaving, Unlinks
  <2>5. Kept(gone, none)'
    BY <1>10, <2>3, KeptIs
  <2> QED BY <2>4, <2>5
<1>17. Unopened(gone)'
  BY <1>6, <1>10, <1>11 DEF Unopened
<1>18. s.op # "walk"
  BY <1>4
<1> QED BY <1>2, <1>6, <1>8, <1>9, <1>11, <1>13, <1>14, <1>15, <1>16, <1>17, <1>18, ClearsOn

---------------------------------------------------------------------------
(* The whole program. *)

LEMMA StoryStep ==
  ASSUME Story, Ownership, TypeOK, TypeOK', Careful, Continues PROVE Good
<1>1. Settle(asked) /\ Step
  BY DEF Continues
<1> QED
  BY <1>1, StoryFormat, StoryWalkRefuses, StoryWalkOn, StoryOpenFound, StoryDirFound,
     StoryNotFound, StoryPopInode, StoryWriteInode, StoryLinkInode, StoryFreeBlockBody,
     StoryFreeBlockHead, StoryReleaseBlocks, StoryUnlinkFile, StoryUnlinkDirectory,
     StoryScanNext, NeverOverflows, StoryRewriteDir, StoryGrabBlock, StoryFillBlock,
     StoryPointToBlock
     DEF Step

LEMMA StoryNext ==
  ASSUME Story, Ownership, Inv, TypeOK', Careful, ClientNext PROVE Good
<1>0. TypeOK
  BY DEF Inv
<1>1. CASE Formats
  BY <1>1, StoryMkfs
<1>2. CASE Mounts
  BY <1>2, StoryMount
<1>3. CASE Unmounts
  BY <1>3, StoryUnmount
<1>4. CASE RemovesRoot
  BY <1>4, StoryRemovesRoot
<1>5. CASE Continues
  BY <1>0, <1>5, StoryStep
<1>6. ~ Dies
  BY DEF Dies, May, Careful
<1>7. ASSUME NEW path \in Paths,
             Opens(path) \/ CreatesDir(path) \/ RemovesDir(path) \/ RemovesAll(path)
      PROVE  Good
  <2>1. \E call \in Lookups : PathCall(call, path) /\ ByPath(call, path)
    BY <1>7 DEF Opens, CreatesDir, RemovesDir, RemovesAll,
       OpenFile, CreateDir, RemoveDir, RemoveAll, Lookups
  <2> QED BY <2>1, StoryLooks
<1>8. ASSUME NEW fd \in FDs, Closes(fd) \/ Deletes(fd) \/ Reads(fd) PROVE Good
  BY <1>8, StoryClose, StoryDeletes, StoryRead
<1>9. ASSUME NEW fd \in FDs, NEW offset \in Offsets, Seeks(fd, offset) PROVE Good
  <2>1. offset \in Int
    BY <1>9, CallsAssumption
  <2> QED BY <1>9, <2>1, StorySeek
<1>10. ASSUME NEW fd \in FDs, NEW name \in Names, Renames(fd, name) PROVE Good
  BY <1>10, StoryRename
<1>11. ASSUME NEW fd \in FDs, NEW tag \in Tags, NEW size \in Sizes, Writes(fd, tag, size)
       PROVE  Good
  BY <1>11, StoryWrites
<1> QED BY <1>1, <1>2, <1>3, <1>4, <1>5, <1>6, <1>7, <1>8, <1>9, <1>10, <1>11 DEF ClientNext

LEMMA StoryInit == ClientInit => Story /\ Promised!FSInit
<1> SUFFICES ASSUME ClientInit PROVE Story /\ Promised!FSInit
  OBVIOUS
<1>1. /\ disk = Formatted /\ mounted = FALSE /\ fd_table = NoFds /\ todo = <<>>
      /\ ret.code < 0 /\ asked = Promised!NoCall
      /\ settled = [tree |-> Tree(disk), fds |-> fd_table, code |-> ret.code]
  BY ReturnedIs DEF ClientInit, Init, PENDING
<1>2. \A b \in Addr : /\ disk[b].kind = "none" /\ disk[b].size = 0
                      /\ disk[b].type # "INODE"
  <2> SUFFICES ASSUME NEW b \in Addr
               PROVE  /\ disk[b].kind = "none" /\ disk[b].size = 0
                      /\ disk[b].type # "INODE"
    OBVIOUS
  <2>1. PICK blk : blk = disk[b]
    OBVIOUS
  <2>2. blk = FormatSuper \/ blk = FormatBlk(b)
    BY <1>1, <2>1 DEF Formatted
  <2> QED BY <2>1, <2>2, Unformatted
<1>3. Inodes(disk) = {}
  BY <1>2 DEF Inodes
<1>4. DOMAIN Tree(disk) = {} /\ Tree(disk) = [n \in {} |-> n]
  BY <1>3 DEF Tree
<1>5. settled.tree = Tree(disk) /\ settled.fds = NoFds /\ settled.code = ret.code
  BY <1>1
<1>6. Readout
  <2>1. NoFds \in [FDs -> Addr]
    BY Ends DEF NoFds
  <2>2. settled.tree = [n \in DOMAIN settled.tree |-> settled.tree[n]]
    BY <1>5 DEF Tree
  <2> QED BY <1>4, <1>5, <2>1, <2>2 DEF Readout
<1>7. DirsReadable(disk) /\ Bytes(disk)
  BY <1>2 DEF DirsReadable, Bytes
<1>8. Rests
  BY <1>1 DEF Rests, Idle
<1>9. Promised!FSInit
  <2>1. settled.fds = Promised!NoHandles
    BY <1>5, Ends DEF Promised!NoHandles, NoFds
  <2> QED BY <1>1, <1>4, <1>5, <2>1 DEF Promised!FSInit, Promised!NoTree
<1> QED BY <1>6, <1>7, <1>8, <1>9 DEF Story

LEMMA StoryStutter ==
  ASSUME Story, UNCHANGED cvars PROVE Good
<1>1. /\ disk' = disk /\ mounted' = mounted /\ fd_table' = fd_table /\ todo' = todo
      /\ ret' = ret /\ settled' = settled /\ asked' = asked
  BY DEF cvars, vars
<1>2. Readout'
  BY <1>1 DEF Story, Readout
<1>3. DirsReadable(disk') /\ Bytes(disk')
  BY <1>1 DEF Story
<1>4. ASSUME NEW gone, NEW busy, Kept(gone, busy) PROVE Kept(gone, busy)'
  <2>1. KeptOn(disk, gone, busy)
    BY <1>4, KeptIs
  <2>2. KeptOn(disk', gone, busy)
    BY <1>1, <2>1
  <2> QED BY <1>1, <2>2, KeptIs
<1>5. ASSUME NEW gone, Unopened(gone) PROVE Unopened(gone)'
  BY <1>1, <1>5 DEF Unopened
<1>6. Rests => Rests'
  <2>1. Tree(disk') = Tree(disk)
    BY <1>1
  <2>2. ASSUME Rests PROVE Rests'
    <3>1. Idle' /\ asked' = Promised!NoCall
      BY <1>1, <2>2 DEF Rests, Idle
    <3>2. settled' = [tree |-> Tree(disk'), fds |-> fd_table', code |-> ret'.code]
      BY <1>1, <2>2 DEF Rests
    <3> QED BY <3>1, <3>2 DEF Rests, Tree, Inodes, DirOf, Node, ByteAt
  <2> QED BY <2>2
<1>7. Erases => Erases'
  BY <1>1 DEF Erases, Formatting, Promised!FormatRequest
<1>8. ASSUME NEW w, LooksFor(w) PROVE LooksFor(w)'
  BY <1>1, <1>4, <1>5, <1>8 DEF LooksFor, Untouched, Promised!PathRequest
<1>9. ASSUME NEW path PROVE Promised!Dirs(path)' = Promised!Dirs(path)
  BY <1>1, AsBefore
<1>10. ASSUME NEW c, Makes(c) PROVE Makes(c)'
  <2>1. ASSUME NEW path, NEW k, NEW n, Leads(disk, path, k, n)
        PROVE  Leads(disk, path, k, n)'
    BY <1>1, <2>1, LeadsStill
  <2>2. ASSUME NEW code, NEW b, Opened(code, b) PROVE Opened(code, b)'
    BY <1>1, <2>2 DEF Opened
  <2>3. (c.dir \in Promised!Dirs(Promised!Above(asked.path)))' <=>
          c.dir \in Promised!Dirs(Promised!Above(asked.path))
    BY <1>1 DEF Promised!Dirs, Promised!At, Promised!Way, Promised!IsDir, Promised!Nodes
  <2> QED BY <1>1, <1>4, <1>5, <1>10, <2>1, <2>2, <2>3
          DEF Makes, Promised!Readable, Promised!Last, Promised!PathRequest, KindOf
<1>11. ASSUME NEW g, NEW n, Fills(g, n) PROVE Fills(g, n)'
  <2>1. Kept({}, {n})' /\ Unopened({})'
    BY <1>4, <1>5, <1>11 DEF Fills
  <2>2. DirOf(disk', n) = DirOf(disk, n) /\ Inodes(disk') = Inodes(disk)
    BY <1>1
  <2> QED BY <1>1, <1>11, <2>1, <2>2 DEF Fills, Promised!WriteRequest, Inodes, DirOf
<1>12. ASSUME NEW gone, NEW d, Clears(gone, d) PROVE Clears(gone, d)'
  <2>1. Kept(gone, Leaving(todo))' /\ Unopened(gone)'
    <3>1. PICK busy : busy = Leaving(todo)
      OBVIOUS
    <3>2. Kept(gone, busy) /\ Unopened(gone) /\ Leaving(todo') = busy
      BY <1>1, <1>12, <3>1 DEF Clears
    <3>3. Kept(gone, busy)' /\ Unopened(gone)'
      BY <1>4, <1>5, <3>2
    <3> QED BY <3>2, <3>3 DEF Leaving, WorkOf, Unlinks
  <2>2. /\ Promised!Below(d)' = Promised!Below(d)
        /\ \A x : Within(x, d)' <=> Within(x, d)
        /\ \A x : Aim(x, d)' <=> Aim(x, d)
    BY <1>1, AsBefore
  <2>3. PICK h : h = Head(todo)
    OBVIOUS
  <2>4. Finds(h, d) => Finds(h, d)'
    BY <1>1, FindsStill
  <2>5. /\ gone \subseteq Promised!Below(d) \ {0}
        /\ gone # {} => asked.op = "removeAll"
        /\ \A x \in WorkOf(todo) : Within(x, d)
        /\ h.op = "walk" => Finds(h, d)
        /\ Aim(EndOf(todo), d)
    BY <1>12, <2>3 DEF Clears, EndOf
  <2>6. PICK z : z = EndOf(todo)
    OBVIOUS
  <2>7. Aim(z, d)'
    BY <2>2, <2>5, <2>6
  <2>8. (h.op = "walk" => Finds(h, d))'
    BY <1>1, <2>3, <2>4, <2>5
  <2>9. \A x \in WorkOf(todo') : Within(x, d)'
    BY <1>1, <2>2, <2>5
  <2>10. h = Head(todo') /\ z = EndOf(todo')
    BY <1>1, <2>3, <2>6
  <2> QED BY <1>1, <2>1, <2>2, <2>5, <2>7, <2>8, <2>9, <2>10 DEF Clears, EndOf, WorkOf
<1>13. Runs => Runs'
  BY <1>1, <1>8, <1>10, <1>11, <1>12 DEF Runs
<1>14. Story'
  BY <1>2, <1>3, <1>6, <1>7, <1>13 DEF Story, DirsReadable, Bytes
<1>15. UNCHANGED Promised!fsVars
  BY <1>1 DEF Promised!fsVars
<1> QED BY <1>14, <1>15 DEF Good

(* At every write of every call of such a program, the disk is the tree    *)
(* there was when the call began, but for what the call removed, makes or  *)
(* writes, and what is left of the call completes just that.               *)
THEOREM StoryAlways == ASSUME Careful PROVE ClientSpec => []Story
<1>1. ClientInit => Story
  BY StoryInit
<1>2. Inv /\ Ownership /\ Inv' /\ Story /\ [ClientNext]_cvars => Story'
  <2> SUFFICES ASSUME Inv, Ownership, Inv', Story, [ClientNext]_cvars PROVE Story'
    OBVIOUS
  <2>1. TypeOK'
    BY DEF Inv
  <2>2. CASE ClientNext
    BY <2>1, <2>2, StoryNext DEF Good
  <2>3. CASE UNCHANGED cvars
    BY <2>3, StoryStutter DEF Good
  <2> QED BY <2>2, <2>3
<1> QED BY <1>1, <1>2, OwnAlways, PTL DEF ClientSpec

(* Of a program that opens files only, shrinks none, writes what there is  *)
(* room for, formats no mounted disk and does not die: TinyFS, seen        *)
(* between the start and the return of a call, is the file system          *)
(* libTinyFS.h promises, of any size.                                      *)
THEOREM TinyFSIsAFileSystem == ASSUME Careful PROVE ClientSpec => ImplementsFileSystem
<1>1. ClientInit => Promised!FSInit
  BY StoryInit
<1>2. Inv /\ Ownership /\ Inv' /\ Story /\ [ClientNext]_cvars =>
        [Promised!FSNext]_(Promised!fsVars)
  <2> SUFFICES ASSUME Inv, Ownership, Inv', Story, [ClientNext]_cvars
               PROVE  [Promised!FSNext]_(Promised!fsVars)
    OBVIOUS
  <2>1. TypeOK'
    BY DEF Inv
  <2>2. CASE ClientNext
    BY <2>1, <2>2, StoryNext DEF Good
  <2>3. CASE UNCHANGED cvars
    BY <2>3, StoryStutter DEF Good
  <2> QED BY <2>2, <2>3
<1>3. ClientSpec => Promised!FSInit /\ [][Promised!FSNext]_(Promised!fsVars)
  BY <1>1, <1>2, OwnAlways, StoryAlways, PTL DEF ClientSpec
<1> QED BY <1>3 DEF ImplementsFileSystem, Promised!FSSpec

---------------------------------------------------------------------------
(* Everything in the tree is below the root, and a descriptor is of a file *)
(* in it.                                                                  *)

Rooted ==
  \A S \in SUBSET Addr :
    /\ 0 \in S
    /\ \A n \in DOMAIN settled.tree : settled.tree[n].dir \in S => n \in S
    => DOMAIN settled.tree \subseteq S

Healthy ==
  /\ DOMAIN settled.tree \subseteq Addr \ {0}
  /\ ~ mounted => \A fd \in FDs : settled.fds[fd] = 0
  /\ \A fd \in FDs :
       settled.fds[fd] # 0 =>
         /\ settled.fds[fd] \in DOMAIN settled.tree
         /\ settled.tree[settled.fds[fd]].kind = "file"
  /\ \A n \in DOMAIN settled.tree : Promised!IsDir(settled.tree[n].dir)
  /\ Rooted

FromTable == asked.op \in {"deleteFile", "writeFile"} => asked.fd \in FDs

LEMMA HealthySame ==
  ASSUME Healthy, settled'.tree = settled.tree,
         \A fd \in FDs :
           \/ settled'.fds[fd] \in {0, settled.fds[fd]}
           \/ /\ settled'.fds[fd] \in DOMAIN settled.tree
              /\ settled.tree[settled'.fds[fd]].kind = "file",
         ~ mounted' => \A fd \in FDs : settled'.fds[fd] = 0
  PROVE  Healthy'
<1>1. /\ DOMAIN settled.tree \subseteq Addr \ {0}
      /\ \A fd \in FDs :
           settled.fds[fd] # 0 =>
             /\ settled.fds[fd] \in DOMAIN settled.tree
             /\ settled.tree[settled.fds[fd]].kind = "file"
      /\ \A n \in DOMAIN settled.tree : Promised!IsDir(settled.tree[n].dir)
      /\ Rooted
  BY DEF Healthy
<1>2. (\A m \in DOMAIN settled.tree : Promised!IsDir(settled.tree[m].dir))'
  BY <1>1 DEF Promised!IsDir
<1>3. Rooted'
  BY <1>1 DEF Rooted
<1>4. \A fd \in FDs :
        settled'.fds[fd] # 0 =>
          /\ settled'.fds[fd] \in DOMAIN settled'.tree
          /\ settled'.tree[settled'.fds[fd]].kind = "file"
  BY <1>1
<1> QED BY <1>1, <1>2, <1>3, <1>4 DEF Healthy

LEMMA HealthyChange ==
  ASSUME Healthy, NEW h, NEW node, h \in DOMAIN settled.tree,
         node.kind = settled.tree[h].kind, node.dir = settled.tree[h].dir,
         settled'.tree = [settled.tree EXCEPT ![h] = node],
         settled'.fds = settled.fds, mounted' = mounted
  PROVE  Healthy'
<1> DEFINE t == settled.tree
           u == settled'.tree
<1>1. DOMAIN u = DOMAIN t /\ \A n \in DOMAIN t : u[n].kind = t[n].kind /\ u[n].dir = t[n].dir
  OBVIOUS
<1>2. /\ DOMAIN t \subseteq Addr \ {0}
      /\ ~ mounted => \A fd \in FDs : settled.fds[fd] = 0
      /\ \A fd \in FDs :
           settled.fds[fd] # 0 =>
             settled.fds[fd] \in DOMAIN t /\ t[settled.fds[fd]].kind = "file"
      /\ \A n \in DOMAIN t : Promised!IsDir(t[n].dir)
      /\ Rooted
  BY DEF Healthy
<1>3. \A x : Promised!IsDir(x) => Promised!IsDir(x)'
  BY <1>1 DEF Promised!IsDir
<1>4. (\A m \in DOMAIN settled.tree : Promised!IsDir(settled.tree[m].dir))'
  <2>1. \A x : Promised!IsDir(x)' <=> x = 0 \/ (x \in DOMAIN u /\ u[x].kind = "dir")
    BY DEF Promised!IsDir, SUPERBLOCK_DISKLOC
  <2>2. \A x : Promised!IsDir(x) <=> x = 0 \/ (x \in DOMAIN t /\ t[x].kind = "dir")
    BY DEF Promised!IsDir, SUPERBLOCK_DISKLOC
  <2> HIDE DEF t, u
  <2>3. \A n \in DOMAIN u : u[n].dir = 0 \/ (u[n].dir \in DOMAIN u /\ u[u[n].dir].kind = "dir")
    BY <1>1, <1>2, <2>2
  <2> QED BY <2>3 DEF Promised!IsDir, SUPERBLOCK_DISKLOC, u
<1>5. Rooted'
  <2>1. SUFFICES ASSUME NEW S \in SUBSET Addr, 0 \in S,
                        \A n \in DOMAIN u : u[n].dir \in S => n \in S
                 PROVE  DOMAIN u \subseteq S
    BY DEF Rooted
  <2>2. \A n \in DOMAIN t : t[n].dir \in S => n \in S
    BY <1>1, <2>1
  <2> QED BY <1>1, <1>2, <2>1, <2>2 DEF Rooted
<1>6. \A fd \in FDs :
        settled'.fds[fd] # 0 =>
          settled'.fds[fd] \in DOMAIN u /\ u[settled'.fds[fd]].kind = "file"
  BY <1>1, <1>2
<1> QED BY <1>1, <1>2, <1>4, <1>5, <1>6 DEF Healthy

LEMMA HealthyAdd ==
  ASSUME Healthy, NEW n \in Addr \ {0}, n \notin DOMAIN settled.tree, NEW node,
         Promised!IsDir(node.dir),
         settled'.tree = [m \in DOMAIN settled.tree \cup {n} |->
                            IF m = n THEN node ELSE settled.tree[m]],
         mounted',
         \A fd \in FDs : \/ settled'.fds[fd] = settled.fds[fd]
                         \/ settled'.fds[fd] = n /\ node.kind = "file"
  PROVE  Healthy'
<1> DEFINE t == settled.tree
           u == settled'.tree
<1>1. /\ DOMAIN u = DOMAIN t \cup {n} /\ u[n] = node
      /\ \A m \in DOMAIN t : u[m] = t[m]
  OBVIOUS
<1>2. /\ DOMAIN t \subseteq Addr \ {0}
      /\ \A fd \in FDs :
           settled.fds[fd] # 0 =>
             settled.fds[fd] \in DOMAIN t /\ t[settled.fds[fd]].kind = "file"
      /\ \A m \in DOMAIN t : t[m].dir = 0 \/ (t[m].dir \in DOMAIN t /\ t[t[m].dir].kind = "dir")
      /\ Rooted
      /\ node.dir = 0 \/ (node.dir \in DOMAIN t /\ t[node.dir].kind = "dir")
  BY DEF Healthy, Promised!IsDir, SUPERBLOCK_DISKLOC
<1> HIDE DEF t, u
<1>3. \A m \in DOMAIN u : u[m].dir = 0 \/ (u[m].dir \in DOMAIN u /\ u[u[m].dir].kind = "dir")
  BY <1>1, <1>2
<1>4. (\A m \in DOMAIN settled.tree : Promised!IsDir(settled.tree[m].dir))'
  BY <1>3 DEF Promised!IsDir, SUPERBLOCK_DISKLOC, u
<1>5. Rooted'
  <2>1. SUFFICES ASSUME NEW S \in SUBSET Addr, 0 \in S,
                        \A m \in DOMAIN u : u[m].dir \in S => m \in S
                 PROVE  DOMAIN u \subseteq S
    BY DEF Rooted, u
  <2>2. \A m \in DOMAIN t : t[m].dir \in S => m \in S
    BY <1>1, <2>1
  <2>3. DOMAIN t \subseteq S
    BY <1>2, <2>1, <2>2 DEF Rooted, t
  <2>4. n \in S
    BY <1>1, <1>2, <2>1, <2>3
  <2> QED BY <1>1, <2>3, <2>4
<1>6. \A fd \in FDs :
        settled'.fds[fd] # 0 =>
          settled'.fds[fd] \in DOMAIN u /\ u[settled'.fds[fd]].kind = "file"
  BY <1>1, <1>2
<1>7. DOMAIN u \subseteq Addr \ {0}
  BY <1>1, <1>2
<1> QED BY <1>4, <1>5, <1>6, <1>7 DEF Healthy, u

LEMMA HealthyWithout ==
  ASSUME Healthy, NEW gone, 0 \notin gone,
         \A n \in DOMAIN settled.tree : settled.tree[n].dir \in gone => n \in gone,
         settled'.tree = [n \in DOMAIN settled.tree \ gone |-> settled.tree[n]],
         \A fd \in FDs : settled'.fds[fd] = IF settled.fds[fd] \in gone THEN 0
                                            ELSE settled.fds[fd],
         mounted' = mounted
  PROVE  Healthy'
<1> DEFINE t == settled.tree
           u == settled'.tree
<1>1. DOMAIN u = DOMAIN t \ gone /\ \A m \in DOMAIN u : u[m] = t[m]
  OBVIOUS
<1>2. /\ DOMAIN t \subseteq Addr \ {0}
      /\ ~ mounted => \A fd \in FDs : settled.fds[fd] = 0
      /\ \A fd \in FDs :
           settled.fds[fd] # 0 =>
             settled.fds[fd] \in DOMAIN t /\ t[settled.fds[fd]].kind = "file"
      /\ \A m \in DOMAIN t : t[m].dir = 0 \/ (t[m].dir \in DOMAIN t /\ t[t[m].dir].kind = "dir")
      /\ Rooted
      /\ \A m \in DOMAIN t : t[m].dir \in gone => m \in gone
  BY DEF Healthy, Promised!IsDir, SUPERBLOCK_DISKLOC
<1> HIDE DEF t, u
<1>3. \A m \in DOMAIN u : u[m].dir = 0 \/ (u[m].dir \in DOMAIN u /\ u[u[m].dir].kind = "dir")
  BY <1>1, <1>2
<1>4. (\A m \in DOMAIN settled.tree : Promised!IsDir(settled.tree[m].dir))'
  BY <1>3 DEF Promised!IsDir, SUPERBLOCK_DISKLOC, u
<1>5. Rooted'
  <2>1. SUFFICES ASSUME NEW S \in SUBSET Addr, 0 \in S,
                        \A m \in DOMAIN u : u[m].dir \in S => m \in S
                 PROVE  DOMAIN u \subseteq S
    BY DEF Rooted, u
  <2> DEFINE R == S \cup (gone \cap DOMAIN t)
  <2>2. R \in SUBSET Addr /\ 0 \in R
    BY <1>2, <2>1
  <2>3. \A m \in DOMAIN t : t[m].dir \in R => m \in R
    BY <1>1, <1>2, <2>1
  <2>4. DOMAIN t \subseteq R
    <3> HIDE DEF R
    <3> QED BY <1>2, <2>2, <2>3 DEF Rooted, t
  <2> QED BY <1>1, <2>4
<1>6. \A fd \in FDs :
        settled'.fds[fd] # 0 =>
          settled'.fds[fd] \in DOMAIN u /\ u[settled'.fds[fd]].kind = "file"
  BY <1>1, <1>2
<1>7. DOMAIN u \subseteq Addr \ {0}
  BY <1>1, <1>2
<1>8. ~ mounted' => \A fd \in FDs : settled'.fds[fd] = 0
  BY <1>2
<1> QED BY <1>4, <1>5, <1>6, <1>7, <1>8 DEF Healthy, u

LEMMA HealthyAnswer ==
  ASSUME Readout, Healthy, FromTable, Promised!Answer
  PROVE  Healthy'
<1> USE DEF SUPERBLOCK_DISKLOC
<1>1. /\ DOMAIN settled.tree \subseteq Addr \ {0}
      /\ \A fd \in FDs :
           settled.fds[fd] # 0 =>
             /\ settled.fds[fd] \in DOMAIN settled.tree
             /\ settled.tree[settled.fds[fd]].kind = "file"
      /\ ~ mounted => \A fd \in FDs : settled.fds[fd] = 0
      /\ \A n \in DOMAIN settled.tree :
           \/ settled.tree[n].dir = 0
           \/ settled.tree[n].dir \in DOMAIN settled.tree
              /\ settled.tree[settled.tree[n].dir].kind = "dir"
  BY DEF Healthy, Promised!IsDir
<1>2. CASE Promised!Refuse
  BY <1>1, <1>2, HealthySame DEF Promised!Refuse
<1>3. CASE Promised!Detach
  BY <1>1, <1>3, HealthySame DEF Promised!Detach, Promised!NoHandles
<1>4. CASE Promised!Clear
  <2>1. settled'.tree = Promised!NoTree /\ ~ mounted /\ settled'.fds = settled.fds
        /\ mounted' = mounted
    BY <1>4 DEF Promised!Clear, Promised!Succeeds
  <2>2. DOMAIN settled'.tree = {}
    BY <2>1 DEF Promised!NoTree
  <2>3. Rooted'
    BY <2>2 DEF Rooted
  <2> QED BY <1>1, <2>1, <2>2, <2>3 DEF Healthy
<1>5. ASSUME NEW fd \in FDs, NEW n \in Promised!Files(asked.path), Promised!Open(fd, n)
      PROVE  Healthy'
  <2>1. n \in DOMAIN settled.tree
    BY <1>5 DEF Promised!Files, Promised!At, Promised!Nodes, Promised!IsDir
  <2>2. /\ mounted /\ settled.tree[n].kind = "file" /\ settled'.tree = settled.tree
        /\ settled'.fds = [settled.fds EXCEPT ![fd] = n] /\ mounted' = mounted
    BY <1>5 DEF Promised!Open, Promised!Opened
  <2>3. \A g \in FDs : settled'.fds[g] \in {n, settled.fds[g]}
    BY <2>2 DEF Readout
  <2> QED BY <2>1, <2>2, <2>3, HealthySame
<1>6. ASSUME NEW n \in (Addr \ {0}) \ DOMAIN settled.tree, NEW kind, NEW name, NEW dir,
             Promised!Add(n, kind, name, dir), mounted' = mounted,
             \A fd \in FDs : \/ settled'.fds[fd] = settled.fds[fd]
                             \/ settled'.fds[fd] = n /\ kind = "file"
      PROVE  Healthy'
  <2> DEFINE node == Promised!NewNode(kind, name, dir)
  <2>1. /\ mounted /\ Promised!IsDir(dir)
        /\ settled'.tree = [m \in DOMAIN settled.tree \cup {n} |->
                              IF m = n THEN node ELSE settled.tree[m]]
    BY <1>6 DEF Promised!Add
  <2>2. node.kind = kind /\ node.dir = dir
    BY DEF Promised!NewNode
  <2> HIDE DEF node
  <2> QED BY <1>6, <2>1, <2>2, HealthyAdd
<1>7. ASSUME NEW fd \in FDs, NEW n \in (Addr \ {0}) \ DOMAIN settled.tree, NEW name, NEW dir,
             Promised!OpenNew(fd, n, name, dir)
      PROVE  Healthy'
  <2>1. /\ Promised!Add(n, "file", name, dir) /\ mounted' = mounted
        /\ settled'.fds = [settled.fds EXCEPT ![fd] = n]
    BY <1>7 DEF Promised!OpenNew, Promised!Opened
  <2>2. \A g \in FDs : settled'.fds[g] \in {n, settled.fds[g]}
    BY <2>1 DEF Readout
  <2> QED BY <1>6, <2>1, <2>2
<1>8. ASSUME NEW n \in (Addr \ {0}) \ DOMAIN settled.tree, NEW name, NEW dir,
             Promised!MakeDir(n, name, dir)
      PROVE  Healthy'
  BY <1>6, <1>8 DEF Promised!MakeDir, Promised!Succeeds
<1>9. ASSUME NEW gone, 0 \notin gone, Promised!Without(gone),
             \A n \in DOMAIN settled.tree : settled.tree[n].dir \in gone => n \in gone
      PROVE  Healthy'
  BY <1>9, HealthyWithout DEF Promised!Without, Promised!Succeeds
<1>10. ASSUME NEW d, Promised!RemoveEmptyDir(d), NEW path, d \in Promised!Dirs(path)
       PROVE  Healthy'
  <2>1. Promised!Children(d) = {} /\ Promised!Without({d})
    BY <1>10 DEF Promised!RemoveEmptyDir
  <2>2. \A n \in DOMAIN settled.tree : settled.tree[n].dir # d
    BY <2>1 DEF Promised!Children
  <2>3. CASE d # 0
    BY <1>9, <2>1, <2>2, <2>3
  <2>4. CASE d = 0
    <3>1. DOMAIN settled.tree = {}
      <4>1. {0} \in SUBSET Addr
        BY Results
      <4>2. DOMAIN settled.tree \subseteq {0}
        BY <2>2, <2>4, <4>1 DEF Healthy, Rooted
      <4> QED BY <1>1, <4>2
    <3>2. Promised!Without({})
      BY <1>1, <2>1, <2>4, <3>1 DEF Promised!Without, Readout
    <3> QED BY <1>9, <3>2
  <2> QED BY <2>3, <2>4
<1>11. ASSUME NEW d, Promised!RemoveTree(d) PROVE Healthy'
  <2> DEFINE gone == Promised!Below(d) \ {0}
  <2>1. Promised!Without(gone)
    BY <1>11 DEF Promised!RemoveTree
  <2>2. ASSUME NEW n \in DOMAIN settled.tree, settled.tree[n].dir \in gone
        PROVE  n \in gone
    BY <1>1, <2>2 DEF Promised!Below, Promised!Nodes
  <2> HIDE DEF gone
  <2>3. 0 \notin gone
    BY DEF gone
  <2> QED BY <1>9, <2>1, <2>2, <2>3
<1>12. ASSUME NEW fd \in FDs, Promised!Delete(fd) PROVE Healthy'
  <2> DEFINE h == settled.fds[fd]
  <2>1. h # 0 /\ Promised!Without({h})
    BY <1>12 DEF Promised!Delete, Promised!OnFile
  <2>2. settled.tree[h].kind = "file"
    BY <1>1, <2>1
  <2> HIDE DEF h
  <2>3. \A n \in DOMAIN settled.tree : settled.tree[n].dir # h
    BY <1>1, <2>1, <2>2
  <2> QED BY <1>9, <2>1, <2>3
<1>13. ASSUME NEW fd \in FDs, NEW tag, NEW size, Promised!Write(fd, tag, size) PROVE Healthy'
  <2> DEFINE h == settled.fds[fd]
             node == [settled.tree[h] EXCEPT !.bytes = Promised!Written(tag, size), !.off = 0]
  <2>1. /\ h # 0 /\ settled'.tree = [settled.tree EXCEPT ![h] = node]
        /\ settled'.fds = settled.fds /\ mounted' = mounted
    BY <1>13 DEF Promised!Write, Promised!Change, Promised!OnFile, Promised!File,
                 Promised!Succeeds
  <2>2. h \in DOMAIN settled.tree
    BY <1>1, <2>1
  <2>3. node.kind = settled.tree[h].kind /\ node.dir = settled.tree[h].dir
    BY <2>2 DEF Readout
  <2> HIDE DEF node, h
  <2> QED BY <2>1, <2>2, <2>3, HealthyChange
<1> DEFINE Unused == (Addr \ {0}) \ DOMAIN settled.tree
<1>14. \/ Promised!Refuse \/ Promised!Detach \/ Promised!Clear
       \/ \E fd \in FDs : \E n \in Promised!Files(asked.path) : Promised!Open(fd, n)
       \/ \E fd \in FDs : \E n \in Unused : \E dir : \E name : Promised!OpenNew(fd, n, name, dir)
       \/ \E n \in Unused : \E dir : \E name : Promised!MakeDir(n, name, dir)
       \/ \E d \in Promised!Dirs(asked.path) : Promised!RemoveEmptyDir(d) \/ Promised!RemoveTree(d)
       \/ asked.fd \in FDs /\ Promised!Delete(asked.fd)
       \/ asked.fd \in FDs /\ Promised!Write(asked.fd, asked.tag, asked.size)
  <2> DEFINE Unsettled == (Addr \ {SUPERBLOCK_DISKLOC}) \ DOMAIN settled.tree
  <2>1. Unused = Unsettled
    OBVIOUS
  <2> HIDE DEF Unused
  <2> QED BY <2>1, ZenonT(40) DEF Promised!Answer, FromTable
<1> QED BY <1>2, <1>3, <1>4, <1>5, <1>7, <1>8, <1>10, <1>11, <1>12, <1>13, <1>14

LEMMA HealthyNext ==
  ASSUME Readout, Healthy, FromTable, [Promised!FSNext]_(Promised!fsVars)
  PROVE  Healthy' /\ FromTable'
<1> USE DEF SUPERBLOCK_DISKLOC
<1>1. /\ \A fd \in FDs :
           settled.fds[fd] # 0 => settled.fds[fd] \in DOMAIN settled.tree
      /\ ~ mounted => \A fd \in FDs : settled.fds[fd] = 0
  BY DEF Healthy
<1>2. ASSUME Promised!Ask PROVE Healthy'
  BY <1>1, <1>2, HealthySame DEF Promised!Ask, Promised!state
<1>3. ASSUME Promised!Answer PROVE Healthy'
  BY <1>3, HealthyAnswer
<1>4. ASSUME Promised!Refuse \/ Promised!Attach \/ Promised!Detach PROVE Healthy'
  BY <1>1, <1>4, HealthySame
     DEF Promised!Refuse, Promised!Attach, Promised!Detach, Promised!NoHandles
<1>5. ASSUME NEW fd \in FDs, Promised!Close(fd) PROVE Healthy'
  <2>1. /\ settled'.fds = [settled.fds EXCEPT ![fd] = 0]
        /\ settled'.tree = settled.tree /\ mounted' = mounted
    BY <1>5 DEF Promised!Close, Promised!Succeeds
  <2>2. \A g \in FDs : settled'.fds[g] \in {0, settled.fds[g]}
    BY <2>1 DEF Readout
  <2>3. ~ mounted' => \A g \in FDs : settled'.fds[g] = 0
    BY <1>1, <2>1, <2>2
  <2> QED BY <2>1, <2>2, <2>3, HealthySame
<1>6. ASSUME NEW fd \in FDs, NEW node, Promised!Change(fd, node),
             node.kind = Promised!File(fd).kind, node.dir = Promised!File(fd).dir
      PROVE  Healthy'
  <2> DEFINE h == settled.fds[fd]
  <2>1. /\ h # 0 /\ settled'.tree = [settled.tree EXCEPT ![h] = node]
        /\ settled'.fds = settled.fds /\ mounted' = mounted
    BY <1>6 DEF Promised!Change, Promised!OnFile, Promised!Succeeds
  <2>2. h \in DOMAIN settled.tree
    BY <1>1, <2>1
  <2>3. node.kind = settled.tree[h].kind /\ node.dir = settled.tree[h].dir
    BY <1>6 DEF Promised!File
  <2> HIDE DEF h
  <2> QED BY <2>1, <2>2, <2>3, HealthyChange
<1>7. ASSUME NEW fd \in FDs, Promised!OnFile(fd), NEW v
      PROVE  LET file == Promised!File(fd)
             IN  /\ [file EXCEPT !.off = v].kind = file.kind
                 /\ [file EXCEPT !.off = v].dir = file.dir
                 /\ [file EXCEPT !.name = v].kind = file.kind
                 /\ [file EXCEPT !.name = v].dir = file.dir
  <2>1. settled.fds[fd] \in DOMAIN settled.tree
    BY <1>1, <1>7 DEF Promised!OnFile
  <2> QED BY <2>1 DEF Promised!File, Readout
<1>8. ASSUME NEW fd \in FDs, NEW offset, Promised!MoveTo(fd, offset) PROVE Healthy'
  <2>1. Promised!OnFile(fd)
    BY <1>8 DEF Promised!MoveTo, Promised!Change
  <2> QED BY <1>6, <1>7, <1>8, <2>1 DEF Promised!MoveTo
<1>9. ASSUME NEW fd \in FDs, NEW name, Promised!SetName(fd, name) PROVE Healthy'
  <2>1. Promised!OnFile(fd)
    BY <1>9 DEF Promised!SetName, Promised!Change
  <2> QED BY <1>6, <1>7, <1>9, <2>1 DEF Promised!SetName
<1>10. ASSUME Promised!AtOnce PROVE Healthy'
  BY <1>4, <1>5, <1>8, <1>9, <1>10 DEF Promised!AtOnce
<1>11. ASSUME UNCHANGED Promised!fsVars PROVE Healthy'
  BY <1>1, <1>11, HealthySame DEF Promised!fsVars
<1>12. ASSUME asked' \in Promised!Requests \/ asked' \in {asked, Promised!NoCall}
       PROVE  FromTable'
  <2>1. CASE asked' \in Promised!Requests
    BY <2>1 DEF FromTable, Promised!Requests, Promised!FormatRequest, Promised!PathRequest,
                Promised!DeleteRequest, Promised!WriteRequest
  <2>2. CASE asked' \in {asked, Promised!NoCall}
    BY <2>2 DEF FromTable, Promised!NoCall
  <2> QED BY <1>12, <2>1, <2>2
<1>13. FromTable'
  BY <1>11, <1>12 DEF Promised!FSNext, Promised!Ask, Promised!Answer, Promised!AtOnce,
                      Promised!fsVars
<1>14. Healthy'
  BY <1>2, <1>3, <1>10, <1>11 DEF Promised!FSNext
<1> QED BY <1>13, <1>14

LEMMA HealthyInit == ASSUME Promised!FSInit PROVE Healthy /\ FromTable
<1>1. DOMAIN settled.tree = {}
  BY DEF Promised!FSInit, Promised!NoTree
<1>2. \A fd \in FDs : settled.fds[fd] = 0
  BY DEF Promised!FSInit, Promised!NoHandles, SUPERBLOCK_DISKLOC
<1>3. FromTable
  BY DEF Promised!FSInit, Promised!NoCall, FromTable
<1> QED BY <1>1, <1>2, <1>3 DEF Healthy, Rooted

---------------------------------------------------------------------------
(* What the mount check wants of a block alone, at any point of a call.    *)

Plain(blk) ==
  /\ blk.type \in {"INODE", "FILEEX"} => blk.next = 0
  /\ blk.type = "INODE" => blk.name # NoName

Busy(b) == asked.op = "writeFile" /\ b = settled.fds[asked.fd]

(* Only the file that is being written has another size than its blocks.   *)
Legible ==
  /\ \A b \in Addr : Plain(disk[b])
  /\ \A b \in Addr : disk[b].kind = "file" => SizeMatches(disk[b]) \/ Busy(b)
  /\ asked.op = "writeFile" =>
       CheckedSize(asked.size) = asked.size /\ EndOf(todo).inode.next = 0

(* A block that is as legible as it was. *)
Follows(old, new) ==
  /\ Plain(old) => Plain(new)
  /\ new.kind = "file" =>
       SizeMatches(new)
         \/ (old.kind = "file" /\ new.size = old.size /\ new.ptr = old.ptr)

AllFollow == \A b \in Addr : Follows(disk[b], disk'[b])

LEMMA SizeAsBefore ==
  ASSUME NEW old, NEW new, new.size = old.size, new.ptr = old.ptr, SizeMatches(old)
  PROVE  SizeMatches(new)
  BY DEF SizeMatches

LEMMA LegibleGoes ==
  ASSUME Legible, settled' = settled, asked' = asked,
         \A b \in Addr : Follows(disk[b], disk'[b]) \/ (Busy(b) /\ Plain(disk'[b])),
         asked.op = "writeFile" => EndOf(todo').inode.next = 0
  PROVE  Legible'
<1>1. ASSUME NEW b \in Addr PROVE Plain(disk'[b])
  BY DEF Legible, Follows
<1>2. ASSUME NEW b \in Addr, disk'[b].kind = "file"
      PROVE  SizeMatches(disk'[b]) \/ Busy(b)
  BY <1>2, SizeAsBefore DEF Legible, Follows
<1>3. \A b : Busy(b)' <=> Busy(b)
  BY DEF Busy
<1>4. (asked.op = "writeFile" => CheckedSize(asked.size) = asked.size
                                 /\ EndOf(todo).inode.next = 0)'
  BY DEF Legible, EndOf
<1> QED BY <1>1, <1>2, <1>3, <1>4 DEF Legible, Plain, SizeMatches

LEMMA LegibleEnds ==
  ASSUME Legible, asked'.op # "writeFile", AllFollow,
         \A b \in Addr : Busy(b) /\ disk'[b].kind = "file" => SizeMatches(disk'[b])
  PROVE  Legible'
<1>1. ASSUME NEW b \in Addr PROVE Plain(disk'[b])
  BY DEF Legible, AllFollow, Follows
<1>2. ASSUME NEW b \in Addr, disk'[b].kind = "file" PROVE SizeMatches(disk'[b])
  BY <1>2, SizeAsBefore DEF Legible, AllFollow, Follows
<1> QED BY <1>1, <1>2 DEF Legible, Plain, SizeMatches

LEMMA FollowsSame == ASSUME disk' = disk PROVE AllFollow
  BY SizeAsBefore DEF AllFollow, Follows

LEMMA FollowsOne ==
  ASSUME disk \in Disks, NEW n, NEW blk, disk' = [disk EXCEPT ![n] = blk],
         n \in Addr => Follows(disk[n], blk)
  PROVE  AllFollow
<1>1. ASSUME NEW b \in Addr, b # n PROVE Follows(disk[b], disk'[b])
  <2>1. disk'[b] = disk[b]
    BY <1>1 DEF Disks
  <2> QED BY <2>1 DEF Follows
<1>2. ASSUME n \in Addr PROVE Follows(disk[n], disk'[n])
  <2>1. disk'[n] = blk
    BY <1>2 DEF Disks
  <2> QED BY <1>2, <2>1
<1> QED BY <1>1, <1>2 DEF AllFollow

(* The writes that change one field of a block. *)
LEMMA FollowsField ==
  ASSUME disk \in Disks, NEW n, NEW v, NEW i,
         \/ n = 0 /\ disk[0].type \in {"SUPERBLOCK", "ZERO"} /\ disk[0].kind = "none"
            /\ disk' = [disk EXCEPT ![n].next = v]
         \/ disk' = [disk EXCEPT ![n].off = v]
         \/ v # NoName /\ disk' = [disk EXCEPT ![n].name = v]
         \/ (n \in Addr => disk[n].kind # "file")
            /\ (disk' = [disk EXCEPT ![n].ptr = v] \/ disk' = [disk EXCEPT ![n].ptr[i] = v])
  PROVE  AllFollow
<1>1. PICK old : old = disk[n]
  OBVIOUS
<1>2. PICK blk : /\ disk' = [disk EXCEPT ![n] = blk]
                 /\ \/ n = 0 /\ disk[0].type \in {"SUPERBLOCK", "ZERO"}
                       /\ disk[0].kind = "none" /\ blk = [disk[n] EXCEPT !.next = v]
                    \/ blk = [disk[n] EXCEPT !.off = v]
                    \/ v # NoName /\ blk = [disk[n] EXCEPT !.name = v]
                    \/ (n \in Addr => disk[n].kind # "file")
                       /\ (blk = [disk[n] EXCEPT !.ptr = v]
                             \/ blk = [disk[n] EXCEPT !.ptr[i] = v])
  OBVIOUS
<1>3. ASSUME n \in Addr PROVE Follows(disk[n], blk)
  <2>1. old \in Sized /\ (n = 0 => disk[0] = old)
    BY <1>1, <1>3 DEF Disks
  <2>2. CASE n = 0 /\ disk[0].type \in {"SUPERBLOCK", "ZERO"}
             /\ disk[0].kind = "none" /\ blk = [disk[n] EXCEPT !.next = v]
    <3>1. blk.type = old.type /\ blk.kind = "none" /\ old.type \in {"SUPERBLOCK", "ZERO"}
      BY <1>1, <2>1, <2>2 DEF Sized, Block
    <3> QED BY <3>1 DEF Follows, Plain
  <2>3. CASE blk = [disk[n] EXCEPT !.off = v] \/ (v # NoName /\ blk = [disk[n] EXCEPT !.name = v])
    <3>1. /\ blk.type = old.type /\ blk.kind = old.kind /\ blk.next = old.next
          /\ blk.size = old.size /\ blk.ptr = old.ptr
          /\ blk.name = old.name \/ blk.name # NoName
      BY <1>1, <2>1, <2>3 DEF Sized, Block
    <3> QED BY <1>1, <3>1 DEF Follows, Plain
  <2>4. CASE disk[n].kind # "file" /\ (blk = [disk[n] EXCEPT !.ptr = v]
                                         \/ blk = [disk[n] EXCEPT !.ptr[i] = v])
    <3>1. /\ blk.type = old.type /\ blk.kind = old.kind /\ blk.next = old.next
          /\ blk.name = old.name
      BY <1>1, <2>1, <2>4 DEF Sized, Block
    <3> QED BY <1>1, <2>4, <3>1 DEF Follows, Plain
  <2> QED BY <1>2, <1>3, <2>2, <2>3, <2>4
<1> QED BY <1>2, <1>3, FollowsOne

LEMMA FollowsNone ==
  ASSUME disk \in Disks, NEW n, NEW blk, disk' = [disk EXCEPT ![n] = blk],
         blk.type \notin {"INODE", "FILEEX"}, blk.kind = "none"
  PROVE  AllFollow
  BY FollowsOne DEF Follows, Plain

LEMMA FollowsFree ==
  ASSUME disk \in Disks, NEW n, NEW m, disk' = [disk EXCEPT ![n] = FreeBlk(m)]
  PROVE  AllFollow
<1>1. FreeBlk(m).type = "FREE" /\ FreeBlk(m).kind = "none"
  BY DEF FreeBlk, Blank
<1> QED BY <1>1, FollowsNone

LEMMA FollowsFormat == ASSUME disk \in Disks, Format PROVE AllFollow
<1>1. PICK n, blk : disk' = [disk EXCEPT ![n] = blk]
                    /\ (blk = FormatSuper \/ \E i : blk = FormatBlk(i))
  BY DEF Format
<1>2. blk.type \in {"FREE", "SUPERBLOCK"} /\ blk.kind = "none"
  BY <1>1 DEF FormatSuper, FormatBlk, FreeBlk, SuperBlk, Blank
<1> QED BY <1>1, <1>2, FollowsNone

LEMMA FollowsInode ==
  ASSUME Story, Ownership, TypeOK, WriteInode PROVE AllFollow
<1>1. PICK op : op = "newInode" /\ Doing(op)
  BY DEF WriteInode
<1>2. PICK list \in Lists, c \in NewSteps :
        c = Head(todo) /\ c.op = op /\ todo = <<c>> /\ Makes(c)
  BY <1>1, WhoMakes
<1>3. PICK path : path = asked.path
  OBVIOUS
<1>4. path \in Seq(Names) /\ path # <<>> /\ c.name = path[Len(path)]
  BY <1>1, <1>2, <1>3, CallsAssumption DEF Makes, Promised!Last
<1>5. c.name # NoName
  <2>1. path[Len(path)] \in Names
    BY <1>4
  <2> QED BY <1>4, <2>1, LayoutAssumption
<1>6. PICK blk : blk = Inode(c.kind, c.name)
  OBVIOUS
<1>7. disk' = [disk EXCEPT ![c.blk] = blk]
  BY <1>2, <1>6 DEF WriteInode
<1>8. /\ blk.type = "INODE" /\ blk.name = c.name /\ blk.next = 0
      /\ \A i \in 1 .. Slots : blk.ptr[i] = 0
  BY <1>6 DEF Inode, Blank
<1>9. SizeMatches(blk)
  <2>1. {i \in 1 .. Slots : blk.ptr[i] # 0} = {}
    BY <1>8
  <2>2. Cardinality({}) = 0
    BY FS_EmptySet
  <2> QED BY <2>1, <2>2 DEF SizeMatches
<1> QED BY <1>5, <1>7, <1>8, <1>9, FollowsOne DEF Follows, Plain, TypeOK, Disks

LEMMA FollowsFill ==
  ASSUME Story, Ownership, TypeOK, FillBlock PROVE AllFollow
<1>1. PICK op : op = "fill" /\ Doing(op)
  BY DEF FillBlock
<1>2. PICK list \in Lists, g \in WriteSteps, n \in Addr :
        WritesTo(g, n) /\ Took(g, n) /\ todo = <<g>> /\ g.op = op /\ Places(g, n, list)
  BY <1>1, WhoFills
<1>3. Head(todo) = g /\ g.blk \in Addr
  BY <1>1, <1>2, WriteFacts
<1>4. disk \in Disks /\ Shaped(disk)
  BY <1>2 DEF Places, Sound, Owns, TypeOK, Disks
<1>5. PICK old \in Sized : old = disk[g.blk]
  BY <1>3, <1>4 DEF Disks
<1>6. old.kind = "none"
  BY <1>1, <1>2, <1>3, <1>4, <1>5 DEF Places, Shaped
<1>7. PICK blk : blk = Filled(old, g.tag, g.at)
  OBVIOUS
<1>8. disk' = [disk EXCEPT ![g.blk] = blk]
  BY <1>3, <1>5, <1>7 DEF FillBlock
<1>9. blk.type = "FILEEX" /\ blk.next = 0 /\ blk.kind = "none"
  BY <1>5, <1>6, <1>7 DEF Filled, Sized, Block
<1> QED BY <1>4, <1>8, <1>9, FollowsOne DEF Follows, Plain

LEMMA FollowsHead ==
  ASSUME disk \in Disks, disk[0].type \in {"SUPERBLOCK", "ZERO"}, disk[0].kind = "none",
         NEW v, disk' = disk \/ disk' = [disk EXCEPT ![0].next = v]
                \/ \E n : disk' = [disk EXCEPT ![n].off = v]
  PROVE  AllFollow
<1>1. CASE disk' = [disk EXCEPT ![0].next = v]
  <2>1. PICK n : n = 0
    OBVIOUS
  <2>2. disk' = [disk EXCEPT ![n].next = v]
    BY <1>1, <2>1
  <2> QED BY <2>1, <2>2, FollowsField
<1>2. CASE \E n : disk' = [disk EXCEPT ![n].off = v]
  BY <1>2, FollowsField
<1> QED BY <1>1, <1>2, FollowsSame

(* A pointer of a directory is set or cleared. *)
LEMMA FollowsEntry ==
  ASSUME Story, Ownership, TypeOK, disk[0].kind = "none",
         LinkInode \/ UnlinkFile \/ UnlinkDirectory
  PROVE  AllFollow
<1>1. PICK s : s = Head(todo)
  OBVIOUS
<1>2. disk' = disk \/ \E i, v : disk' = [disk EXCEPT ![s.dir].ptr = v]
                                \/ disk' = [disk EXCEPT ![s.dir].ptr[i] = v]
  BY <1>1 DEF LinkInode, UnlinkFile, UnlinkDirectory, Die
<1>3. ASSUME InDir(s.dir) PROVE AllFollow
  <2>1. s.dir \in Addr => disk[s.dir].kind # "file"
    BY <1>3 DEF InDir, IsDirOn, SUPERBLOCK_DISKLOC
  <2> QED BY <1>2, <2>1, FollowsSame, FollowsField DEF TypeOK, Disks
<1>4. CASE LinkInode
  <2>1. PICK op : op = "link" /\ Doing(op)
    BY <1>4 DEF LinkInode
  <2>2. InDir(s.dir)
    BY <1>1, <2>1, WhoMakes
  <2> QED BY <1>3, <2>2
<1>5. CASE UnlinkFile
  <2>1. PICK op : op = "unlink" /\ Doing(op)
    BY <1>5 DEF UnlinkFile
  <2>2. PICK list \in Lists, stack \in Stacks : AtRemoveFile(list, stack)
    BY <2>1, Where
  <2>3. PICK n, p \in Addr, k \in 1 .. Slots :
          Removes(n, p, k, stack) /\ FileGone(n, p, k, list, stack)
    BY <2>1, <2>2, WhereFile
  <2>4. s.dir = p
    <3>1. PICK x : x = Unlink(n, p)
      OBVIOUS
    <3>2. s = x
      BY <1>1, <2>3, <3>1, Tops DEF FileGone
    <3> QED BY <3>1, <3>2 DEF Unlink
  <2> QED BY <1>3, <2>3, <2>4 DEF Removes
<1>6. CASE UnlinkDirectory
  <2>1. PICK op : op = "unlinkDir" /\ Doing(op)
    BY <1>6 DEF UnlinkDirectory
  <2>2. PICK list \in Lists, stack \in Stacks : AtRemoveDir(list, stack)
    BY <2>1, Where
  <2>3. PICK n, p \in Addr, k \in 1 .. Slots :
          Removes(n, p, k, stack) /\ DirGone(n, p, k, list, stack)
    BY <2>1, <2>2, WhereDir
  <2>4. s.dir = p
    <3>1. PICK x : x = UnlinkDir(n, p)
      OBVIOUS
    <3>2. s = x
      BY <1>1, <2>3, <3>1, Tops DEF DirGone
    <3> QED BY <3>1, <3>2 DEF UnlinkDir
  <2> QED BY <1>3, <2>3, <2>4 DEF Removes
<1> QED BY <1>4, <1>5, <1>6

LEMMA FollowsRewrite ==
  ASSUME Story, Ownership, TypeOK, disk[0].type \in {"SUPERBLOCK", "ZERO"},
         disk[0].kind = "none", RewriteDir
  PROVE  AllFollow
<1>1. PICK r : r = Head(todo)
  OBVIOUS
<1>2. Doing("rewrite")
  BY DEF RewriteDir
<1>3. PICK list \in Lists : /\ r \in ScanSteps /\ WaitsFor(disk, r, list)
                            /\ disk[r.dir].ptr[r.at] = 0
  BY <1>1, <1>2, WhoRewrites
<1>4. disk' = Rewritten(disk, r)
  BY <1>1 DEF RewriteDir, Rewritten, CopyOf
<1>5. disk' = disk \/ disk' = WithHead(disk, r.copy.next)
  BY <1>3, <1>4, CopyIs
<1>6. PICK v : v = r.copy.next
  OBVIOUS
<1> QED BY <1>5, <1>6, FollowsHead DEF WithHead, TypeOK, Disks

(* Every write but that of the inode by tfs_writeFile. *)
LEMMA FollowsStep ==
  ASSUME Story, Ownership, Inv, Step, ~ PointToBlock PROVE AllFollow
<1>1. /\ TypeOK /\ disk \in Disks
      /\ disk[0].type \in {"SUPERBLOCK", "ZERO"} /\ disk[0].kind = "none"
  BY DEF Inv, TypeOK, Disks, SuperblockIntact, SUPERBLOCK_DISKLOC
<1>2. CASE Format
  BY <1>1, <1>2, FollowsFormat
<1>3. CASE WalkRefuses \/ WalkOn \/ OpenFound \/ DirFound \/ NotFound
            \/ ScanNext \/ RecursionOverflows
  <2>1. disk' = disk
    BY <1>3 DEF WalkRefuses, WalkOn, OpenFound, DirFound, NotFound, ScanNext,
       RecursionOverflows, Fail, Die
  <2> QED BY <2>1, FollowsSame
<1>4. CASE PopInode \/ FreeBlockHead \/ GrabBlock
  <2>1. PICK v : disk' = disk \/ disk' = [disk EXCEPT ![0].next = v]
                 \/ \E n : disk' = [disk EXCEPT ![n].off = v]
    BY <1>4, Zenon DEF PopInode, FreeBlockHead, GrabBlock, Popped, Fail, SUPERBLOCK_DISKLOC
  <2> QED BY <1>1, <2>1, FollowsHead
<1>5. CASE WriteInode
  BY <1>1, <1>5, FollowsInode
<1>6. CASE LinkInode \/ UnlinkFile \/ UnlinkDirectory
  BY <1>1, <1>6, FollowsEntry
<1>7. CASE FreeBlockBody \/ ReleaseBlocks
  <2>1. disk' = disk \/ \E n, m : disk' = [disk EXCEPT ![n] = FreeBlk(m)]
    BY <1>7 DEF FreeBlockBody, ReleaseBlocks, Freed
  <2> QED BY <1>1, <2>1, FollowsSame, FollowsFree
<1>8. CASE RewriteDir
  BY <1>1, <1>8, FollowsRewrite
<1>9. CASE FillBlock
  BY <1>1, <1>9, FollowsFill
<1> QED BY <1>2, <1>3, <1>4, <1>5, <1>6, <1>7, <1>8, <1>9 DEF Step

(* What there is when a call begins. *)
LEMMA AllThere ==
  ASSUME Story, Ownership, TypeOK, Idle
  PROVE  /\ \A fd \in FDs : settled.fds[fd] # 0 => settled.fds[fd] \in DOMAIN settled.tree
         /\ \A b \in Addr : disk[b].type = "INODE" => b \in DOMAIN settled.tree
<1>1. \A fd \in FDs : settled.fds[fd] # 0 => settled.fds[fd] \in DOMAIN settled.tree
  <2> SUFFICES ASSUME NEW fd \in FDs, settled.fds[fd] # 0
               PROVE  settled.fds[fd] \in DOMAIN settled.tree
    OBVIOUS
  <2>1. settled.fds = fd_table
    BY RestIs
  <2> QED BY <2>1, OpenIs
<1>2. PICK list \in Lists : AtRest(list)
  BY WhereIdle
<1>3. disk \in Disks /\ Owns(disk, {}, {}, list)
  BY <1>2 DEF AtRest, Sound, TypeOK, Disks
<1>4. \A b \in Addr : disk[b].type = "INODE" => b \in Inodes(disk)
  BY <1>3, NodesAre
<1>5. DOMAIN settled.tree = Inodes(disk)
  BY RestIs, TreeIs
<1> QED BY <1>1, <1>4, <1>5

LEMMA StepBusy == ASSUME Step PROVE ~ Idle
  BY DEF Step, Format, WalkRefuses, WalkOn, OpenFound, DirFound, NotFound, PopInode,
     WriteInode, LinkInode, FreeBlockHead, FreeBlockBody, ReleaseBlocks, UnlinkFile,
     UnlinkDirectory, ScanNext, RecursionOverflows, RewriteDir, Readable, Doing, GrabBlock,
     FillBlock, PointToBlock, Idle

(* While tfs_writeFile runs, its call fills the file it is of. *)
MidWrite == Story /\ TypeOK /\ ~ Idle /\ asked.op = "writeFile"
FillsSome == \E n \in Addr : Fills(EndOf(todo), n)

LEMMA FillsWhileWriting == MidWrite => FillsSome
<1> USE DEF MidWrite, FillsSome
<1> SUFFICES ASSUME Story, TypeOK, ~ Idle, asked.op = "writeFile"
             PROVE  \E n \in Addr : Fills(EndOf(todo), n)
  OBVIOUS
<1>1. Runs
  BY DEF Story, Rests, Erases, Promised!FormatRequest
<1>2. ~ LooksFor(Head(todo))
  <2> SUFFICES ASSUME LooksFor(Head(todo)) PROVE FALSE
    OBVIOUS
  <2>1. PICK w : w = Head(todo)
    OBVIOUS
  <2>2. w \in Steps /\ w.op = "walk" /\ asked.op = w.call
    BY <2>1, TopOf DEF LooksFor, Promised!PathRequest, Idle
  <2>3. w.call \in Lookups
    BY <2>2, StepOf DEF WalkSteps
  <2> QED BY <2>2, <2>3 DEF Lookups
<1>3. ~ Makes(Head(todo)) /\ ~ \E gone, d : Clears(gone, d)
  BY DEF Makes, Clears, Aim
<1> QED BY <1>1, <1>2, <1>3 DEF Runs, EndOf

LEMMA WhereWriting ==
  ASSUME Story, Ownership, TypeOK, ~ Idle, asked.op = "writeFile"
  PROVE  mounted /\ \E list \in Lists : AtWrite(list)
<1>1. ~ AtFormat
  BY OpOf, NoneWaits DEF Story, Rests, Erases, Runs, AtFormat, Promised!FormatRequest
<1>2. PICK list \in Lists, stack \in Stacks : At(list, stack)
  BY <1>1 DEF Ownership
<1>3. ~ \E gone, d : Clears(gone, d)
  BY DEF Clears, Aim
<1>4. ~ LooksFor(Head(todo)) /\ ~ Makes(Head(todo))
  <2>1. ~ Makes(Head(todo))
    BY DEF Makes
  <2>2. ASSUME LooksFor(Head(todo)) PROVE FALSE
    <3>1. PICK w : w = Head(todo)
      OBVIOUS
    <3>2. w \in Steps /\ w.op = "walk" /\ asked.op = w.call
      BY <2>2, <3>1, TopOf DEF LooksFor, Promised!PathRequest, Idle
    <3>3. w.call \in Lookups
      BY <3>2, StepOf DEF WalkSteps
    <3> QED BY <3>2, <3>3 DEF Lookups
  <2> QED BY <2>1, <2>2
<1>5. AtWrite(list)
  BY <1>2, <1>3, <1>4, StoryAt DEF At
<1> QED BY <1>5, StoryAt, NoneWaits

(* A step of it writes the inode, or leaves its copy and what it took. *)
LEMMA WritingNext ==
  ASSUME Story, Ownership, TypeOK, ~ Idle, asked.op = "writeFile", Step, todo' # <<>>
  PROVE  \E g : \E n \in Addr :
           /\ g = EndOf(todo) /\ Fills(g, n)
           /\ disk[n].type = "INODE"
           /\ \/ EndOf(todo').at = g.at /\ EndOf(todo').inode = g.inode
              \/ Doing("point") /\ Head(todo) = g /\ fd_table[g.fd] = n
<1>1. PICK list \in Lists : AtWrite(list)
  BY WhereWriting
<1>0. PICK g : g = EndOf(todo)
  OBVIOUS
<1>2. PICK n \in Addr : g = EndOf(todo) /\ Fills(g, n)
  BY <1>0, FillsWhileWriting DEF MidWrite, FillsSome
<1>3. disk[n].type = "INODE"
  BY <1>2 DEF Fills, Inodes
<1>4. PICK op : op = Head(todo).op
  OBVIOUS
<1>5. Doing(op) /\ op \in {"release", "freeHead", "grab", "fill", "point"}
  BY <1>1, <1>4, OpOf, NoneWaits DEF Doing
<1>6. CASE op = "release"
  <2>1. ReleaseBlocks
    BY <1>5, <1>6 DEF Step, Format, WalkRefuses, WalkOn, OpenFound, DirFound, NotFound, PopInode,
       WriteInode, LinkInode, FreeBlockHead, FreeBlockBody, UnlinkFile, UnlinkDirectory, ScanNext,
       RecursionOverflows, RewriteDir, Readable, Doing, GrabBlock, FillBlock, PointToBlock
  <2>2. PICK h \in WriteSteps, m \in Addr, i \in 1 .. Slots + 1, held \in 0 .. Slots :
          GivesBlock(h, m, i, held, list) /\ EndOf(todo) = h
    BY <1>1, <1>5, <1>6, WhoWrites
  <2>3. PICK q, r : q = disk[m].ptr /\ r = Release(q, i)
    OBVIOUS
  <2>4. todo = <<r, h>>
    BY <2>2, <2>3 DEF GivesBlock
  <2>5. \/ todo' = <<>> \o Tail(todo)
        \/ todo' = <<FreeHead(q[i]), Release(q, i + 1)>> \o Tail(todo)
    <3>1. Head(todo) = Release(q, i)
      BY <2>3, <2>4
    <3> QED BY <2>1, <3>1, ReleasesNext, Zenon
  <2>6. Tail(todo) = <<h>>
    BY <2>4
  <2>7. CASE todo' = <<>> \o Tail(todo)
    <3>1. todo' = <<h>>
      BY <2>6, <2>7
    <3> QED BY <1>2, <1>3, <2>2, <3>1, EndsAre
  <2>8. CASE todo' = <<FreeHead(q[i]), Release(q, i + 1)>> \o Tail(todo)
    <3>1. todo' = <<FreeHead(q[i]), Release(q, i + 1), h>>
      BY <2>6, <2>8, TwoAndOne
    <3> QED BY <1>2, <1>3, <2>2, <3>1, EndsAre
  <2> QED BY <2>5, <2>7, <2>8
<1>7. CASE op = "freeHead"
  <2>1. FreeBlockHead
    BY <1>5, <1>7 DEF Step, Format, WalkRefuses, WalkOn, OpenFound, DirFound, NotFound, PopInode,
       WriteInode, LinkInode, ReleaseBlocks, FreeBlockBody, UnlinkFile, UnlinkDirectory, ScanNext,
       RecursionOverflows, RewriteDir, Readable, Doing, GrabBlock, FillBlock, PointToBlock
  <2>2. PICK h \in WriteSteps, m \in Addr, i \in 1 .. Slots + 1, held \in 0 .. Slots, b \in Addr :
          GivesHead(h, m, i, held, b, list) /\ EndOf(todo) = h
    BY <1>1, <1>5, <1>7, WhoWrites
  <2>3. PICK q : q = disk[m].ptr
    OBVIOUS
  <2>4. todo = <<FreeHead(b), Release(q, i), h>>
    BY <2>2, <2>3 DEF GivesHead
  <2>5. todo' = <<Release(q, i), h>>
    BY <2>1, <2>4, HeadFreed
  <2> QED BY <1>2, <1>3, <2>2, <2>5, EndsAre
<1>8. CASE op \in {"grab", "fill", "point"}
  <2>1. PICK h \in WriteSteps, m \in Addr :
          WritesTo(h, m) /\ Took(h, m) /\ todo = <<h>> /\ h.op = op
    BY <1>5, <1>8, WhoFills
  <2>2. h = g /\ Head(todo) = g /\ Tail(todo) = <<>>
    BY <1>2, <2>1, EndsAre
  <2>3. fd_table[g.fd] = n
    <3>1. fd_table[g.fd] = m
      BY <2>1, <2>2, WriteFacts
    <3>2. fd_table[g.fd] = n
      BY <1>2 DEF Fills, Unopened
    <3> QED BY <3>2
  <2>4. CASE op = "point"
    BY <1>2, <1>3, <1>5, <2>2, <2>3, <2>4
  <2>5. CASE op \in {"grab", "fill"}
    <3>1. GrabBlock \/ FillBlock
      BY <1>5, <2>5 DEF Step, Format, WalkRefuses, WalkOn, OpenFound, DirFound, NotFound,
         PopInode, WriteInode, LinkInode, ReleaseBlocks, FreeBlockHead, FreeBlockBody, UnlinkFile,
         UnlinkDirectory, ScanNext, RecursionOverflows, RewriteDir, Readable, Doing, PointToBlock
    <3>2. PICK e, b : /\ \/ e = Fill(g.fd, g.tag, g.inode, g.at, b)
                         \/ e = Point(g.fd, g.tag, g.inode, g.at, b)
                      /\ todo' = <<e>> \o <<>>
      <4>1. CASE GrabBlock
        <5>1. todo' # <<>> \o <<>>
          BY OnTop, NoneWaits
        <5> QED BY <2>2, <4>1, <5>1, Zenon DEF GrabBlock, Resume, Finish
      <4>2. CASE FillBlock
        BY <2>2, <4>2, Zenon DEF FillBlock, Resume
      <4> QED BY <3>1, <4>1, <4>2
    <3>3. todo' = <<e>>
      BY <3>2, Alone
    <3>4. e.at = g.at /\ e.inode = g.inode
      BY <3>2 DEF Fill, Point
    <3> QED BY <1>2, <1>3, <3>3, <3>4, EndsAre
  <2> QED BY <1>8, <2>4, <2>5
<1> QED BY <1>5, <1>6, <1>7, <1>8

(* Its last step has taken as many blocks as the file needs. *)
LEMMA WriteStops ==
  ASSUME Story, Ownership, TypeOK, Step, todo' = <<>>, asked.op = "writeFile"
  PROVE  \E list \in Lists, g \in WriteSteps, n \in Addr :
           /\ g = EndOf(todo) /\ Fills(g, n)
           /\ WritesTo(g, n) /\ Took(g, n) /\ Grabs(g, n, list)
           /\ ~ (g.at < BlocksFor(g.inode.size))
           /\ disk' = [disk EXCEPT ![n].off = 0]
<1>0. ~ Idle
  BY StepBusy
<1>1. PICK list \in Lists : AtWrite(list)
  BY <1>0, WhereWriting
<1>5. PICK op : op = Head(todo).op
  OBVIOUS
<1>6. Doing(op) /\ op \in {"release", "freeHead", "grab", "fill", "point"}
  BY <1>1, <1>5, OpOf, NoneWaits DEF Doing
<1>7. \A e : todo' # <<e>> \o Tail(todo)
  BY <1>0, OnTop, TopOf DEF Idle
<1>8. op # "release"
  <2> SUFFICES ASSUME op = "release" PROVE FALSE
    OBVIOUS
  <2>1. ReleaseBlocks
    BY <1>6 DEF Step, Format, WalkRefuses, WalkOn, OpenFound, DirFound, NotFound, PopInode,
       WriteInode, LinkInode, FreeBlockHead, FreeBlockBody, UnlinkFile, UnlinkDirectory, ScanNext,
       RecursionOverflows, RewriteDir, Readable, Doing, GrabBlock, FillBlock, PointToBlock
  <2>2. PICK h \in WriteSteps, m \in Addr, i \in 1 .. Slots + 1, held \in 0 .. Slots :
          GivesBlock(h, m, i, held, list) /\ EndOf(todo) = h
    BY <1>1, <1>6, WhoWrites
  <2>3. PICK q, r : q = disk[m].ptr /\ r = Release(q, i)
    OBVIOUS
  <2>4. todo = <<r, h>>
    BY <2>2, <2>3 DEF GivesBlock
  <2>5. \/ todo' = <<>> \o Tail(todo)
        \/ todo' = <<FreeHead(q[i]), Release(q, i + 1)>> \o Tail(todo)
    <3>1. Head(todo) = Release(q, i)
      BY <2>3, <2>4
    <3> QED BY <2>1, <3>1, ReleasesNext, Zenon
  <2>6. Tail(todo) = <<h>>
    BY <2>4
  <2>7. CASE todo' = <<>> \o Tail(todo)
    <3>1. Tail(todo) \in Seq(Steps)
      BY <1>0, TopOf DEF Idle
    <3>2. <<>> \o Tail(todo) = Tail(todo)
      BY <3>1, OnTop
    <3>3. \A a : <<a>> # <<>>
      OBVIOUS
    <3> QED BY <2>6, <2>7, <3>2, <3>3, Zenon
  <2>8. CASE todo' = <<FreeHead(q[i]), Release(q, i + 1)>> \o Tail(todo)
    <3>1. todo' = <<FreeHead(q[i]), Release(q, i + 1), h>>
      BY <2>6, <2>8, TwoAndOne
    <3> QED BY <3>1
  <2> QED BY <2>5, <2>7, <2>8
<1>9. op # "freeHead"
  <2> SUFFICES ASSUME op = "freeHead" PROVE FALSE
    OBVIOUS
  <2>1. FreeBlockHead
    BY <1>6 DEF Step, Format, WalkRefuses, WalkOn, OpenFound, DirFound, NotFound, PopInode,
       WriteInode, LinkInode, ReleaseBlocks, FreeBlockBody, UnlinkFile, UnlinkDirectory, ScanNext,
       RecursionOverflows, RewriteDir, Readable, Doing, GrabBlock, FillBlock, PointToBlock
  <2>2. PICK h \in WriteSteps, m \in Addr, i \in 1 .. Slots + 1, held \in 0 .. Slots, b \in Addr :
          GivesHead(h, m, i, held, b, list) /\ EndOf(todo) = h
    BY <1>1, <1>6, WhoWrites
  <2>3. PICK q : q = disk[m].ptr
    OBVIOUS
  <2>4. todo = <<FreeHead(b), Release(q, i), h>>
    BY <2>2, <2>3 DEF GivesHead
  <2>5. todo' = <<Release(q, i), h>>
    BY <2>1, <2>4, HeadFreed
  <2> QED BY <2>5
<1>10. PICK free \in Lists, h \in WriteSteps, m \in Addr :
         /\ WritesTo(h, m) /\ Took(h, m) /\ todo = <<h>> /\ h.op = op
         /\ op = "grab" => Grabs(h, m, free)
         /\ Fills(h, m)
  BY <1>6, <1>8, <1>9, WhoFills
<1>11. h = EndOf(todo) /\ Head(todo) = h /\ fd_table[h.fd] = m
  BY <1>10, EndsAre, WriteFacts
<1>12. GrabBlock
  <2>1. ~ FillBlock
    BY <1>7, Zenon DEF FillBlock, Resume
  <2>2. ~ PointToBlock
    BY <1>7, Zenon DEF PointToBlock, Resume
  <2> QED BY <1>6, <1>8, <1>9, <2>1, <2>2 DEF Step, Format, WalkRefuses, WalkOn, OpenFound, DirFound,
       NotFound, PopInode, WriteInode, LinkInode, ReleaseBlocks, FreeBlockBody, FreeBlockHead,
       UnlinkFile, UnlinkDirectory, ScanNext, RecursionOverflows, RewriteDir, Readable, Doing
<1>13. op = "grab" /\ Grabs(h, m, free)
  BY <1>6, <1>10, <1>12 DEF GrabBlock, Doing
<1>14. ASSUME h.at < BlocksFor(h.inode.size) PROVE FreePtr # 0
  <2>1. disk \in Disks /\ Shaped(disk) /\ Chain(disk, free)
    BY <1>13 DEF Grabs, Sound, Owns, TypeOK, Disks
  <2>2. Len(free) \in Nat /\ (disk[0].next = 0 <=> free = <<>>)
    BY <2>1, ListFacts
  <2>3. h.at \in Nat /\ BlocksFor(h.inode.size) \in Nat
    BY <1>10, NeedOf, WriteFacts
  <2> DEFINE need == BlocksFor(h.inode.size)
             at == h.at
             len == Len(free)
  <2>4. at \in Nat /\ need \in Nat /\ len \in Nat /\ at < need /\ need <= len + at
    BY <1>13, <1>14, <2>2, <2>3 DEF Grabs
  <2>5. free # <<>>
    <3>1. len # 0
      <4> HIDE DEF need, at, len
      <4> QED BY <2>4
    <3> QED BY <3>1
  <2> QED BY <2>2, <2>5 DEF FreePtr, SUPERBLOCK_DISKLOC
<1>15. ~ (h.at < BlocksFor(h.inode.size)) /\ disk' = [disk EXCEPT ![m].off = 0]
  BY <1>7, <1>11, <1>12, <1>14, Zenon DEF GrabBlock, Resume
<1> QED BY <1>10, <1>11, <1>13, <1>15

LEMMA SizeMatchesThen ==
  ASSUME NEW blk, NEW n \in 0 .. Slots, \A i \in 1 .. Slots : blk.ptr[i] # 0 <=> i <= n,
         n > 0 => BlocksFor(CheckedSize(blk.size)) = n
  PROVE  SizeMatches(blk)
<1>1. {i \in 1 .. Slots : blk.ptr[i] # 0} = 1 .. n
  BY LayoutAssumption
<1>2. Cardinality(1 .. n) = n
  <2>1. n \in Nat
    BY LayoutAssumption
  <2>2. Cardinality(1 .. n) = IF 1 > n THEN 0 ELSE n - 1 + 1
    BY <2>1, FS_Interval
  <2> QED BY <2>1, <2>2
<1> QED BY <1>1, <1>2 DEF SizeMatches

LEMMA LegibleWritten ==
  ASSUME Legible, Story, Ownership, Inv, Step, asked.op = "writeFile",
         todo' = <<>>, asked'.op # "writeFile"
  PROVE  Legible'
<1>0. TypeOK /\ disk \in Disks
  BY DEF Inv, TypeOK, Disks
<1>1. PICK list \in Lists, g \in WriteSteps, n \in Addr :
        /\ g = EndOf(todo) /\ Fills(g, n)
        /\ WritesTo(g, n) /\ Took(g, n) /\ Grabs(g, n, list)
        /\ ~ (g.at < BlocksFor(g.inode.size))
        /\ disk' = [disk EXCEPT ![n].off = 0]
  BY <1>0, WriteStops
<1>2. n = settled.fds[asked.fd] /\ g.inode.size = asked.size
      /\ (g.at > 0 => disk[n].size = asked.size) /\ n # 0
  BY <1>1 DEF Fills
<1>3. AllFollow
  BY <1>0, <1>1, FollowsField
<1>4. PICK old \in Sized : old = disk[n]
  BY <1>0 DEF Disks
<1>5. disk'[n].ptr = old.ptr /\ disk'[n].size = old.size
  BY <1>0, <1>1, <1>4 DEF Disks, Sized, Block
<1>6. PICK at : at = g.at
  OBVIOUS
<1>7. at \in Nat /\ BlocksFor(asked.size) \in Nat /\ at = BlocksFor(asked.size)
  <2>1. BlocksFor(g.inode.size) \in Nat
    BY <1>1, <1>2, NeedOf
  <2>2. at \in Nat
    BY <1>1, <1>6 DEF WriteSteps
  <2>3. at <= BlocksFor(g.inode.size) /\ ~ (at < BlocksFor(g.inode.size))
    BY <1>1, <1>6 DEF Took
  <2>4. PICK need : need = BlocksFor(g.inode.size)
    OBVIOUS
  <2>5. at = need
    BY <2>1, <2>2, <2>3, <2>4
  <2> QED BY <1>2, <2>1, <2>2, <2>4, <2>5
<1>8. at \in 0 .. Slots
  <2>1. at <= Slots
    <3>1. BlocksFor(g.inode.size) <= Slots
      BY <1>1, <1>2, NeedOf
    <3> QED BY <1>2, <1>7, <3>1
  <2> QED BY <1>7, <2>1, LayoutAssumption
<1>9. \A i \in 1 .. Slots : old.ptr[i] # 0 <=> i <= at
  <2>1. \A i \in 1 .. Slots : old.ptr[i] # 0 => i <= at
    BY <1>1, <1>2, <1>4, <1>7 DEF Took
  <2>2. \A i \in 1 .. at : old.ptr[i] # 0
    BY <1>1, <1>4, <1>6 DEF Took
  <2> QED BY <1>7, <2>1, <2>2, LayoutAssumption
<1>10. at > 0 => BlocksFor(CheckedSize(old.size)) = at
  BY <1>2, <1>4, <1>6, <1>7 DEF Legible
<1>11. SizeMatches(disk'[n])
  <2>1. PICK blk : blk = disk'[n]
    OBVIOUS
  <2>2. blk.ptr = old.ptr /\ blk.size = old.size
    BY <1>5, <2>1
  <2> QED BY <1>8, <1>9, <1>10, <2>1, <2>2, SizeMatchesThen
<1>12. \A b \in Addr : Busy(b) /\ disk'[b].kind = "file" => SizeMatches(disk'[b])
  BY <1>2, <1>11 DEF Busy
<1> QED BY <1>3, <1>12, LegibleEnds

LEMMA LegiblePoints ==
  ASSUME Legible, Story, Ownership, Inv, PointToBlock, settled' = settled, asked' = asked
  PROVE  Legible'
<1>0. TypeOK /\ disk \in Disks
  BY DEF Inv, TypeOK, Disks
<1>1. PICK op : op = "point" /\ Doing(op)
  BY DEF PointToBlock
<1>2. PICK list \in Lists, g \in WriteSteps, n \in Addr :
        /\ WritesTo(g, n) /\ Took(g, n) /\ todo = <<g>> /\ g.op = op
        /\ Fills(g, n) /\ asked.op = "writeFile"
  BY <1>0, <1>1, WhoFills
<1>3. /\ Head(todo) = g /\ EndOf(todo) = g /\ fd_table[g.fd] = n
      /\ g.inode \in Sized
      /\ \A steps : Resume(steps) => todo' = steps \o <<>>
  BY <1>0, <1>2, WriteFacts, EndsAre
<1>4. /\ n = settled.fds[asked.fd] /\ disk[n].type = "INODE"
      /\ g.inode.name = disk[n].name
  BY <1>2 DEF Fills, Inodes
<1>5. g.inode.next = 0 /\ g.inode.name # NoName
  BY <1>2, <1>3, <1>4 DEF Legible, Plain
<1>6. PICK blk : blk = [g.inode EXCEPT !.ptr[g.at + 1] = g.blk]
  OBVIOUS
<1>7. blk.next = 0 /\ blk.name # NoName
  BY <1>3, <1>5, <1>6 DEF Sized, Block
<1>8. PICK e : e = Grab(g.fd, g.tag, blk, g.at + 1)
  OBVIOUS
<1>9. disk' = [disk EXCEPT ![n] = blk] /\ todo' = <<e>>
  <2>1. disk' = [disk EXCEPT ![n] = blk] /\ Resume(<<e>>)
    BY <1>3, <1>6, <1>8 DEF PointToBlock
  <2> QED BY <1>3, <2>1, Alone
<1>10. EndOf(todo').inode.next = 0
  BY <1>7, <1>8, <1>9, EndsAre DEF Grab
<1>11. ASSUME NEW b \in Addr PROVE Follows(disk[b], disk'[b]) \/ (Busy(b) /\ Plain(disk'[b]))
  <2>1. CASE b = n
    <3>1. disk'[b] = blk
      BY <1>0, <1>9, <2>1 DEF Disks
    <3> QED BY <1>2, <1>4, <1>7, <2>1, <3>1 DEF Busy, Plain
  <2>2. CASE b # n
    <3>1. disk'[b] = disk[b]
      BY <1>0, <1>9, <2>2 DEF Disks
    <3> QED BY <3>1 DEF Follows
  <2> QED BY <2>1, <2>2
<1> QED BY <1>10, <1>11, LegibleGoes

LEMMA LegibleContinues ==
  ASSUME Legible, Story, Ownership, Inv, Continues PROVE Legible'
<1>0. Step /\ TypeOK /\ ~ Idle
  BY StepBusy DEF Continues, Inv
<1>1. CASE todo' = <<>>
  <2>1. asked'.op # "writeFile"
    BY <1>1 DEF Continues, Settle, Promised!NoCall
  <2>2. CASE asked.op = "writeFile"
    BY <1>0, <1>1, <2>1, <2>2, LegibleWritten
  <2>3. CASE asked.op # "writeFile"
    <3>1. ~ PointToBlock
      BY <1>0, <2>3, WhoFills DEF PointToBlock
    <3>2. AllFollow
      BY <1>0, <3>1, FollowsStep
    <3> QED BY <2>1, <2>3, <3>2, LegibleEnds DEF Busy
  <2> QED BY <2>2, <2>3
<1>2. CASE todo' # <<>>
  <2>1. asked' = asked /\ settled' = settled
    BY <1>2 DEF Continues, Settle
  <2>2. CASE PointToBlock
    BY <2>1, <2>2, LegiblePoints
  <2>3. CASE ~ PointToBlock
    <3>1. AllFollow
      BY <1>0, <2>3, FollowsStep
    <3>2. ASSUME asked.op = "writeFile" PROVE EndOf(todo').inode.next = 0
      <4>1. PICK g : \E n \in Addr :
              /\ g = EndOf(todo)
              /\ EndOf(todo').inode = g.inode \/ Doing("point")
        BY <1>0, <1>2, <3>2, WritingNext
      <4>2. ~ Doing("point")
        BY <1>0, <2>3 DEF Step, Format, WalkRefuses, WalkOn, OpenFound, DirFound, NotFound,
           PopInode, WriteInode, LinkInode, ReleaseBlocks, FreeBlockHead, FreeBlockBody, UnlinkFile,
           UnlinkDirectory, ScanNext, RecursionOverflows, RewriteDir, Readable, Doing, GrabBlock,
           FillBlock
      <4> QED BY <3>2, <4>1, <4>2 DEF Legible
    <3> QED BY <2>1, <3>1, <3>2, LegibleGoes DEF AllFollow
  <2> QED BY <2>2, <2>3
<1> QED BY <1>1, <1>2

---------------------------------------------------------------------------
(* The calls, where they begin. *)

LEMMA LegibleBegins ==
  ASSUME Legible, Inv, Idle, asked.op # "writeFile", asked'.op # "writeFile",
         \/ disk' = disk
         \/ disk' = [b \in Addr |-> Blank]
         \/ \E n, v : disk' = [disk EXCEPT ![n].off = v]
         \/ \E n : \E v \in Names : disk' = [disk EXCEPT ![n].name = v]
  PROVE  Legible'
<1>0. disk \in Disks
  BY DEF Inv, TypeOK, Disks
<1>1. CASE disk' = [b \in Addr |-> Blank]
  <2>1. Blank.type = "ZERO" /\ Blank.kind = "none"
    BY DEF Blank
  <2>2. AllFollow
    BY <1>1, <2>1 DEF AllFollow, Follows, Plain
  <2> QED BY <2>2, LegibleEnds DEF Busy
<1>2. CASE disk' = disk \/ \E n, v : disk' = [disk EXCEPT ![n].off = v]
  <2>1. AllFollow
    BY <1>0, <1>2, FollowsSame, FollowsField
  <2> QED BY <2>1, LegibleEnds DEF Busy
<1>3. CASE \E n : \E v \in Names : disk' = [disk EXCEPT ![n].name = v]
  <2>1. PICK n : \E v \in Names : disk' = [disk EXCEPT ![n].name = v]
    BY <1>3
  <2>2. PICK v \in Names : disk' = [disk EXCEPT ![n].name = v]
    BY <2>1
  <2>3. v # NoName
    BY LayoutAssumption
  <2>4. AllFollow
    BY <1>0, <2>2, <2>3, FollowsField
  <2> QED BY <2>4, LegibleEnds DEF Busy
<1> QED BY <1>1, <1>2, <1>3

LEMMA LegibleWrites ==
  ASSUME Legible, Story, Ownership, Inv, Idle, "goodSizes" \in Promises,
         NEW fd \in FDs, NEW tag \in Tags, NEW size \in Sizes, Writes(fd, tag, size)
  PROVE  Legible'
<1>0. TypeOK /\ disk \in Disks /\ asked.op # "writeFile"
  BY RestIs DEF Inv, TypeOK, Disks, Promised!NoCall
<1>1. CASE NotReady(fd)
  <2>1. disk' = disk /\ todo' = <<>>
    BY <1>1 DEF NotReady, Refuse, Return, Idle
  <2>2. asked'.op # "writeFile"
    BY <2>1 DEF Writes, Settle, Promised!NoCall
  <2> QED BY <1>0, <2>1, <2>2, LegibleBegins
<1>2. CASE ~ NotReady(fd)
  <2>1. PICK n : n = fd_table[fd]
    OBVIOUS
  <2>2. PICK inode, g : /\ inode = [disk[n] EXCEPT !.size = size]
                        /\ g = Grab(fd, tag, inode, 0)
    OBVIOUS
  <2>3. PICK r : r = Release(inode.ptr, 1)
    OBVIOUS
  <2>4. n # 0 /\ disk' = disk /\ todo' = <<r, g>>
    BY <1>2, <2>1, <2>2, <2>3 DEF Writes, WriteFile, Ready, Begin
  <2>5. n \in Addr /\ disk[n].type = "INODE"
    BY <1>0, <2>1, <2>4, OpenIs
  <2>6. CheckedSize(size) = size
    BY <2>1, <2>4 DEF Writes, WritesWell, Keeps
  <2>7. EndOf(todo').inode.next = 0
    <3>1. PICK old \in Sized : old = disk[n]
      BY <1>0, <2>5 DEF Disks
    <3>2. old.next = 0
      BY <2>5, <3>1 DEF Legible, Plain
    <3>3. inode.next = 0
      BY <2>2, <3>1, <3>2 DEF Sized, Block
    <3>4. EndOf(todo') = g
      BY <2>4, EndsAre
    <3>5. g.inode = inode
      BY <2>2 DEF Grab
    <3> QED BY <3>3, <3>4, <3>5
  <2>8. todo' # <<>>
    BY <2>4
  <2>9. asked' = Promised!WriteRequest(fd, tag, size) /\ settled' = settled
    BY <2>8 DEF Writes, Settle
  <2>10. asked'.size = size
    BY <2>9 DEF Promised!WriteRequest
  <2>11. \A b \in Addr : disk[b].kind = "file" => SizeMatches(disk[b])
    BY <1>0 DEF Legible, Busy
  <2>12. (asked.op = "writeFile" =>
            CheckedSize(asked.size) = asked.size /\ EndOf(todo).inode.next = 0)'
    BY <2>6, <2>7, <2>10 DEF EndOf
  <2>13. (\A b \in Addr : Plain(disk[b]))'
    BY <2>4 DEF Legible, Plain
  <2>14. (\A b \in Addr : disk[b].kind = "file" => SizeMatches(disk[b]))'
    BY <2>4, <2>11 DEF SizeMatches
  <2> QED BY <2>12, <2>13, <2>14 DEF Legible
<1> QED BY <1>1, <1>2

LEMMA LegibleNext ==
  ASSUME Careful, "goodSizes" \in Promises, Legible, Story, Ownership, Inv, [ClientNext]_cvars
  PROVE  Legible'
<1>1. CASE UNCHANGED cvars
  BY <1>1 DEF cvars, vars, Legible, Plain, SizeMatches, Busy, EndOf
<1>2. CASE Continues
  BY <1>2, LegibleContinues
<1>3. ASSUME Idle,
             \/ disk' = disk
             \/ disk' = [b \in Addr |-> Blank]
             \/ \E n, v : disk' = [disk EXCEPT ![n].off = v]
             \/ \E n : \E v \in Names : disk' = [disk EXCEPT ![n].name = v],
             asked'.op # "writeFile"
      PROVE  Legible'
  BY <1>3, RestIs, LegibleBegins DEF Promised!NoCall
<1>4. CASE Formats
  BY <1>3, <1>4
     DEF Formats, Mkfs, Begin, Settle, Promised!FormatRequest, Promised!NoCall
<1>5. CASE Mounts \/ Unmounts
  BY <1>3, <1>5
     DEF Mounts, Mount, MountOverflows, Die, Unmounts, Unmount, Refuse, Return, AtOnce, Settle,
         Promised!NoCall
<1>6. CASE RemovesRoot
  BY <1>3, <1>6
     DEF RemovesRoot, RemoveAllOfRoot, Begin, ByPath, Settle, Promised!NoCall,
         Promised!PathRequest
<1>7. ASSUME NEW path \in Paths,
             Opens(path) \/ CreatesDir(path) \/ RemovesDir(path) \/ RemovesAll(path)
      PROVE  Legible'
  <2>1. PICK call : PathCall(call, path) /\ ByPath(call, path) /\ call # "writeFile"
    BY <1>7 DEF Opens, OpenFile, CreatesDir, CreateDir, RemovesDir, RemoveDir, RemovesAll, RemoveAll
  <2>2. Idle /\ disk' = disk
    BY <2>1 DEF PathCall, Refuse, Return, Begin
  <2>3. asked'.op # "writeFile"
    BY <2>1 DEF ByPath, Settle, Promised!NoCall, Promised!PathRequest
  <2> QED BY <1>3, <2>2, <2>3
<1>8. ASSUME NEW fd \in FDs, Closes(fd) \/ Deletes(fd) \/ Reads(fd)
      PROVE  Legible'
  <2>1. Idle /\ (disk' = disk \/ \E n, v : disk' = [disk EXCEPT ![n].off = v])
    BY <1>8 DEF Closes, CloseFile, Deletes, DeleteFile, Reads, ReadByte, NotReady, Refuse, Return,
       Begin
  <2>2. asked'.op # "writeFile"
    BY <1>8 DEF Closes, Deletes, Reads, AtOnce, Settle, Promised!NoCall, Promised!DeleteRequest
  <2> QED BY <1>3, <2>1, <2>2
<1>9. ASSUME NEW fd \in FDs, NEW offset \in Offsets, Seeks(fd, offset) PROVE Legible'
  BY <1>3, <1>9 DEF Seeks, Seek, NotReady, Refuse, Return, AtOnce, Settle, Promised!NoCall
<1>10. ASSUME NEW fd \in FDs, NEW name \in Names, Renames(fd, name) PROVE Legible'
  BY <1>3, <1>10 DEF Renames, Rename, NotReady, Refuse, Return, AtOnce, Settle, Promised!NoCall
<1>11. ASSUME NEW fd \in FDs, NEW tag \in Tags, NEW size \in Sizes, Writes(fd, tag, size)
       PROVE  Legible'
  <2>1. Idle
    BY <1>11 DEF Writes, WriteFile, NotReady, Refuse, Return, Begin
  <2> QED BY <1>11, <2>1, LegibleWrites
<1>12. ~ Dies
  BY DEF Dies, May, Careful
<1> QED BY <1>1, <1>2, <1>4, <1>5, <1>6, <1>7, <1>8, <1>9, <1>10, <1>11, <1>12 DEF ClientNext

LEMMA LegibleInit == ASSUME ClientInit PROVE Legible
<1>1. asked.op # "writeFile"
  BY DEF ClientInit, Promised!NoCall
<1>2. ASSUME NEW b \in Addr PROVE Plain(disk[b]) /\ disk[b].kind = "none"
  <2>1. disk[b] = FormatSuper \/ \E i : disk[b] = FormatBlk(i)
    BY DEF ClientInit, Init, Formatted
  <2> QED BY <2>1 DEF FormatSuper, FormatBlk, SuperBlk, FreeBlk, Blank, Plain
<1> QED BY <1>1, <1>2 DEF Legible

---------------------------------------------------------------------------
(* Between calls the disk is coherent. *)

LEMMA ToIs ==
  ASSUME NEW d, NEW b, NEW i \in 0 .. Slots
  PROVE  /\ i = 0 => To(d, b, i) = IF d[b].type \in {"SUPERBLOCK", "FREE"} THEN d[b].next ELSE 0
         /\ i # 0 => To(d, b, i) = IF d[b].type \in {"SUPERBLOCK", "INODE"} THEN d[b].ptr[i] ELSE 0
         /\ i # 0 => i \in 1 .. Slots
  BY LayoutAssumption DEF To, Ref

RestsOn(list) == Story /\ Ownership /\ Inv /\ Legible /\ Healthy /\ Idle /\ AtRest(list)

LEMMA HeadersAtRest ==
  ASSUME NEW list \in Lists, RestsOn(list), NEW b \in Addr
  PROVE  HeaderOK(disk[b], disk[b].type) /\ SizeOK(disk[b], disk[b].type)
<1>1. /\ Shaped(disk) /\ disk[b].kind \in {"none", "file", "dir"}
      /\ disk[b].type = "SUPERBLOCK" <=> b = 0
  BY RestFacts DEF RestsOn
<1>2. asked.op # "writeFile"
  BY RestIs DEF RestsOn, Promised!NoCall
<1>3. Plain(disk[b]) /\ (disk[b].kind = "file" => SizeMatches(disk[b]))
  BY <1>2 DEF RestsOn, Legible, Busy
<1>4. disk[b].type = "INODE" => disk[b].kind # "none"
  BY <1>1, Ends DEF Shaped
<1> QED BY <1>1, <1>3, <1>4 DEF HeaderOK, SizeOK, Plain

LEMMA ChainRefs ==
  ASSUME LosesNone, NEW list \in Lists, RestsOn(list), NEW b \in Addr, To(disk, b, 0) # 0
  PROVE  /\ b \in Refs(disk[b].next, "FREE") /\ disk[b].next = To(disk, b, 0)
         /\ disk[disk[b].next].type = "FREE" /\ disk[b].next \in Addr
<1>1. /\ Shaped(disk) /\ Chain(disk, list) /\ AllListed(disk, {}, list) /\ Len(list) \in Nat
      /\ disk \in Disks /\ \A i \in 1 .. Len(list) : list[i] # 0
  BY RestFacts, Ends DEF RestsOn, Owns, Lists
<1>2. /\ disk[b].type \in {"SUPERBLOCK", "FREE"} /\ To(disk, b, 0) = disk[b].next
      /\ disk[b].type = "SUPERBLOCK" <=> b = 0
  <2>1. 0 \in 0 .. Slots
    BY LayoutAssumption
  <2> QED BY <2>1, ToIs, RestFacts DEF RestsOn
<1>3. disk[b].next \in Addr
  BY <1>1, DiskFields
<1>4. disk[disk[b].next].type = "FREE"
  <2>1. CASE b = 0
    <3>1. list # <<>> /\ disk[b].next = list[1]
      BY <1>1, <1>2, <2>1, Ends DEF Chain
    <3>2. 1 \in 1 .. Len(list)
      BY <1>1, <3>1
    <3> QED BY <1>1, <3>1, <3>2 DEF Chain
  <2>2. CASE b # 0
    <3>1. PICK i \in 1 .. Len(list) : list[i] = b
      BY <1>1, <1>2, <2>2, Ends DEF AllListed
    <3>2. i < Len(list) /\ disk[b].next = list[i + 1]
      BY <1>1, <1>2, <3>1 DEF Chain
    <3>3. i + 1 \in 1 .. Len(list)
      BY <1>1, <3>2
    <3> QED BY <1>1, <3>2, <3>3 DEF Chain
  <2> QED BY <2>1, <2>2
<1>5. b \in Refs(disk[b].next, "FREE")
  BY <1>2 DEF Refs
<1> QED BY <1>2, <1>3, <1>4, <1>5

LEMMA EntryRefs ==
  ASSUME NEW list \in Lists, RestsOn(list), NEW b \in Addr, NEW i \in 1 .. Slots,
         To(disk, b, i) # 0
  PROVE  /\ To(disk, b, i) = disk[b].ptr[i] /\ Counts(disk, {}, b, i)
         /\ disk[disk[b].ptr[i]].type = RefAs(disk[b], i)
         /\ RefAs(disk[b], i) # "FREE"
<1>1. i \in 0 .. Slots /\ i # 0
  BY LayoutAssumption
<1>2. To(disk, b, i) = disk[b].ptr[i] /\ disk[b].ptr[i] # 0
  BY <1>1, ToIs
<1>3. Counts(disk, {}, b, i)
  BY <1>2 DEF Counts
<1>4. disk[disk[b].ptr[i]].type = IF disk[b].kind = "file" THEN "FILEEX" ELSE "INODE"
  BY <1>3, RestFacts DEF RestsOn, Owns, Apart
<1>5. RefAs(disk[b], i) = IF disk[b].kind = "file" THEN "FILEEX" ELSE "INODE"
  BY <1>1 DEF RefAs
<1> QED BY <1>2, <1>3, <1>4, <1>5

LEMMA OneRefAtRest ==
  ASSUME LosesNone, NEW list \in Lists, RestsOn(list), NEW b \in Addr, NEW c \in Addr,
         NEW i \in 0 .. Slots, NEW j \in 0 .. Slots,
         To(disk, b, i) # 0, To(disk, b, i) = To(disk, c, j)
  PROVE  b = c /\ i = j
<1>1. Inv /\ AtRest(list) /\ Owns(disk, {}, {}, list) /\ AllListed(disk, {}, list)
  BY RestFacts DEF RestsOn, Owns
<1>2. CASE i = 0 /\ j = 0
  <2>1. PICK t : t = disk[b].next
    OBVIOUS
  <2>2. t \in Addr /\ t # 0 /\ b \in Refs(t, "FREE") /\ c \in Refs(t, "FREE")
    BY <1>2, <2>1, ChainRefs
  <2>3. ASSUME NEW x \in Refs(t, "FREE")
        PROVE  x = 0 \/ \E k \in 1 .. Len(list) : list[k] = x
    <3>1. x \in Addr /\ disk[x].type \in {"SUPERBLOCK", "FREE"}
      BY DEF Refs
    <3>2. disk[x].type = "SUPERBLOCK" <=> x = 0
      BY <1>1, <3>1, RestFacts
    <3> QED BY <1>1, <3>1, <3>2, Ends DEF AllListed
  <2>4. \A x, y \in Refs(t, "FREE") : x = y
    BY <1>1, <2>2, <2>3, FreeRefs
  <2> QED BY <1>2, <2>2, <2>4
<1>3. CASE i # 0 /\ j # 0
  <2>1. i \in 1 .. Slots /\ j \in 1 .. Slots
    BY <1>3, LayoutAssumption
  <2>2. /\ Counts(disk, {}, b, i) /\ Counts(disk, {}, c, j) /\ disk[b].ptr[i] = disk[c].ptr[j]
    BY <2>1, EntryRefs
  <2> QED BY <1>1, <2>1, <2>2, OneOwnerOf
<1>4. CASE i = 0 /\ j # 0
  <2>1. j \in 1 .. Slots
    BY <1>4, LayoutAssumption
  <2> QED BY <1>4, <2>1, ChainRefs, EntryRefs
<1>5. CASE i # 0 /\ j = 0
  <2>1. i \in 1 .. Slots
    BY <1>5, LayoutAssumption
  <2> QED BY <1>5, <2>1, ChainRefs, EntryRefs
<1> QED BY <1>2, <1>3, <1>4, <1>5

(* Every block can be reached from the superblock. *)
LEMMA AllReachedAtRest ==
  ASSUME LosesNone, NEW list \in Lists, RestsOn(list), NEW S \in SUBSET Addr, 0 \in S,
         \A b \in S, i \in 0 .. Slots : To(disk, b, i) \in S
  PROVE  S = Addr
<1>1. /\ Owns(disk, {}, {}, list) /\ AllListed(disk, {}, list) /\ Chain(disk, list)
      /\ Shaped(disk) /\ disk \in Disks /\ Len(list) \in Nat
      /\ \A x \in Addr : disk[x].type = "SUPERBLOCK" <=> x = 0
  BY RestFacts DEF RestsOn, Owns, Lists
<1>2. 0 \in 0 .. Slots /\ \A i \in 1 .. Slots : i \in 0 .. Slots /\ i # 0
  BY LayoutAssumption
<1>3. ASSUME NEW b \in S, disk[b].type \in {"SUPERBLOCK", "FREE"} PROVE disk[b].next \in S
  BY <1>2, <1>3, ToIs
<1>4. ASSUME NEW b \in S, disk[b].type \in {"SUPERBLOCK", "INODE"}, NEW i \in 1 .. Slots
      PROVE  disk[b].ptr[i] \in S
  BY <1>2, <1>4, ToIs
<1>5. \A i \in 1 .. Len(list) : list[i] \in S
  <2> DEFINE Out == {i \in 1 .. Len(list) : list[i] \notin S}
  <2>1. SUFFICES ASSUME Out # {} PROVE FALSE
    OBVIOUS
  <2>2. Out \in SUBSET Nat
    OBVIOUS
  <2>3. PICK k \in Out : \A m \in Out : k <= m
    <3> HIDE DEF Out
    <3> QED BY <2>1, <2>2, LeastNumber
  <2>4. k \in 1 .. Len(list) /\ list[k] \notin S
    OBVIOUS
  <2>5. CASE k = 1
    <3>1. disk[0].next = list[1]
      BY <1>1, <2>4, <2>5, Ends DEF Chain
    <3> QED BY <1>1, <1>3, <2>4, <2>5, <3>1, Ends
  <2>6. CASE k # 1
    <3>1. PICK j : j = k - 1
      OBVIOUS
    <3>2. j \in 1 .. Len(list) /\ j < Len(list) /\ j + 1 = k /\ ~ (k <= j)
      BY <1>1, <2>4, <2>6, <3>1
    <3>3. list[j] \in S
      BY <2>3, <3>2
    <3>4. disk[list[j]].type = "FREE" /\ disk[list[j]].next = list[k]
      BY <1>1, <3>2 DEF Chain
    <3> QED BY <1>3, <2>4, <3>3, <3>4
  <2> QED BY <2>5, <2>6
<1>6. ASSUME NEW b \in Addr, b # 0, disk[b].type = "FREE" PROVE b \in S
  BY <1>1, <1>5, <1>6, Ends DEF AllListed
<1>7. /\ settled.tree = Tree(disk) /\ DOMAIN settled.tree = Inodes(disk)
      /\ \A n \in Inodes(disk) : settled.tree[n] = Node(disk, n)
  BY RestIs, TreeIs DEF RestsOn
<1>8. \A n \in DOMAIN settled.tree : settled.tree[n].dir \in S => n \in S
  <2> SUFFICES ASSUME NEW n \in Inodes(disk), Node(disk, n).dir \in S PROVE n \in S
    BY <1>7
  <2>1. PICK x : x = Node(disk, n).dir
    OBVIOUS
  <2>2. x \in S /\ x \in Addr /\ IsDirOn(disk, x) /\ \E i \in 1 .. Slots : disk[x].ptr[i] = n
    BY <1>1, <2>1, NodeEntry
  <2>3. disk[x].type \in {"SUPERBLOCK", "INODE"}
    BY <1>1, <2>2, Ends DEF IsDirOn, Shaped
  <2> QED BY <1>4, <2>2, <2>3
<1>9. DOMAIN settled.tree \subseteq S
  BY <1>8 DEF RestsOn, Healthy, Rooted
<1>10. ASSUME NEW b \in Addr, disk[b].type = "INODE" PROVE b \in S
  BY <1>1, <1>7, <1>9, <1>10, NodesAre
<1>11. ASSUME NEW b \in Addr, b # 0, disk[b].type = "FILEEX" PROVE b \in S
  <2>1. PICK x \in Addr, i \in 1 .. Slots : Counts(disk, {}, x, i) /\ disk[x].ptr[i] = b
    BY <1>1, <1>11, Ends DEF Owns, Held
  <2>2. disk[x].kind = "file"
    BY <1>1, <1>11, <2>1, OneOwnerOf
  <2>3. disk[x].type = "INODE"
    BY <1>1, <2>2, Ends DEF Shaped
  <2>4. x \in S
    BY <1>10, <2>3
  <2> QED BY <1>4, <2>1, <2>3, <2>4
<1>12. ASSUME NEW b \in Addr PROVE b \in S
  BY <1>1, <1>6, <1>10, <1>11, Ends DEF Shaped
<1> QED BY <1>12

LEMMA CoherentAtRest ==
  ASSUME LosesNone, NEW list \in Lists, RestsOn(list) PROVE Coherent(disk)
<1>1. disk \in [Addr -> Block] /\ disk[0].type = "SUPERBLOCK"
  BY RestFacts, Ends DEF RestsOn, Disks, Sized, Shaped
<1>2. \A b \in Addr : HeaderOK(disk[b], disk[b].type) /\ SizeOK(disk[b], disk[b].type)
  BY HeadersAtRest
<1>3. ASSUME NEW b \in Addr, NEW i \in 0 .. Slots, To(disk, b, i) # 0
      PROVE  disk[To(disk, b, i)].type = RefAs(disk[b], i)
  <2>1. CASE i = 0
    <3>1. RefAs(disk[b], i) = "FREE"
      BY <2>1 DEF RefAs
    <3> QED BY <1>3, <2>1, <3>1, ChainRefs
  <2>2. CASE i # 0
    <3>1. i \in 1 .. Slots
      BY <2>2, LayoutAssumption
    <3> QED BY <1>3, <3>1, EntryRefs
  <2> QED BY <2>1, <2>2
<1> QED BY <1>1, <1>2, <1>3, OneRefAtRest, AllReachedAtRest DEF Coherent

(* A careful program that also loses no block and writes sizes the check   *)
(* reads as they are can mount the disk again after any of its calls.      *)
THEOREM AlwaysMountable ==
  ASSUME Careful, LosesNone, "goodSizes" \in Promises PROVE ClientSpec => []Mountable
<1>1. ClientInit => Healthy /\ FromTable /\ Legible
  BY StoryInit, HealthyInit, LegibleInit
<1>2. Inv /\ Ownership /\ Inv' /\ Story /\ Healthy /\ FromTable /\ Legible
        /\ [ClientNext]_cvars => (Healthy /\ FromTable /\ Legible)'
  <2> SUFFICES ASSUME Inv, Ownership, Inv', Story, Healthy, FromTable, Legible,
                      [ClientNext]_cvars
               PROVE  Healthy' /\ FromTable' /\ Legible'
    OBVIOUS
  <2>1. TypeOK' /\ Readout
    BY DEF Inv, Story
  <2>2. [Promised!FSNext]_(Promised!fsVars)
    <3>1. CASE ClientNext
      BY <2>1, <3>1, StoryNext DEF Good
    <3>2. CASE UNCHANGED cvars
      BY <3>2, StoryStutter DEF Good
    <3> QED BY <3>1, <3>2
  <2>3. Healthy' /\ FromTable'
    BY <2>1, <2>2, HealthyNext
  <2> QED BY <2>3, LegibleNext
<1>3. Inv /\ Ownership /\ Story /\ Healthy /\ Legible => Mountable
  <2> SUFFICES ASSUME Inv, Ownership, Story, Healthy, Legible, Idle
               PROVE  MountCheck(disk) = "ok"
    BY DEF Mountable
  <2>1. PICK list \in Lists : AtRest(list)
    BY WhereIdle
  <2>2. Coherent(disk)
    BY <2>1, CoherentAtRest DEF RestsOn
  <2> QED BY <2>2, CoherentPasses
<1> QED BY <1>1, <1>2, <1>3, OwnAlways, StoryAlways, PTL DEF ClientSpec

=============================================================================
