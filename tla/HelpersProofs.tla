--------------------------- MODULE HelpersProofs ---------------------------
(***************************************************************************)
(* Of every string and every tree of directories: the parser stays inside  *)
(* its string and its buffer, and what a look-up is told to create has a   *)
(* name.  Of every table, however long, and of every order of opening and  *)
(* closing: the search reads inside the table and takes the first unused   *)
(* entry on its way around.                                                *)
(***************************************************************************)
EXTENDS Paths, FdTable, TLAPS

(* While a name is read, it is not one that ended before it began, and     *)
(* what it has is readable; between the calls the index is where it began, *)
(* and a look-up has no result before it has found something.              *)
NameInv ==
  /\ call = "none" => path_index = 0
  /\ call # "none" /\ doing # "found" => result = PENDING
  /\ doing = "chars" => /\ Readable(cur_path)
                        /\ cur_path = <<>> => This # NUL

PathInv == PathTypeOK /\ NameInv

USE PathsAssumption, DiskAssumption

LEMMA CharInside ==
  ASSUME NEW p \in Seq(Chars), NEW i \in 0 .. Len(p)
  PROVE  /\ CharAt(p, i) # NUL => i < Len(p) /\ CharAt(p, i) \in Chars
         /\ CharAt(p, i) = NUL => i = Len(p)
<1>1. CASE i = Len(p)
  BY <1>1 DEF CharAt
<1>2. CASE i < Len(p)
  <2>1. i + 1 \in 1 .. Len(p)
    BY <1>2
  <2>2. p[i + 1] \in Chars
    BY <2>1
  <2> QED
    BY <1>2, <2>2 DEF CharAt
<1> QED
  BY <1>1, <1>2

LEMMA StartInside ==
  ASSUME NEW p \in Seq(Chars)
  PROVE  FindPathStart(p) \in 0 .. Len(p)
<1>1. Len(p) \in Nat /\ Slash # NUL
  OBVIOUS
<1>2. CharAt(p, 0) # NUL => 0 < Len(p)
  BY <1>1, CharInside
<1> QED
  BY <1>1, <1>2 DEF FindPathStart

LEMMA DirNames ==
  ASSUME NEW child \in Dirs, Len(child) # 0
  PROVE  child[Len(child)] \in Names
<1>1. child \in Seq(Names)
  OBVIOUS
<1>2. Len(child) \in 1 .. Len(child)
  BY <1>1
<1> QED
  BY <1>1, <1>2

LEMMA NestedIsString ==
  ASSUME NEW p \in Seq(Chars), NEW name \in Names
  PROVE  Nested(p, name) \in Seq(Chars)
<1>1. name \in Seq(Chars)
  BY DEF Names
<1>2. <<Slash>> \in Seq(Chars)
  OBVIOUS
<1> QED
  BY <1>1, <1>2 DEF Nested

LEMMA AnswerTypes ==
  ASSUME NEW code \in Int, Answer(code)
  PROVE  PathInv'
<1>1. <<>> \in Seq(Chars) /\ <<>> \in Names /\ Len(<<>>) = 0
  BY DEF Names
<1> QED
  BY <1>1 DEF Answer, PathInv, PathTypeOK, NameInv, Root

LEMMA LookUpTypes ==
  ASSUME NEW c \in Calls, NEW p \in Seq(Chars), NEW e \in Dirs, LookUp(c, p, e)
  PROVE  PathInv'
<1>1. <<>> \in Names /\ Len(<<>>) = 0
  BY DEF Names
<1> QED
  BY <1>1, StartInside DEF LookUp, PathInv, PathTypeOK, NameInv, Root, PENDING, Calls

LEMMA PathInvInit == PathInit => PathInv
<1>1. <<>> \in Seq(Chars) /\ <<>> \in Names /\ Len(<<>>) = 0
  BY DEF Names
<1> QED
  BY <1>1 DEF PathInit, PathInv, PathTypeOK, NameInv, Root, PENDING

LEMMA BeginKeeps ==
  ASSUME PathInv, NEW c \in Calls, NEW p \in Strings, BeginPath(c, p)
  PROVE  PathInv'
<1>1. p \in Seq(Chars)
  OBVIOUS
<1>2. CASE Answer(ERR_INVALID_INPUT)
  BY <1>2, AnswerTypes DEF ERR_INVALID_INPUT
<1>3. CASE LookUp(c, p, Root)
  BY <1>1, <1>3, LookUpTypes DEF Root
<1>4. CASE /\ call = "none"
           /\ call' = c
           /\ p = <<Slash>>
           /\ path' = p
           /\ doing' = "found"
           /\ result' = FOUND
           /\ UNCHANGED <<path_index, cur_path, current, entry>>
  BY <1>1, <1>4 DEF PathInv, PathTypeOK, NameInv, FOUND, Calls
<1> QED
  BY <1>2, <1>3, <1>4 DEF BeginPath

LEMMA StartKeeps ==
  ASSUME PathInv, ParseStart
  PROVE  PathInv'
<1>1. CASE Answer(ERR_INVALID_INPUT)
  BY <1>1, AnswerTypes DEF ERR_INVALID_INPUT
<1>2. CASE /\ StartsName(This)
           /\ cur_path' = <<>>
           /\ doing' = "chars"
           /\ UNCHANGED <<call, path, path_index, current, entry, result>>
  <2>1. <<>> \in Names /\ Len(<<>>) = 0 /\ Readable(<<>>)
    BY DEF Names, Readable
  <2>2. This' = This
    BY <1>2 DEF This, CharAt
  <2>3. call # "none" /\ doing # "found"
    BY DEF ParseStart, Walking
  <2> QED
    BY <1>2, <2>1, <2>2, <2>3 DEF PathInv, PathTypeOK, NameInv, StartsName
<1> QED
  BY <1>1, <1>2 DEF ParseStart

LEMMA LongerName ==
  ASSUME NEW name \in Names, Readable(name),
         NEW c \in Chars \ {Slash}, c \notin Controls
  PROVE  /\ Append(name, c) \in Names
         /\ Len(Append(name, c)) = Len(name) + 1
         /\ Append(name, c) # <<>>
         /\ Readable(Append(name, c))
<1>1. name \in Seq(Chars \ {Slash})
  BY DEF Names
<1>2. /\ Append(name, c) \in Seq(Chars \ {Slash})
      /\ Len(Append(name, c)) = Len(name) + 1
  BY <1>1
<1>3. Append(name, c) # <<>>
  BY <1>1, <1>2
<1>4. ASSUME NEW i \in DOMAIN Append(name, c)
      PROVE  Append(name, c)[i] \notin Controls
  <2>1. i \in 1 .. Len(name) + 1
    BY <1>1, <1>2
  <2>2. CASE i = Len(name) + 1
    BY <1>1, <2>2
  <2>3. CASE i \in 1 .. Len(name)
    BY <1>1, <2>3 DEF Readable
  <2> QED
    BY <1>1, <2>1, <2>2, <2>3
<1> QED
  BY <1>2, <1>3, <1>4 DEF Names, Readable

LEMMA CharKeeps ==
  ASSUME PathInv, ParseChar
  PROVE  PathInv'
<1>1. CASE Answer(ERR_INVALID_INPUT)
  BY <1>1, AnswerTypes DEF ERR_INVALID_INPUT
<1>2. CASE /\ This \notin Controls
           /\ cur_path' = Append(cur_path, This)
           /\ path_index' = path_index + 1
           /\ UNCHANGED <<call, path, current, entry, doing, result>>
  <2> USE DEF PathInv, PathTypeOK
  <2>1. doing = "chars" /\ call # "none" /\ This \notin {NUL, Slash}
        /\ Len(cur_path) < FILENAME_LENGTH
    BY DEF ParseChar, Walking, Goes, HasRoom
  <2>2. This \in Chars \ {Slash} /\ path_index < Len(path)
    BY <2>1, CharInside DEF This
  <2>3. /\ cur_path' \in Names
        /\ Len(cur_path') = Len(cur_path) + 1
        /\ cur_path' # <<>>
        /\ Readable(cur_path')
    BY <1>2, <2>1, <2>2, LongerName DEF NameInv
  <2>4. PathTypeOK'
    BY <1>2, <2>1, <2>2, <2>3
  <2> QED
    BY <1>2, <2>1, <2>3, <2>4 DEF NameInv
<1> QED
  BY <1>1, <1>2 DEF ParseChar

LEMMA EndKeeps ==
  ASSUME PathInv, ParseEnd
  PROVE  PathInv'
<1> USE DEF PathInv, PathTypeOK
<1>1. ASSUME NEW code \in Int, Answer(code) PROVE PathInv'
  BY <1>1, AnswerTypes
<1>2. CASE /\ Accepts
           /\ IsLast
           /\ call = "removeAll"
           /\ current' = Child
           /\ doing' = "found"
           /\ result' = FOUND
           /\ UNCHANGED <<call, path, path_index, cur_path, entry>>
  BY <1>2 DEF Accepts, NameInv, FOUND
<1>3. CASE /\ EndsName(This)
           /\ Accepts
           /\ ~ IsLast
           /\ current' = Child
           /\ path_index' = After
           /\ doing' = "name"
           /\ UNCHANGED <<call, path, cur_path, entry, result>>
  <2>1. call # "none" /\ doing = "chars" /\ Child \in Dirs
    BY <1>3 DEF ParseEnd, Walking, Accepts
  <2>2. path_index + 1 \in 0 .. Len(path)
    BY <1>3 DEF IsLast, After
  <2> QED
    BY <1>3, <2>1, <2>2 DEF NameInv, After
<1>4. /\ ERR_INVALID_INPUT \in Int /\ ERR_NOT_A_DIR \in Int /\ FOUND \in Int
      /\ (IF IsLast THEN NOT_FOUND ELSE ERR_DIR_NOT_FOUND) \in Int
  BY DEF ERR_INVALID_INPUT, ERR_NOT_A_DIR, FOUND, NOT_FOUND, ERR_DIR_NOT_FOUND
<1> QED
  BY <1>1, <1>2, <1>3, <1>4 DEF ParseEnd

LEMMA DescendKeeps ==
  ASSUME PathInv, Descend
  PROVE  PathInv'
<1> USE DEF PathInv, PathTypeOK
<1>1. PICK child \in Dirs :
        /\ Len(child) = Len(current) + 1
        /\ \/ LookUp(call, Nested(path, child[Len(child)]), child)
           \/ Answer(PENDING)
  BY DEF Descend
<1>2. Len(child) # 0 /\ call \in Calls
  <2>1. Len(current) \in Nat
    OBVIOUS
  <2> QED
    BY <1>1, <2>1 DEF Descend, Walking
<1>3. Nested(path, child[Len(child)]) \in Seq(Chars)
  BY <1>2, DirNames, NestedIsString
<1>4. CASE LookUp(call, Nested(path, child[Len(child)]), child)
  BY <1>2, <1>3, <1>4, LookUpTypes
<1>5. CASE Answer(PENDING)
  BY <1>5, AnswerTypes DEF PENDING
<1> QED
  BY <1>1, <1>4, <1>5

LEMMA LeaveKeeps ==
  ASSUME PathInv, Leave
  PROVE  PathInv'
<1>1. CASE Answer(FOUND)
  BY <1>1, AnswerTypes DEF FOUND
<1>2. CASE LookUp("removeDir", path, current)
  BY <1>2, LookUpTypes DEF PathInv, PathTypeOK, Calls
<1> QED
  BY <1>1, <1>2 DEF Leave

LEMMA PathInvStep == PathInv /\ [PathNext]_pathVars => PathInv'
<1> SUFFICES ASSUME PathInv, [PathNext]_pathVars PROVE PathInv'
  OBVIOUS
<1>1. CASE UNCHANGED pathVars
  BY <1>1 DEF pathVars, PathInv, PathTypeOK, NameInv, This, CharAt
<1> QED
  BY <1>1, BeginKeeps, StartKeeps, CharKeeps, EndKeeps, DescendKeeps, LeaveKeeps
     DEF PathNext

(* _parse_path stays inside the string and inside cur_path, whatever the   *)
(* string, also one that tfs_removeAll made.                               *)
THEOREM ParserStaysInside == PathSpec => []PathTypeOK
<1>1. PathInv => PathTypeOK
  BY DEF PathInv
<1> QED
  BY PathInvInit, PathInvStep, <1>1, PTL DEF PathSpec

(* Only the end of a name that was last says that there is no such entry.  *)
LEMMA NotFoundHasName ==
  PathInv /\ [PathNext]_pathVars =>
    [Answered /\ result' = NOT_FOUND =>
       Len(cur_path) \in 1 .. FILENAME_LENGTH /\ Readable(cur_path)]_pathVars
<1> SUFFICES ASSUME PathInv, PathNext, Answered, result' = NOT_FOUND
             PROVE  Len(cur_path) \in 1 .. FILENAME_LENGTH /\ Readable(cur_path)
  OBVIOUS
<1> USE DEF PathInv, PathTypeOK
<1>1. call # "none" /\ doing # "found"
  BY DEF Answered
<1>2. NOT_FOUND # ERR_INVALID_INPUT /\ NOT_FOUND # ERR_NOT_A_DIR
      /\ NOT_FOUND # FOUND /\ NOT_FOUND # ERR_DIR_NOT_FOUND /\ NOT_FOUND # PENDING
  BY DEF NOT_FOUND, ERR_INVALID_INPUT, ERR_NOT_A_DIR, FOUND, ERR_DIR_NOT_FOUND, PENDING
<1>3. ~ \E c \in Calls, p \in Strings : BeginPath(c, p)
  BY <1>1 DEF BeginPath
<1>4. result = PENDING
  BY <1>1 DEF NameInv
<1>5. ~ ParseStart
  BY <1>2, <1>4 DEF ParseStart, Answer
<1>6. ~ ParseChar
  BY <1>2, <1>4 DEF ParseChar, Answer
<1>7. ~ Descend /\ ~ Leave
  BY <1>1 DEF Descend, Leave, Walking
<1>8. ParseEnd
  BY <1>3, <1>5, <1>6, <1>7 DEF PathNext
<1>9. /\ ~ Answer(ERR_INVALID_INPUT)
      /\ ~ Answer(ERR_NOT_A_DIR)
      /\ ~ Answer(FOUND)
      /\ result' # FOUND
      /\ result' # result
  BY <1>2, <1>4 DEF Answer
<1>10. EndsName(This) /\ Answer(IF IsLast THEN NOT_FOUND ELSE ERR_DIR_NOT_FOUND)
  BY <1>8, <1>9 DEF ParseEnd
<1>11. IsLast
  BY <1>2, <1>10 DEF Answer
<1>12. path_index = Len(path) /\ doing = "chars"
  BY <1>8, <1>11 DEF IsLast, After, ParseEnd, Walking
<1>13. This = NUL
  BY <1>12 DEF This, CharAt
<1>14. cur_path # <<>> /\ Readable(cur_path)
  BY <1>12, <1>13 DEF NameInv
<1>15. Len(cur_path) # 0
  BY <1>14 DEF Names
<1> QED
  BY <1>14, <1>15 DEF Names

(* What tfs_openFile and tfs_createDir are told to create has a name that  *)
(* _check_block_con accepts, whatever the path and the tree.               *)
THEOREM CreatedAreNamed == PathSpec => CreatedHasName
  BY PathInvInit, PathInvStep, NotFoundHasName, PTL DEF PathSpec, CreatedHasName

---------------------------------------------------------------------------
(* What each loop has passed is used, and both loops count what they read. *)
Passed(m, n) == \A k \in FDs : m <= k /\ k < n => ~ Unused(k)

SearchInv ==
  /\ loop # 0 => turns = fd_table_index
  /\ loop = 1 => /\ original <= fd_table_index
                 /\ Passed(original, fd_table_index)
  /\ loop = 2 => /\ fd_table_index <= original
                 /\ Passed(original, FD_TABLESIZE)
                 /\ Passed(0, fd_table_index)

FdInv == FdTypeOK /\ SearchInv

USE TableAssumption, InodesAssumption DEF FDs, EMPTY_TABLEVAL

LEMMA FdInvInit == FdInit => FdInv
  BY DEF FdInit, FdInv, FdTypeOK, SearchInv, NONE

(* Loops read on while what they read is used.                             *)
LEMMA FdInvStep == FdInv /\ [FdNext]_fdVars => FdInv'
<1> SUFFICES ASSUME FdInv, [FdNext]_fdVars PROVE FdInv'
  OBVIOUS
<1> USE DEF FdInv, FdTypeOK, SearchInv, Passed, Unused, Limit
<1>1. CASE Search
  BY <1>1 DEF Search, Counter, NONE
<1>2. CASE GoOn
  <2>1. FdTypeOK'
    BY <1>2 DEF GoOn
  <2>2. SearchInv'
    BY <1>2 DEF GoOn
  <2> QED
    BY <2>1, <2>2
<1>3. CASE Wrap
  BY <1>3 DEF Wrap
<1>4. CASE GiveUp
  BY <1>4 DEF GiveUp, ERR_OUT_OF_FDS
<1>5. CASE CloseAll
  BY <1>5 DEF CloseAll
<1>6. ASSUME NEW inode \in Inodes, Found(inode) PROVE FdInv'
  BY <1>6 DEF Found
<1>7. ASSUME NEW n \in FDs, Close(n) PROVE FdInv'
  BY <1>7 DEF Close
<1>8. CASE UNCHANGED fdVars
  BY <1>8 DEF fdVars
<1> QED
  BY <1>1, <1>2, <1>3, <1>4, <1>5, <1>6, <1>7, <1>8 DEF FdNext

(* _update_fd_table_index never reads outside of fd_table, for a table of  *)
(* any length.                                                             *)
THEOREM TableReadInside == FdSpec => []FdTypeOK
<1>1. FdInv => FdTypeOK
  BY DEF FdInv
<1> QED
  BY FdInvInit, FdInvStep, <1>1, PTL DEF FdSpec

(* A search that ends took the first unused entry, or found none.          *)
LEMMA SearchEnds ==
  FdInv /\ [FdNext]_fdVars =>
    [loop # 0 /\ loop' = 0 =>
       \/ /\ fd' \in FDs
          /\ Unused(fd')
          /\ \A n \in FDs : Unused(n) => Turn(fd') <= Turn(n)
       \/ /\ fd' = ERR_OUT_OF_FDS
          /\ \A n \in FDs : ~ Unused(n)
          /\ fd_table_index' = original]_fdVars
<1> SUFFICES ASSUME FdInv, FdNext, loop # 0, loop' = 0
             PROVE  \/ /\ fd' \in FDs
                       /\ Unused(fd')
                       /\ \A n \in FDs : Unused(n) => Turn(fd') <= Turn(n)
                    \/ /\ fd' = ERR_OUT_OF_FDS
                       /\ \A n \in FDs : ~ Unused(n)
                       /\ fd_table_index' = original
  OBVIOUS
<1> USE DEF FdInv, FdTypeOK, SearchInv, Passed, Unused, Limit, Turn
<1>1. CASE GiveUp
  BY <1>1 DEF GiveUp
<1>2. ASSUME NEW inode \in Inodes, Found(inode)
      PROVE  /\ fd' \in FDs
             /\ Unused(fd')
             /\ \A n \in FDs : Unused(n) => Turn(fd') <= Turn(n)
  BY <1>2 DEF Found
<1>3. ~ Search /\ ~ GoOn /\ ~ Wrap /\ ~ CloseAll /\ \A n \in FDs : ~ Close(n)
  BY DEF Search, GoOn, Wrap, CloseAll, Close
<1> QED
  BY <1>1, <1>2, <1>3 DEF FdNext

(* The search takes the first unused descriptor on its way around the      *)
(* table and fails only when there is none: _update_fd_table_index.        *)
THEOREM SearchFindsFirst == FdSpec => FirstUnused
  BY FdInvInit, FdInvStep, SearchEnds, PTL DEF FdSpec, FirstUnused

=============================================================================
