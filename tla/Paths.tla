------------------------------- MODULE Paths -------------------------------
(***************************************************************************)
(* Paths as strings: _find_path_start, _parse_path and the loop of         *)
(* _navigate_to_dir (libTinyFS_helpers.c), one character per step, and the *)
(* nested paths tfs_removeAll builds for its recursion (tinyFS.c).         *)
(*                                                                         *)
(* A name is a sequence of characters, and a file or directory the         *)
(* sequence of names that leads to it.  TinyFS has paths as sequences of   *)
(* names: what it says of them is what this module shows of strings.       *)
(*                                                                         *)
(* RoomForOneMore, EndsAnywhere, Anything and AlwaysASlash are mistakes    *)
(* the definition that follows each could have made; nothing uses them.    *)
(***************************************************************************)
EXTENDS Integers, Sequences, FiniteSets

CONSTANTS
  Chars,            \* characters of a path
  Slash,
  Controls,         \* characters below 0x20
  NUL,              \* what ends a string
  FILENAME_LENGTH,
  PathBuffer,       \* bytes tfs_removeAll has for a nested path
  Strings,          \* paths a program gives
  Dirs, Files       \* what is on the disk; a renamed one may have Controls

Names == Seq(Chars \ {Slash})
Readable(name) == \A i \in DOMAIN name : name[i] \notin Controls

ASSUME PathsAssumption ==
  /\ Slash \in Chars /\ NUL \notin Chars /\ Controls \subseteq Chars \ {Slash}
  /\ FILENAME_LENGTH \in Nat /\ PathBuffer \in Nat
  /\ Strings \subseteq Seq(Chars)
  /\ Dirs \subseteq Seq(Names) /\ Files \subseteq Seq(Names)

ASSUME DiskAssumption ==
  /\ <<>> \in Dirs /\ Dirs \cap Files = {}
  /\ \A node \in Dirs \cup Files : \A i \in DOMAIN node :
       /\ Len(node[i]) \in 1 .. FILENAME_LENGTH
       /\ SubSeq(node, 1, i - 1) \in Dirs

VARIABLES
  call,        \* the call that looks a path up, or "none"
  path,        \* the path, dirName
  path_index,
  cur_path,    \* the name read so far
  current,     \* the directory reached
  entry,       \* what a nested path was built for
  doing,       \* "name" before a name, "chars" in it, "found" after the last
  result       \* what _navigate_to_dir returned last

pathVars == <<call, path, path_index, cur_path, current, entry, doing, result>>

FOUND == 1
NOT_FOUND == 0
ERR_INVALID_INPUT == -1
ERR_DIR_NOT_FOUND == -40
ERR_NOT_A_DIR == -41
PENDING == -100  \* no value: the call is running, or died with the process

Calls == {"openFile", "createDir", "removeDir", "removeAll"}
Root == <<>>

PathInit ==
  /\ call = "none" /\ path = <<>> /\ path_index = 0 /\ cur_path = <<>>
  /\ current = Root /\ entry = Root /\ doing = "name"
  /\ result = PENDING

(* The string and its terminator.                                          *)
CharAt(p, i) == IF i < Len(p) THEN p[i + 1] ELSE NUL
FindPathStart(p) == IF CharAt(p, 0) = Slash THEN 1 ELSE 0

Answer(code) ==
  /\ call' = "none" /\ path' = <<>> /\ path_index' = 0 /\ cur_path' = <<>>
  /\ current' = Root /\ entry' = Root /\ doing' = "name"
  /\ result' = code

LookUp(c, p, e) ==
  /\ call' = c
  /\ path' = p
  /\ path_index' = FindPathStart(p)
  /\ cur_path' = <<>>
  /\ current' = Root
  /\ entry' = e
  /\ doing' = "name"
  /\ result' = PENDING

(* The special path of the root is not looked up; only tfs_createDir asks  *)
(* for a slash in front.                                                   *)
BeginPath(c, p) ==
  /\ call = "none"
  /\ \/ /\ c = "createDir"
        /\ CharAt(p, 0) # Slash
        /\ Answer(ERR_INVALID_INPUT)
     \/ /\ c = "removeAll"
        /\ p = <<Slash>>
        /\ call' = c
        /\ path' = p
        /\ doing' = "found"
        /\ result' = FOUND
        /\ UNCHANGED <<path_index, cur_path, current, entry>>
     \/ /\ c = "createDir" => CharAt(p, 0) = Slash
        /\ c = "removeAll" => p # <<Slash>>
        /\ LookUp(c, p, Root)

---------------------------------------------------------------------------
(* _parse_path. *)

Walking(where) == call # "none" /\ doing = where
This == CharAt(path, path_index)

Anything(c) == TRUE
StartsName(c) == c # NUL
RoomForOneMore(name) == Len(name) <= FILENAME_LENGTH
HasRoom(name) == Len(name) < FILENAME_LENGTH
EndsAnywhere(c) == TRUE
EndsName(c) == c \in {NUL, Slash}

ParseStart ==
  /\ Walking("name")
  /\ \/ ~ StartsName(This) /\ Answer(ERR_INVALID_INPUT)
     \/ /\ StartsName(This)
        /\ cur_path' = <<>>
        /\ doing' = "chars"
        /\ UNCHANGED <<call, path, path_index, current, entry, result>>

Goes == This \notin {NUL, Slash} /\ HasRoom(cur_path)
ParseChar ==
  /\ Walking("chars")
  /\ Goes
  /\ \/ This \in Controls /\ Answer(ERR_INVALID_INPUT)
     \/ /\ This \notin Controls
        /\ cur_path' = Append(cur_path, This)
        /\ path_index' = path_index + 1
        /\ UNCHANGED <<call, path, current, entry, doing, result>>

(* _navigate_to_dir has the name, and looks for it in the directory.       *)
Child == Append(current, cur_path)
After == path_index + 1
IsLast == After = Len(path) + 1
Accepts == Child \in Dirs \/ (Child \in Files /\ IsLast /\ call = "openFile")

ParseEnd ==
  /\ Walking("chars")
  /\ ~ Goes
  /\ \/ ~ EndsName(This) /\ Answer(ERR_INVALID_INPUT)
     \/ /\ EndsName(This)
        /\ Child \in Files
        /\ ~ IsLast \/ call # "openFile"
        /\ Answer(ERR_NOT_A_DIR)
     \/ /\ EndsName(This)
        /\ Child \notin Dirs \cup Files
        /\ Answer(IF IsLast THEN NOT_FOUND ELSE ERR_DIR_NOT_FOUND)
     \/ /\ EndsName(This)
        /\ Accepts
        /\ IsLast
        /\ \/ call # "removeAll" /\ Answer(FOUND)
           \/ /\ call = "removeAll"
              /\ current' = Child
              /\ doing' = "found"
              /\ result' = FOUND
              /\ UNCHANGED <<call, path, path_index, cur_path, entry>>
     \/ /\ EndsName(This)
        /\ Accepts
        /\ ~ IsLast
        /\ current' = Child
        /\ path_index' = After
        /\ doing' = "name"
        /\ UNCHANGED <<call, path, cur_path, entry, result>>

---------------------------------------------------------------------------
(* tfs_removeAll removes a directory in its directory by its path, in a    *)
(* buffer with room for a pointer and two bytes.  A longer path is written *)
(* over what the heap has next to it: the process may die of that, or not. *)
AlwaysASlash(p, name) == p \o <<Slash>> \o name
Nested(p, name) == (IF p = <<Slash>> THEN p ELSE p \o <<Slash>>) \o name

Descend ==
  /\ Walking("found")
  /\ \E child \in Dirs :
       /\ Len(child) = Len(current) + 1
       /\ SubSeq(child, 1, Len(current)) = current
       /\ LET p == Nested(path, child[Len(child)])
          IN  \/ LookUp(call, p, child)
              \/ Len(p) + 1 > PathBuffer /\ Answer(PENDING)

(* Another directory than the root then goes too, by the same path.        *)
Leave ==
  /\ Walking("found")
  /\ IF current = Root THEN Answer(FOUND) ELSE LookUp("removeDir", path, current)

PathNext ==
  \/ \E c \in Calls, p \in Strings : BeginPath(c, p)
  \/ ParseStart \/ ParseChar \/ ParseEnd \/ Descend \/ Leave

PathSpec == PathInit /\ [][PathNext]_pathVars

---------------------------------------------------------------------------
(* The parser reads no character behind the terminator and writes no more  *)
(* than FILENAME_LENGTH characters to cur_path, although the loop around   *)
(* it only ends when path_index is exactly one behind the terminator.      *)
PathTypeOK ==
  /\ call \in Calls \cup {"none"}
  /\ path \in Seq(Chars)
  /\ path_index \in 0 .. Len(path)
  /\ cur_path \in Names /\ Len(cur_path) <= FILENAME_LENGTH
  /\ current \in Dirs
  /\ entry \in Dirs
  /\ doing \in {"name", "chars", "found"}
  /\ result \in Int

Answered == result' # PENDING /\ call # "none" /\ doing # "found"

(* What tfs_openFile and tfs_createDir are told to create has a name that  *)
(* _check_block_con accepts: at least one character, at most eight.        *)
CreatedHasName ==
  [][Answered /\ result' = NOT_FOUND =>
       Len(cur_path) \in 1 .. FILENAME_LENGTH /\ Readable(cur_path)]_pathVars

(* A path read by its names: what is between its slashes, but for one in   *)
(* front.                                                                  *)
Cut(p, k) ==
  LET slashes == {i \in DOMAIN p : p[i] = Slash}
  IN  IF k = 0 THEN 0
      ELSE IF k > Cardinality(slashes) THEN Len(p) + 1
      ELSE CHOOSE i \in slashes : Cardinality({j \in slashes : j <= i}) = k
Split(p) ==
  [k \in 1 .. Cardinality({i \in DOMAIN p : p[i] = Slash}) + 1 |->
     SubSeq(p, Cut(p, k - 1) + 1, Cut(p, k) - 1)]
NamesOf(p) == Split(IF CharAt(p, 0) = Slash THEN Tail(p) ELSE p)

(* The first name that is the last one, or does not lead to a directory,   *)
(* decides.                                                                *)
Verdict(c, p) ==
  LET names   == NamesOf(p)
      node(k) == SubSeq(names, 1, k)
      bad(k)  == \/ ~ Readable(names[k])
                 \/ Len(names[k]) > FILENAME_LENGTH
                 \/ k = Len(names) /\ names[k] = <<>>
      ends(k) == k = Len(names) \/ bad(k) \/ node(k) \notin Dirs
      k       == CHOOSE i \in DOMAIN names : ends(i) /\ \A j \in 1 .. i - 1 : ~ ends(j)
  IN  CASE bad(k)                               -> ERR_INVALID_INPUT
        [] ~ bad(k) /\ node(k) \in Dirs         -> FOUND
        [] ~ bad(k) /\ node(k) \in Files        ->
             IF k = Len(names) /\ c = "openFile" THEN FOUND ELSE ERR_NOT_A_DIR
        [] ~ bad(k) /\ node(k) \notin Dirs \cup Files ->
             IF k = Len(names) THEN NOT_FOUND ELSE ERR_DIR_NOT_FOUND

(* The loops over characters answer what a walk over the names would.      *)
AnswersByName == [][Answered => result' = Verdict(call, path)]_pathVars

(* The path tfs_removeAll builds leads to the directory it builds it for,  *)
(* from "/" as from any other path, and so does the path it removes a      *)
(* directory by at the end, unless the directory was given a name that no  *)
(* path can have.                                                          *)
NestedLeadsToChild ==
  [][Answered /\ entry # Root =>
       IF Readable(entry[Len(entry)])
       THEN result' = FOUND /\ (call = "removeAll" => current' = entry)
       ELSE result' = ERR_INVALID_INPUT]_pathVars

=============================================================================
