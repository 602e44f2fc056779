# TinyFS: specifications, checks and proofs

TinyFS is a file system inside one host file: `libDisk.c` reads and writes 256-byte
blocks of the file, `tinyFS.c` and `libTinyFS_helpers.c` keep files and directories in
them. The library is called from one thread, so the hard part is not concurrency. It is
that every operation is a sequence of block writes with no journal, that the same block
is reached through several copies (a buffer on the stack, the disk, a descriptor), and
that `tfs_mount` promises to accept only disks that are fully correct.

Read `TinyFSLayout.tla`, then `TinyFS.tla` (the program), `FileSystem.tla` (what it
promises), `TinyFSClient.tla` (when it keeps the promise), then the parts that are shown on
their own (`Disks`, `Paths`, `FdTable`) or on top (`TinyFSListing`, `TinyFSTimes`), and the
proofs.

## Inventory

| Part | State | Operations | Interacts through | Module |
|---|---|---|---|---|
| Blocks of the disk (`tinyFS.h`) | the image: superblock, inodes, data blocks, free blocks | formatting | read and written by everything | `TinyFSLayout` |
| Emulated disk (`libDisk.c`) | files and descriptors of the host | `openDisk`, `closeDisk`, `readBlock`, `writeBlock` | everything | `Disks` |
| Disk life cycle | `mounted` | `tfs_mkfs`, `tfs_mount`, `tfs_unmount` | `tfs_mount` calls `tfs_unmount` and the check | `Disks`, `TinyFS` |
| Consistency check (`_check_block_con`) | `blocks_checked`, the recursion | walk from the superblock | decides whether a disk may be mounted | `Disks`, `TinyFSLayout` |
| Free list (`_pop_free_block`, `_free_block`) | `FREE_PTR` of the superblock and of each free block | pop, free | the superblock, which is also the root directory | `TinyFS` |
| Descriptor table (`fd_table`, `fd_table_index`) | block of the inode open at each descriptor | search, store, `tfs_closeFile` | cleared by mount, unmount and by the removal of a file | `FdTable`, `TinyFS` |
| Files | inode: size, offset, data pointers | `tfs_openFile`, `tfs_writeFile`, `tfs_readByte`, `tfs_seek`, `tfs_rename`, `tfs_deleteFile` | free list, descriptors, directories | `TinyFS` |
| Directories | inode pointers of the superblock or of a directory | `_navigate_to_dir`, `tfs_createDir`, `tfs_removeDir`, `tfs_removeAll` (recursive, by path) | free list, files | `TinyFS` |
| Path parsing | index, name so far | `_find_path_start`, `_parse_path`, the paths `tfs_removeAll` builds | called by `_navigate_to_dir` | `Paths` |
| Listing | none | `tfs_readdir`, `_print_directory_contents` | reads directories | `TinyFSListing` |
| Timestamps | three times per inode | `_write_long`, `tfs_readFileInfo` | stored with the inodes | `TinyFSTimes` |

Hard behaviours, and the property that would catch them going wrong (the list with lines
is `hazards` in `PROJECT.json`):

- **the process dies between two writes** of a call: `MountedIsSound`, and of a format:
  `OnlyFinishedImages`;
- **stale copies**: `tfs_writeFile` and `tfs_removeAll` write back an inode or a
  superblock they read before other writes: `OneOwner`, `NoTwoOwners`, `Mountable`,
  `DatesNeverGoBack`;
- **one step of several fails** (no block, no descriptor left, a short write):
  `NoTwoOwners`, `ImplementsFileSystem`, `OnlyFinishedImages`;
- **long legal sequences**: a file open several times and deleted once, names made equal
  by a rename, a directory opened as a file, disks formatted and mounted in any order:
  `DescriptorsLive`, `ImplementsFileSystem`, `OneOwner`, `SuperblockIntact`, `MountedIsHeld`;
- **boundaries**: size 0, full blocks, sign-extended sizes and addresses, the last byte, the
  longest name, the end of the descriptor table: `Mountable`, `ReadsReturnTheFile`,
  `FreshMounts`, `PathTypeOK`, `CreatedHasName`, `FirstUnused`;
- **termination** of the loops over pointers and of the recursion: `CallsReturn`.

What makes each part correct: the free list, the directories and the files share the
blocks out, each block once (`OneOwner`); the check accepts what the program writes
(`Mountable`, `FreshMounts`) and nothing else (`MountedIsSound`, `AcceptedIsSound`);
descriptors lead to files that exist (`DescriptorsLive`) and to nothing while no disk is
mounted (`UnmountedIsQuiet`); calls are all-or-nothing changes of a tree
(`ImplementsFileSystem`), which is listed as it is (`ListingIsTheTree`) and dated
(`FilesAreDated`).

## Modules

**`TinyFSLayout`** - blocks, the formatted image, sizes, and the mount check as functions
of an image. A block is one record with every field some code reads out of its bytes, so
that code which reads a block as what it is not finds something definite there.
`MountCheck` is the recursion of `_check_block_con` in its order, with its three ends: ok,
`ERR_BAD_DISK`, or a recursion that comes back to where it was and exhausts the stack.

**`TinyFS`** - the program. `disk` is the image and outlives the process; `mounted`,
`fd_table` and `fd_table_index` are the globals of `tinyFS.c:4-14`; `ret` is what the last
call returned. `todo` is what is left of the running call: the call stack, innermost
first. A call that writes at most one block (`Mount`, `Unmount`, `CloseFile`, `Seek`,
`ReadByte`, `Rename`) is one action. Any other starts with an action that puts its work on
`todo`; every further action does the reads up to the next `writeBlock` and that write.
`Crash` can come between any two of them.

| Call | Actions |
|---|---|
| `tfs_mkfs` | `Mkfs` (openDisk's zeros), `Format` per block and for the superblock |
| `_navigate_to_dir` | `Walk` steps: `WalkRefuses`, `WalkOn`, then what the call does with the last name: `OpenFound`, `DirFound`, `NotFound` |
| new file or directory | `PopInode`, `WriteInode`, `LinkInode` |
| `_free_block` | `FreeBlockBody` or `ReleaseBlocks`, then `FreeBlockHead` |
| `tfs_deleteFile`, `_remove_inode_and_blocks` | `DeleteFile`, `ReleaseBlocks`, `FreeBlockBody`, `UnlinkFile` |
| `tfs_writeFile` | `WriteFile`, `ReleaseBlocks`, then per block `GrabBlock`, `FillBlock`, `PointToBlock`, and `GrabBlock` at the end for the seek |
| `tfs_removeDir` | `DirFound`, `FreeBlockBody`, `UnlinkDirectory` |
| `tfs_removeAll` | `ScanNext`, the work on the entry (a nested walk for a directory), `RewriteDir`; at the end the walk of `tfs_removeDir` |

Three things the C code leaves undefined are choices: a search that finds nothing runs off
its buffer (`UnlinkFile`: it stops at some byte, or the process dies); a recursion without
end ends with the process (`MountOverflows`, `RecursionOverflows`); and the store at
`fd_table[-31]` (`OpenFound`) falls into padding or makes the process die, depending on
what the linker put there.

**`FileSystem`** - the abstract specification: a tree of named nodes with their bytes and
offsets, descriptors, and a request that is answered in one step, with all of its effect or
(unless it is `Certain` to find what it needs) a refusal that changes nothing. Only opening a
file when there is no descriptor left may also end the process, and leave the tree as it was.

**`TinyFSClient`** - a program that calls TinyFS. `Calls` are the calls it makes, `Promises`
what it keeps to: open only files (`filesOnly`) with a descriptor left (`fdsRoom`), write
no fewer blocks than before (`noShrink`), no more than there is room for (`fits`), sizes the
check decodes (`goodSizes`), rewrite only files of one block (`smallRewrites`), empty the
root by other means than `tfs_removeAll("/")` (`rootStays`), unmount before formatting
(`unmountFirst`). They are conditions the code works under, and its documentation states none
of them. The violation runs drop one promise each and show that it is needed. `MCDirs` drops two
and shows what is left: blocks get lost, so that the disk may not be mountable, but no block
has two owners (`NoTwoOwners`) and the tree is still what the abstract specification says. `settled` and `asked` are the refinement mapping: the tree read off the disk when no
call was running, and the call that is.

**`TinyFSListing`** - `Contents` is the recursion of `_print_directory_contents` as lines
with their indentation, `ReadDir` what `tfs_readdir` prints; `ListingIsTheTree` compares it
with the tree that the abstract specification has.

**`TinyFSTimes`** - every step of `TinyFSClient` together with the times it stores. `times` has
the three times of each inode, `copy` those in the copy that `tfs_writeFile` writes back with
every block, `clock` is `time(NULL)` and goes on between any two steps, also between the three
readings a new inode takes.

**`Disks`** - files of the host with their length, the descriptors the process has on them,
and the three calls that open and close them. `Mkfs`, `ZeroDisk` and `FormatNext` are `tfs_mkfs`
one write at a time; each may fail, the zeros may be fewer than asked for, and `Crash` may come
between them. `Mount`, `CheckStart`, `CheckNext`, `CheckReturn`, `CheckEnd` are `tfs_mount`, one
call or return of `_check_block_con` at a time: `frames` is its stack, `seen` its
`blocks_checked`. In `TinyFS` the check is the function `MountCheck`; `CheckIsMountCheck` is what
ties the two.

**`Paths`** - a path as a string: `ParseStart`, `ParseChar` and `ParseEnd` are `_parse_path` and
the loop of `_navigate_to_dir` one character at a time, on a tree that does not change; `Descend`
builds the path of a nested directory as `tfs_removeAll` does, in its short buffer, and `Leave` looks
it up again for `tfs_removeDir`. `TinyFS` has paths as sequences of names; `AnswersByName` says that
this is what strings amount to.

**`FdTable`** - `_update_fd_table_index` entry by entry, between the calls that store and clear.
`TinyFS` has its result (`NextFd`), which is what `FirstUnused` says.

**`TinyFSOwners`** - the invariant `Ownership`, on which the proofs about `TinyFSClient` rest: for
each point a call can be at, which pointers on the disk have been given up already (`given`),
which block the call has in hand (`hand`), what the free list is (`list`), and what the calls of
`tfs_removeAll` that wait on the stack will write back when they go on (`Waiting`). For a process
that may die it has `Leftovers`, where the pointers given up lead if the process dies here,
`Crashed`, what is known of the disk once it has, and `Recovers`, that one of the two holds.

**`TinyFSStory`** - the invariant `Story`, on which the proof of the refinement rests: for each
point a call can be at, what the disk and the descriptors still have in common with the tree and the
descriptors there were when it began (`Kept`, `Unopened`), what the call is busy with (`Makes`, `Fills`,
`Clears`), and what the work it has left is for (`Within`, `Finds`, `Aim`).

**`TinyFSProofs`, `DisksProofs`, `TimesProofs`** - the theorems about one module each;
**`HelpersProofs`** - those about `Paths` and `FdTable`.

**`OwnersLemmas`, `OwnersProofs`** - the theorems about `TinyFSClient` that rest on `Ownership`.
`OwnersLemmas` says what each kind of block write does to owners and to where paths lead, on any two
disks, and has the steps that take no block from its owner (starting a call, walking a path,
making a file or a directory, the writes of the scan); `OwnersProofs` has the steps that free,
remove and write, puts them together, and has the theorems; its second half is about crashes: what
the check accepts (`Accepted`), that it does not accept what a crash leaves (the lemmas `Torn...`), and
that every step keeps `Leftovers` (the lemmas `Left...`).

**`StoryLemmas`, `StoryProofs`** - the refinement. `StoryLemmas` says what each kind of write does to
the tree that is read off a disk and what a path leads to in it, then has the calls that are one step,
formatting, the removals and `tfs_writeFile`; `StoryProofs` has the walks, the making of files and
directories and the scan of `tfs_removeAll`, puts all actions together, and ends with the
theorems.

**`MCFiles`, `MCDirs`, `MCAnyClient`, `MCTimes`, `MCDisks`, `MCHelpers`** give the paths, trees and
images of the instances, and the symmetry. `MCHelpers` puts `Paths` and `FdTable` in one run: they
share no state, and one rests while the other moves.

Every module has a few definitions that its comment calls mistakes. They are alternatives to
the definition that follows them, and show that the property they would break can be broken.

## Runs

| Run | Question | Instance |
|---|---|---|
| `MCFiles` | do reads and writes through descriptors that share files do what a file system does? | 5 blocks of 2 bytes, 2 names, 2 descriptors, files of 1 and 2 blocks |
| `MCSessions` | is the disk mountable between any calls, over sessions, removals and renames? | 4 blocks, sizes 0 and 3, mkfs and unmount, two names for files and directories, 2 descriptors (`tfs_rename` does not take the first) |
| `MCDirs` | directories, `tfs_removeAll` of subtrees and of the root, opening with the table full, and the listing | 4 blocks, 1 descriptor, paths of two levels, one refused name; without the promises `fdsRoom` and `rootStays`; `Story` at every write |
| `MCCrash` | is every torn image refused? | 4 blocks, crashes between all writes |
| `MCTimes` | do the times say when files were made, opened and written? | 4 blocks, 2 descriptors, a clock of two readings, crashes |
| `MCAnyClient` | what holds whatever is called? | 3 blocks of 1 byte, 2 descriptors, no promise, crashes |
| `MCReturns` | does every call return, whatever is called? | the same with 1 descriptor, files of one block too, and a refused name |
| `MCDisks` | which images are mounted, and through which descriptor? | 2 host files, 3 descriptors, 8 blocks and bytes of 8 values, 11 images of other origin |
| `MCHelpers` | what do strings mean as paths, and which descriptor is found? | all 1,365 strings of up to 5 characters over a slash, two letters and a control character; names of 2 characters; a table of 4 |
| `MCSignedSize`, `MCRemoveRoot` | a promise dropped: the disk is no longer mountable | as above |
| `MCTornRewrite` | a promise dropped: a torn image is mounted | as above |

Why these bounds are enough: a defect of this code needs a block to change hands once or
twice. Four blocks hold the superblock, a directory or a file inode, and two blocks to be
freed and taken again in the other order; five hold two files, one with data. Two bytes per
block give a boundary between blocks and a size that does not fill the last one.
`MCSignedSize` uses the real 252 bytes and byte range, with sizes 252 and 255. Two
descriptors give a file open twice and a full table. `Slots` (252 pointers in the
superblock, 210 in an inode) never runs out on at most 128 blocks: `AddressAssumption` asks for
`Slots >= NumBlocks - 1`, and the real limits satisfy it for the checker's narrower window of
164 pointers too. Symmetry is used for names, buffers and host files, which are only compared.

`MCAnyClient` and `MCReturns` go through disks no careful caller produces (directories written
as files, lists that lead back to themselves): exactly those matter for what holds of every
caller. They are the smallest instances with all of them (in `MCReturns` it
takes files of one and of two blocks for a directory to end up in itself); the theorems are about every other.

`MCDisks` keeps the proportion of the real limits: as many blocks as a byte has values, of
which the upper half cannot be addressed (there 256, 256 and 128). Its sizes are one byte too
few for a block, one block, half a block too much, the largest that can be mounted, one
more, and one too many. The 11 images are a sound one with a directory, a file and its data, and
ones that differ from it in one thing each: a wrong size, an unreachable block, a
reference to itself, to a block of another kind or out of the image, a free list that leads
back to itself, a last block that is not whole, no block at all. Three descriptors are enough
for one that leaks, one that is mounted and one to be refused.

`MCHelpers` has strings long enough for two names with a slash in front, between and behind,
for two slashes in a row, and for a name that is one character too long; names on its disk
include one a rename could have given and no path can have.

A clock of two readings tells only "before" from "not before" a call, which is all the
properties compare.

Fairness: `FairSpec` is `WF_vars(Step)`. The library has one thread, the caller's; it does not
wait for anything, so it goes on with the call until it returns or the process ends. Nothing
is assumed of the caller. `CallsReturn` says that then no call runs forever.

## Disagreements found

Each is a run that is expected to be violated, with its source line and the sentence it
disagrees with under `findings` in `PROJECT.json`:

1. `MCSignedSize`: a file of 255 bytes makes the disk unmountable, through a sign extension
   (`libTinyFS_helpers.c:79`).
2. `MCRemoveRoot`: so does `tfs_removeAll("/")` on a root with files (`tinyFS.c:744`).
3. `MCTornRewrite`: a crash while two blocks are rewritten can leave a disk that the check
   accepts although one block is in the file twice (`tinyFS.c:309`).

More can be read off the modules, and no run is spent on them:

- Take a promise out of the configuration of `MCSessions` or `MCDirs` and TLC shows why it is
  there. Without `noShrink`, a file that is rewritten with fewer blocks keeps pointing to blocks of
  the free list, and the disk is not mountable (`tinyFS.c:334`). Without `fits`, a write that runs out of space leaves a disk that is not mountable
  (`tinyFS.c:311`). Without `fdsRoom`, `tfs_openFile` takes a block for a new inode before it looks
  for a descriptor, and loses it when there is none (`tinyFS.c:197`). Without `filesOnly`, a
  directory can be opened and written as a file (`tinyFS.c:172`).
- `Rename`: an open file may refuse to be renamed, since `tfs_rename` does not take descriptor 0
  (`tinyFS.c:480`), the first that `tfs_openFile` hands out.
- `Hidden`: a file renamed to the name of a directory beside it (`tinyFS.c:499` does not look) comes
  first where its slot does, and then no path leads through or to the directory: it cannot be
  entered or removed until the file is renamed or deleted through a descriptor.
- `FreshMounts`: `tfs_mkfs` accepts up to 256 blocks (`tinyFS.h:30`, "max blocks is 256"), and no
  mount accepts more than 128 of them, since addresses are read as signed bytes.
- `RenamesStamped`, `OthersStamped`: `README:42` says that `tfs_rename` determines the modified time
  and `tfs_readByte` the access time. `tfs_rename` stores the time of creation (`tinyFS.c:494`), and
  the time `tfs_readByte` takes is in a buffer that is never written.
- `BeginPath`: `README:11` says that a path may leave the leading slash out; `tfs_createDir` refuses
  that (`tinyFS.c:559`).
- `Descend`: the heap buffer of a nested path has room for the size of a pointer and two bytes
  (`tinyFS.c:753`). A longer path is written over what follows it.
- `Strays`: the host's descriptor of every formatted and of every refused image stays open
  until the process ends (`tinyFS.c:32`, `:109`).

## Proofs

Each theorem is about every value of the constants that satisfies the named assumptions.
`LayoutAssumption` is what `tinyFS.h` gives: sizes of a block and of a byte, and at most as many
blocks as a byte has values.
`AddressAssumption` (for the file system, not for `Disks`) says that the disk has at most half as
many, which `FreshMounts` shows to be what a mount lets through, and as many slots as other
blocks. `CallsAssumption` says that paths are not empty and that sizes fit the pointers of an
inode, which `tfs_writeFile` does not check. The others give constants their types, and the disk that
`Paths` walks on its parents.

`TinyFSProofs`, for every caller:

- `TypeCorrect`: `Spec => []TypeOK`;
- `SuperblockSurvives`: `Spec => []SuperblockIntact`;
- `NothingWithoutDisk`: `Spec => []UnmountedIsQuiet`.

The argument. `TypeOK` is inductive by itself: the interesting part is that every step a
handler leaves on `todo` carries addresses on the disk and an inode whose size is one that
was asked for, wherever they were read from. The other two are not inductive. That block 0
is never written over depends on the *pending* work: a free, fill or new inode step whose
block is 0, or a rewrite of the root with a copy that is no superblock, would break it later.
That nothing runs without a disk depends on what the stack may hold: while `mounted` is false,
only formatting. `Working` says both: `todo` is empty, or one formatting step, or `mounted`
holds and every step on the stack is either one of `tfs_writeFile`'s (`Writing`, which take
their inode's address from a descriptor that stays open) or one of the others (`Other`), with
the addresses they will write different from 0. `Inv` is `TypeOK`, the two properties and
`Working`. There is one lemma per action for the types (`Type...`) and one for the rest
(`Safe...`), and lemmas for what starting, resuming and ending a call does to the stack.

`DisksProofs`, for any number of host files, descriptors, and any images that were there before:

- `TypesHold`, `MountedStaysOpen`: the mounted disk has an open descriptor, on its file;
- `AcceptedSound`: an image that is mounted is `Sound`. The invariant, `IInv`, has the progress of the
  recursion (`Progress`): a marked block has a good header and is referred to; the references of a
  frame in front of where it is have all been followed to a marked block of the right kind; a marked
  block is on the stack or `Complete`. When the stack is empty and all marks are set, that is
  soundness. This is why it does not matter that marks are set too early;
- `FinishedOnly`: what is mounted was finished by `tfs_mkfs` or was there before. The invariant,
  `Making`, says that every image is one of those, or has no superblock yet;
- `FreshMountsHold`: a finished image is accepted exactly up to half of the byte's values. The
  invariant, `FreshInv`, gives the stack of the check on it: the chain of free blocks, frame by frame;
- `LeaksBounded`: who leaves descriptors open.

`OwnersProofs`, for a program that keeps four promises (`Mindful`: `filesOnly`, `noShrink`, `fits`,
`unmountFirst` are in `Promises`) and a process that does not die (`Careful`: `Mindful`, and
`"crash"` is not in `Calls`), for every disk, table of descriptors, set of paths, names and sizes, and any
choice of calls:

- `NeverTwoOwners`: between calls no two of the free list, the directories and the files lead to one
  block, and none to a block of another kind;
- `EveryBlockOwned`: a program that also keeps `fdsRoom` and `rootStays` (`LosesNone`) loses no
  block;
- `DescriptorsStayLive`: a descriptor is closed or leads to a file in a directory;
- `ReadsAreRight`: `tfs_readByte` returns the byte at the file's offset;
- `BlocksHaveOwners`: `Ownership`, from which these follow, at every write and not only between calls.

`MCFiles`, `MCSessions` and `MCDirs` are instances of `Careful`, the first two also of `LosesNone`.
The four are needed: what happens without one is listed under the disagreements above.

The argument. `OneOwner` is about disks at rest; it is not inductive, because almost no write keeps
it. A call that frees a block clears it, then puts it on the list, and clears the pointer to it
last; `tfs_writeFile` frees all blocks of a file and goes on writing an inode that still points to
them; `tfs_removeAll` has copies of the directories above the one it is in and writes them back
when all below is gone. `Ownership` names for each of these points what does not count:
pointers that are given up, and the one block in hand. What is left is again a sound
disk. Two parts of it are not about owners, and without them it would not be inductive:
`DirNames` (no directory holds two directories of one name), since `tfs_removeAll` removes a directory
by its path and not by its block, and must come to the one it has just emptied; and `Leads`, which
says that the path of each waiting call still leads to its directory, because
what is removed below it is on no such path. That `tfs_writeFile` finds a block each time it
takes one follows from counting: blocks of the list and blocks taken are always as many
as the size asked for.
Before it was proved, `Ownership` was explored with TLC on a small instance, with its lists and stacks
(sets that TLC cannot enumerate) replaced by bounded ones; no run of the project does that, as it
would need definitions replaced.

And for a process that may die between any two writes, any number of times:

- `AcceptedDisksAreSound`: if the program is `Mindful` and `LosesNone` and rewrites only files of one
  block (`smallRewrites`), a disk that `tfs_mount` accepts has one owner for each block, and keeps it
  as the next process goes on. `MCCrash` is an instance; `MCTornRewrite` shows that
  `smallRewrites` is needed.

The argument. A crash leaves pointers that were given up, so `Ownership` does not hold of the disk it leaves. The
invariant is `Recovers`: a process is at work, with `Ownership` and `Leftovers`; or it died
(`Crashed`), and if the check accepts the disk, the disk is sound. The second holds until a call of
`tfs_mount` or `tfs_mkfs`, as all others are refused. What the check accepts is `Checked`
(`Accepted`): blocks have the type of the pointers to them, and whatever is closed under references and
has block 0 is the whole disk, that is, every block is reached. For that the walk is followed
(`Tracked`): what is marked or still on the stack has been referred to, and all references of what is marked are
marked or on the stack. A torn disk is not `Checked` as long as a pointer that was given up leads to
a block that was freed or a block is in nobody's hands but the call's; that is what `Leftovers` says of each
point of a call: of a file that is being released, the first pointer leads to a freed block from the
first step on, and is replaced last; of a file that is being rewritten, the only pointer leads to
the next block that is taken from the list. `Leftovers` too was explored with TLC, on the constants of `MCCrash` and
with bounded lists, before it was proved.

`StoryProofs`, for the same programs and every value of the constants:

- `TinyFSIsAFileSystem`: `ClientSpec => ImplementsFileSystem`. What such a program sees of TinyFS is
  the abstract file system, with the tree read off the disk between calls as its tree: every call is
  one request that is answered in one step, with all of its effect or refused with none;
- `StoryAlways`: `Story`, at every write;
- `AlwaysMountable`: the disk such a program leaves after any call passes the check of `tfs_mount`, if
  it also loses no block (`LosesNone`) and writes only sizes whose four bytes the check reads back
  (`goodSizes`; without it, `MCSignedSize`).

The argument. A step of `TinyFSClient` starts a call (and `FileSystem` is asked, or asked and answered
at once when the call is one step), goes on with one (a stutter: `settled` and `asked` stay), or is the last of one
(and `FileSystem` answers). `Good` says this of a step, together with `Story'`, and there is one
lemma per action that shows it. The last step is the hard one: it must leave exactly the tree that the
answer promises, and what the steps before it left of the tree is nowhere in the state but on
the disk. `Story` says what that is. `Kept` compares the disk with `settled.tree` but for the nodes that are gone
and those the call is busy with, and the work on the stack names the latter: a block that is about
to be unlinked may be torn, and no other. For `tfs_writeFile`, all blocks before the one at hand have the new bytes
at the new place. For `tfs_removeAll`, what is gone lies below the directory it was called on
(`Below`), and the copies on the stack have no entry left in front of where they are, so that the
directory is empty when the walk of `tfs_removeDir` comes to it. `Ownership` is needed beside it: that a
write to one block changes one node of the tree, and no other file's bytes, is what sole
owners are for. No induction is needed for
paths: `Leads` on the disk and `At` in the tree both name the directories on the way, and a step of a
walk adds one; and `Below` is the least set closed under children. `DirsReadable` and `Bytes` are two
more: no directory has a name the parser refuses, and what has a size is a file with blocks.
That the program promises little matters here: with `fdsRoom` and `rootStays` dropped, the
refinement still holds, since what is then lost is blocks, and the tree does not have them.

`Mountable` compares the state with what a recursion over an image returns. That a disk at rest is
right is `Coherent`: every block has a good header and size, a pointer leads to a block of the kind it is
followed as, and there are two things the check asks for without saying so: only one reference leads to a
block, and whatever is closed under references and has block 0 is the whole disk. The
invariants beside `Story` and `Ownership` are `Legible` (each block's header and size are good while its owner
is not the file being written; the inode `tfs_writeFile` holds has a good size already) and
`Healthy`, about the abstract file system alone: all its nodes are below the root (`Rooted`), without which a
cycle of directories would be owned and never be reached. That a coherent disk passes
(`CoherentPasses`) is shown without the library's induction: `GoesWell` holds of every walk the check
comes to (what is still to be visited are blocks not yet seen, each once, at most as deep as there are blocks
seen), each step makes `Remaining` less, and a walk with the least `Remaining` that had no verdict `"ok"`
would lead to one with less (`LeastNumber`). `CheckRuns` says that the function `MountCheck` is defined
by takes these steps.

`TimesProofs`, for every program, with crashes at any point: `DatesOnlyGrow`, that no date in an inode
is replaced by an earlier one. The invariant, `Dated`, says that no date is in the future, and that
the copy `tfs_writeFile` keeps is never older than the inode its descriptor leads to,
for as long as there is work on the stack that will store it.
And `FilesDated`, for the programs `OwnersProofs` is about: what a call that has succeeded opened,
made or wrote is dated no earlier than the call began. The property compares dates with the tree
before the call, and the time is taken early: `tfs_writeFile` has it in its copy, and
the copy reaches the disk with the first block it stores. `Dating` says, while a call runs, that an
inode which is not in `settled.tree` is dated no earlier than the call began, that the copy of
`tfs_writeFile` is, and the inode on the disk once a block is stored; and that a write that stores no
block changes no bytes. `Story` tells what the end of a call can be the end of: `tfs_openFile`
returns the descriptor of the file it just stamped or of one that was not there (`OpenEnds`), and
`tfs_writeFile` returns no sooner than all blocks are stored (`WriteEnds`). What a call may have
changed at all is taken from the abstract file system (`AnswerChanges`), by the refinement.

`HelpersProofs`, for every string and tree: `ParserStaysInside` (no character is read behind the
terminator, no more than `FILENAME_LENGTH` written) and `CreatedAreNamed`. Both need
`NameInv`: a name that is being read did not start at the terminator and is readable so far.

and for a table of every length: `TableReadInside` and `SearchFindsFirst`, from
`SearchInv`: what each loop has passed is in use, and the loops count what they read.

Only model-checked:

- `CheckIsMountCheck`: it compares the steps of the check in `Disks` with the recursion of `MountCheck` on any
  image, also one with cycles, where no measure of what remains goes down;
- `ListingIsTheTree`, `AnswersByName` and `NestedLeadsToChild`, whose reference is a recursion over
  trees or cuts strings: that needs an induction over data, and the installed provers cannot
  instantiate the library's induction theorems. Where an induction over numbers is needed
  above, it is done by the least counterexample (`LeastNumber`);
- `CallsReturn`, a liveness property, which is out of the prover's reach.

## Not modelled

- Descriptors outside `0 .. FD_TABLESIZE - 1` and negative sizes: no function checks for
  them, and what happens then is up to the memory around the arrays.
- The bytes of a file seen as inode fields, when a data block is read as an inode: taken as
  what the block held before the data.
- A failed `malloc`, `read`, `lseek`, `fstat` or `close` of the host, null arguments. In `TinyFS`, a
  failed write: the host disk is full only in `Disks`.
- Two images at work in one history of files: `Disks` has several, and only formats, mounts and
  unmounts them; `TinyFS` has one, with everything that is done to it while it is mounted.
- The safety byte, which only the check reads and every writer sets; how `ctime` prints a time;
  that a listed name is printed up to its zero byte.
- The demo, the tests and the build files: callers of the library. Their sequences of calls
  guided the choice of calls and sizes.

## Plan

Done: the layout, the program, the abstract specification and its client, the disk life cycle with
the check step by step, paths as strings, the table of descriptors, times, the listing, and
the proofs above. What is left, in this order:

1. `SizeCodec`: sizes and offsets as four bytes, written, read by `tfs_readByte` and by the
   check, over the real byte range; where the three agree.
2. Weaker promises, as `MCDirs` has them: what still holds of a program that writes fewer blocks than
   before, or more than there is room for.
