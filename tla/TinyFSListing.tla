--------------------------- MODULE TinyFSListing ---------------------------
(***************************************************************************)
(* What tfs_readdir prints (tinyFS.c) and _print_directory_contents below  *)
(* it: a line for each entry of a directory, the entries of a directory    *)
(* under its own line and further to the right.                            *)
(*                                                                         *)
(* SameTabs is a mistake the definition that follows it could have made;   *)
(* nothing uses it.                                                        *)
(***************************************************************************)
EXTENDS TinyFSClient

LOCAL Seqs == INSTANCE SequencesExt

SameTabs(tabs) == tabs
Inner(tabs) == tabs + 1

(* The lines of a directory's entries.  The recursion ends on a disk whose *)
(* directories are not below themselves.                                   *)
Contents(d) ==
  LET lines[dir \in Addr, tabs \in 0 .. NumBlocks] ==
        LET used == SelectSeq(d[dir].ptr, LAMBDA n : n # 0)
            entry(n) ==
              <<[name |-> d[n].name, tabs |-> tabs]>>
                \o (IF d[n].kind = "dir" THEN lines[n, Inner(tabs)] ELSE <<>>)
        IN  Seqs!FlattenSeq([k \in DOMAIN used |-> entry(used[k])])
  IN  lines

ReadDir(d) == Contents(d)[SUPERBLOCK_DISKLOC, 0]

---------------------------------------------------------------------------
(* The listing read back: the line of the directory a line is under.       *)
Under(lines, k) ==
  {j \in 1 .. k - 1 :
     /\ lines[j].tabs < lines[k].tabs
     /\ \A i \in j + 1 .. k - 1 : lines[i].tabs >= lines[k].tabs}
LinePath(lines) ==
  LET path[k \in DOMAIN lines] ==
        (IF Under(lines, k) = {} THEN <<>> ELSE path[MinOf(Under(lines, k))])
          \o <<lines[k].name>>
  IN  path

NodePath(tree) ==
  LET path[n \in DOMAIN tree] ==
        (IF tree[n].dir \in DOMAIN tree THEN path[tree[n].dir] ELSE <<>>)
          \o <<tree[n].name>>
  IN  path

(* The listing is the tree: read back by its indentation, each path of     *)
(* names is on as many lines as there are files and directories with that  *)
(* path, whatever was created and removed before.                          *)
ListingIsTheTree ==
  Idle /\ mounted =>
    LET lines == ReadDir(disk)
        at    == LinePath(lines)
        path  == NodePath(settled.tree)
    IN  /\ Len(lines) = Cardinality(DOMAIN settled.tree)
        /\ \A n \in DOMAIN path :
             Cardinality({k \in DOMAIN at : at[k] = path[n]}) =
               Cardinality({m \in DOMAIN path : path[m] = path[n]})

=============================================================================
