------------------------------ MODULE FdTable ------------------------------
(***************************************************************************)
(* The search for an unused descriptor, _update_fd_table_index             *)
(* (libTinyFS_helpers.c), one entry of fd_table per step, between the      *)
(* calls that open and close.  Its two loops count with one variable and   *)
(* read the table at another, which is left where the search ends.         *)
(*                                                                         *)
(* FromStart and ToTheEnd are mistakes the definition that follows each    *)
(* could have made; nothing uses them.                                     *)
(***************************************************************************)
EXTENDS Integers

CONSTANTS
  FD_TABLESIZE,
  Inodes         \* blocks of the inodes that are opened

ASSUME TableAssumption == FD_TABLESIZE \in Nat /\ FD_TABLESIZE >= 1
ASSUME InodesAssumption == Inodes \subseteq Nat \ {0}

VARIABLES
  fd_table, fd_table_index,
  loop,      \* the loop of the search that runs, 0 for none
  turns,     \* its counter
  original,  \* where the search started
  fd         \* what it returned last

fdVars == <<fd_table, fd_table_index, loop, turns, original, fd>>

EMPTY_TABLEVAL == 0
ERR_OUT_OF_FDS == -31
NONE == -100  \* no search has returned

FDs == 0 .. FD_TABLESIZE - 1
Unused(n) == fd_table[n] = EMPTY_TABLEVAL

FdInit ==
  /\ fd_table = [n \in FDs |-> EMPTY_TABLEVAL]
  /\ fd_table_index = 0
  /\ loop = 0 /\ turns = 0 /\ original = 0
  /\ fd = NONE

FromStart == 0
Counter == fd_table_index
Search ==
  /\ loop = 0
  /\ loop' = 1
  /\ turns' = Counter
  /\ original' = fd_table_index
  /\ fd' = NONE
  /\ UNCHANGED <<fd_table, fd_table_index>>

(* The second loop starts at the first entry.                              *)
ToTheEnd == FD_TABLESIZE - 1
Limit == IF loop = 1 THEN FD_TABLESIZE ELSE original

Found(inode) ==
  /\ loop # 0 /\ turns < Limit
  /\ Unused(fd_table_index)
  /\ fd_table' = [fd_table EXCEPT ![fd_table_index] = inode]
  /\ loop' = 0 /\ turns' = 0 /\ original' = 0
  /\ fd' = fd_table_index
  /\ UNCHANGED fd_table_index

GoOn ==
  /\ loop # 0 /\ turns < Limit
  /\ ~ Unused(fd_table_index)
  /\ fd_table_index' = fd_table_index + 1
  /\ turns' = turns + 1
  /\ UNCHANGED <<fd_table, loop, original, fd>>

Wrap ==
  /\ loop = 1 /\ turns >= Limit
  /\ fd_table_index' = 0
  /\ loop' = 2
  /\ turns' = 0
  /\ UNCHANGED <<fd_table, original, fd>>

GiveUp ==
  /\ loop = 2 /\ turns >= Limit
  /\ loop' = 0 /\ turns' = 0 /\ original' = 0
  /\ fd' = ERR_OUT_OF_FDS
  /\ UNCHANGED <<fd_table, fd_table_index>>

(* tfs_closeFile, and tfs_unmount, which leaves fd_table_index alone.      *)
Close(n) ==
  /\ loop = 0
  /\ ~ Unused(n)
  /\ fd_table' = [fd_table EXCEPT ![n] = EMPTY_TABLEVAL]
  /\ UNCHANGED <<fd_table_index, loop, turns, original, fd>>
CloseAll ==
  /\ loop = 0
  /\ fd_table' = [n \in FDs |-> EMPTY_TABLEVAL]
  /\ UNCHANGED <<fd_table_index, loop, turns, original, fd>>

FdNext ==
  \/ Search \/ GoOn \/ Wrap \/ GiveUp \/ CloseAll
  \/ \E inode \in Inodes : Found(inode)
  \/ \E n \in FDs : Close(n)

FdSpec == FdInit /\ [][FdNext]_fdVars

---------------------------------------------------------------------------
(* The table is only read inside: the index passes its end between the     *)
(* loops, and is inside again whenever the search returns, full table or   *)
(* not.                                                                    *)
FdTypeOK ==
  /\ fd_table \in [FDs -> Inodes \cup {EMPTY_TABLEVAL}]
  /\ fd_table_index \in 0 .. FD_TABLESIZE
  /\ loop \in 0 .. 2
  /\ turns \in 0 .. FD_TABLESIZE
  /\ original \in FDs
  /\ fd \in Int
  /\ loop = 0 \/ turns < Limit => fd_table_index \in FDs

(* Steps from where the search started.                                    *)
Turn(n) == IF n >= original THEN n - original ELSE n - original + FD_TABLESIZE

(* The search takes the first unused entry on its way around the table;    *)
(* it fails only when there is none, and then leaves the index where it    *)
(* was.                                                                    *)
FirstUnused ==
  [][loop # 0 /\ loop' = 0 =>
       \/ /\ fd' \in FDs
          /\ Unused(fd')
          /\ \A n \in FDs : Unused(n) => Turn(fd') <= Turn(n)
       \/ /\ fd' = ERR_OUT_OF_FDS
          /\ \A n \in FDs : ~ Unused(n)
          /\ fd_table_index' = original]_fdVars

=============================================================================
