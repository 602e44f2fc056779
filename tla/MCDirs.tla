------------------------------- MODULE MCDirs -------------------------------
(* A directory in the root, with a file and a directory to go in it; ctl   *)
(* is a name with a character that paths may not have.                     *)
EXTENDS TinyFSListing, TinyFSStory

CONSTANTS a, d, ctl

TwoLevels == {<<a>>, <<d>>, <<d, a>>}
TreePaths == TwoLevels \cup {<<d, d>>, <<d, ctl>>}

=============================================================================
