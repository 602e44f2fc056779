------------------------------ MODULE MCFiles ------------------------------
(* A flat root directory with two files or directories. *)
EXTENDS TinyFSClient, TLC

CONSTANTS one, two

FlatPaths == {<<one>>, <<two>>}
Interchangeable == Permutations(Names) \cup Permutations(Tags)

=============================================================================
