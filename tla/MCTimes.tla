------------------------------- MODULE MCTimes -------------------------------
(* A file of one or two blocks, in the root or in a directory.             *)
EXTENDS TinyFSTimes

CONSTANT a

TimedPaths == {<<a>>, <<a, a>>}

=============================================================================
