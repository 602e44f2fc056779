------------------------------ MODULE MCHelpers -----------------------------
(***************************************************************************)
(* The helpers that have state of their own: either paths are looked up,   *)
(* or descriptors are taken and given back.  Neither reads what the other  *)
(* writes, so that one rests while the other runs.                         *)
(***************************************************************************)
EXTENDS Paths, FdTable

(* "!" is a control character.                                             *)
MCChars == {"/", "a", "b", "!"}
MaxPath == 5
MCStrings == UNION {[1 .. n -> MCChars] : n \in 0 .. MaxPath}

a == <<"a">>
ab == <<"a", "b">>
bad == <<"!">>
MCDirs == {<<>>, <<a>>, <<ab>>, <<bad>>, <<a, a>>, <<a, bad>>, <<a, a, ab>>}
MCFiles == {<<<<"b">>>>, <<a, ab>>, <<<<"b", "!">>>>}

MCInit == PathInit /\ FdInit
MCNext ==
  \/ FdInit /\ PathNext /\ UNCHANGED fdVars
  \/ PathInit /\ FdNext /\ UNCHANGED pathVars
MCSpec == MCInit /\ [][MCNext]_<<pathVars, fdVars>>

=============================================================================
