----------------------------- MODULE MCAnyClient -----------------------------
(***************************************************************************)
(* A program that calls whatever it likes, on three blocks; ctl is a name  *)
(* with a character that paths may not have.                               *)
(***************************************************************************)
EXTENDS TinyFS

CONSTANTS a, ctl

NestedPaths == {<<a>>, <<a, a>>}
RefusedToo == {<<a>>, <<ctl>>}
SomeOffsets == {-1, 0, 3}

=============================================================================
