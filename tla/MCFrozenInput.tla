--------------------------- MODULE MCFrozenInput ---------------------------
(* Instances of FrozenInput: a loop of three iterations, which is what it  *)
(* takes to review a text, another, and the first again.                   *)
EXTENDS FrozenInput
=============================================================================
