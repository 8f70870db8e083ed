---------------------------- MODULE MCExtension ----------------------------
(* Values of Extension's constants for TLC. *)
EXTENDS Extension

\* What the first invocation logs is below the level.
OneExcluded == {<<1, 1>>}
NoneExcluded == {}
=============================================================================
