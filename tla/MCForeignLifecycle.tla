------------------------- MODULE MCForeignLifecycle -------------------------
(***************************************************************************)
(* ForeignLifecycle with the tests and bounds of MCWorldLifecycle.         *)
(***************************************************************************)
EXTENDS ForeignLifecycle, MCWorldLifecycle
=============================================================================
