----------------------------- MODULE MCChildPool -----------------------------
(***************************************************************************)
(* Small instances of ChildPool for TLC.                                   *)
(***************************************************************************)
EXTENDS ChildPool
=============================================================================
