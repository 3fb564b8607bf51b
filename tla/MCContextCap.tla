----------------------------- MODULE MCContextCap -----------------------------
(***************************************************************************)
(* Small instances of ContextCap for TLC.                                  *)
(***************************************************************************)
EXTENDS ContextCap, TLC

(* Which command is which makes no difference to the safety properties. *)
CommandSymmetry == Permutations(Commands)
=============================================================================
