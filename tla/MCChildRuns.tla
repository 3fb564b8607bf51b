----------------------------- MODULE MCChildRuns -----------------------------
(***************************************************************************)
(* Small instances of ChildRuns for TLC.                                   *)
(***************************************************************************)
EXTENDS ChildRuns, TLC

Symmetry == Permutations(Children)
=============================================================================
