------------------------------- MODULE MCScreens -------------------------------
(***************************************************************************)
(* Small instances of the Screens' parts for TLC.                          *)
(***************************************************************************)
EXTENDS Screens

CONSTANTS k1, k2, k3  \* children
=============================================================================
