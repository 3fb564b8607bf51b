------------------------------ MODULE MCWakeLoop ------------------------------
(***************************************************************************)
(* Small instances of WakeLoop for TLC.                                    *)
(***************************************************************************)
EXTENDS WakeLoop
=============================================================================
