------------------------------- MODULE MCProc -------------------------------
(***************************************************************************)
(* Small instances of Proc for TLC.                                        *)
(***************************************************************************)
EXTENDS Proc, TLC

CONSTANTS c0, c1

OneCPU  == {c0}
TwoCPUs == {c0, c1}
=============================================================================
