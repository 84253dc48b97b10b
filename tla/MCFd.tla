-------------------------------- MODULE MCFd --------------------------------
(***************************************************************************)
(* Small instances of Fd for TLC.                                          *)
(***************************************************************************)
EXTENDS Fd

CONSTANTS i1, x1

Files == {i1}
Pages == {x1}
=============================================================================
