------------------------------ MODULE MCConsole ------------------------------
(***************************************************************************)
(* A small instance of Console for TLC.                                    *)
(***************************************************************************)
EXTENDS Console, TLC

CONSTANTS p1, p2

Readers == {p1, p2}
=============================================================================
