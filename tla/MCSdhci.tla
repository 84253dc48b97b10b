------------------------------- MODULE MCSdhci -------------------------------
(***************************************************************************)
(* A small instance of Sdhci for TLC.                                      *)
(***************************************************************************)
EXTENDS Sdhci, TLC

CONSTANT b1

\* An address in bytes of the one is the address in blocks of the other.
Lbas     == {1, 512}
Buffers  == {b1}
First(l) == l
=============================================================================
