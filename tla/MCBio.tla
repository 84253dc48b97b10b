-------------------------------- MODULE MCBio --------------------------------
(***************************************************************************)
(* A small instance of Bio for TLC.                                        *)
(***************************************************************************)
EXTENDS Bio, TLC

\* An address in bytes of the one is the address in blocks of the other.
Lbas     == {1, 512}
Buffers  == 0 .. 1
First(l) == l

\* All but the history `acked`, which neither a guard nor a property here reads.
View == <<ctlVars, initVars, req, mem, filled, hostVars, cardVars, bufVars>>
=============================================================================
