-------------------------------- MODULE MCFs --------------------------------
(***************************************************************************)
(* Small instances of Fs for TLC.                                          *)
(***************************************************************************)
EXTENDS Fs, TLC

CONSTANTS sh, f, v, w, h1, h2

Names    == {sh, f}
Values   == {v, w}
Handles  == {h1, h2}

\* Neither the code nor the properties tell handles or contents apart.
Symmetry == Permutations(Handles) \cup Permutations(Values)
=============================================================================
