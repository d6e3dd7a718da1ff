------------------------- MODULE MCInstanceRegistry -------------------------
(***************************************************************************)
(* Instances of InstanceRegistry for TLC.                                  *)
(***************************************************************************)
EXTENDS InstanceRegistry, TLC

CONSTANTS d1, d2, d3

TwoDevices   == {d1, d2}
ThreeDevices == {d1, d2, d3}

\* The processes differ only in name: where no liveness is checked they may be
\* permuted.
Symmetry == Permutations(TwoDevices)
=============================================================================
