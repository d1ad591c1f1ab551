-------------------------- MODULE MCClientAttributes --------------------------
(* Instances of ClientAttributes for TLC.                                  *)
EXTENDS ClientAttributes, TLC

CONSTANTS k1, k2, a1

const_Key == {k1, k2}
const_Axis == {a1}

\* The keys are alike, and all properties are invariants.
Symmetry == Permutations(const_Key)
=============================================================================
