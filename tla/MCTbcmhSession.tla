--------------------------- MODULE MCTbcmhSession ---------------------------
(***************************************************************************)
(* Small instances of TbcmhSession.                                        *)
(***************************************************************************)
EXTENDS TbcmhSession, TLC

CONSTANTS a1, a2, c1, p1, p2

\* a1 and a2 ask for attributes, c1 is a two-way RPC, p1 and p2 provision.
KindByName ==
  [r \in Request |-> IF r \in {a1, a2} THEN "attributes"
                     ELSE IF r = c1 THEN "clientrpc" ELSE "provision"]

\* a1 and a2 are interchangeable.
RequestSymmetry == Permutations({a1, a2})
=============================================================================
