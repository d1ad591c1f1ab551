---------------------------- MODULE MCOtaUpdate ----------------------------
(***************************************************************************)
(* Small instances of OtaUpdate.                                           *)
(***************************************************************************)
EXTENDS OtaUpdate

CONSTANTS v0, v1, v2

\* The factory firmware has one chunk.
SizeOf == [v \in Version |-> IF v = v0 THEN 1 ELSE IF v = v1 THEN 3 ELSE 2]
=============================================================================
