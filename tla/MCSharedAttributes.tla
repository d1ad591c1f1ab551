-------------------------- MODULE MCSharedAttributes --------------------------
(***************************************************************************)
(* Small instances of SharedAttributes.                                    *)
(***************************************************************************)
EXTENDS SharedAttributes, TLC

\* The application's own subscription is to all keys.
All == {{}}

KeySymmetry == Permutations(Key)
=============================================================================
