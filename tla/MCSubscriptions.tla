--------------------------- MODULE MCSubscriptions ---------------------------
(***************************************************************************)
(* Small instances of Subscriptions.                                       *)
(***************************************************************************)
EXTENDS Subscriptions

CONSTANT k1

\* One key, and all keys.
OneOrAll == {{k1}, {}}
=============================================================================
