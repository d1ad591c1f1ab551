--------------------------- MODULE RequestPromise ---------------------------
(***************************************************************************)
(* What the client promises of a request with an answer, to the caller of  *)
(* tbcmh_attributes_request and the like (include/tbc_mqtt_helper.h): it   *)
(* is refused, or it is accepted and then answered or expired, once.       *)
(***************************************************************************)
CONSTANT Request

VARIABLE promise

Init == promise = [r \in Request |-> "new"]

Become(r, from, to) ==
  /\ promise[r] = from
  /\ promise' = [promise EXCEPT ![r] = to]

Accept(r) == Become(r, "new", "pending")
Refuse(r) == Become(r, "new", "refused")
Answer(r) == Become(r, "pending", "answered")
Expire(r) == Become(r, "pending", "expired")

Next == \E r \in Request : Accept(r) \/ Refuse(r) \/ Answer(r) \/ Expire(r)

\* An accepted request does not wait forever.
Spec ==
  /\ Init /\ [][Next]_promise
  /\ \A r \in Request : WF_promise(Answer(r) \/ Expire(r))
=============================================================================
