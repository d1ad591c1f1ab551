----------------------- MODULE TbcmhSessionPromiseProofs -----------------------
(***************************************************************************)
(* Proofs about TbcmhSession: which requests the client may drop, and that *)
(* with one task whose callbacks make no requests it drops none, keeps     *)
(* them subscribed, delivers their answers, and implements the safety part *)
(* of RequestPromise.                                                      *)
(***************************************************************************)
EXTENDS TbcmhSessionProofs

\* What the handlers have taken out of the lists is called back before they
\* take out anything else.
HandsEmpty ==
  /\ current # NoRequest => pc = "respond"
  /\ timeout_list # {} => pc = "timeouts" \/ (pc = "callback" /\ ret = "timeouts")

\* Steps that leave the hands alone, and do not leave a place where they are full.
LEMMA SameHands ==
  ASSUME HandsEmpty, UNCHANGED <<current, timeout_list>>,
         UNCHANGED <<pc, ret>> \/ pc = "idle" \/ (pc = "timeouts" /\ timeout_list = {})
  PROVE  HandsEmpty'
BY DEF HandsEmpty

LEMMA HandsStep == IInv /\ HandsEmpty /\ [Next]_vars => HandsEmpty'
<1> SUFFICES ASSUME IInv, HandsEmpty, [Next]_vars PROVE HandsEmpty'
  OBVIOUS
<1>1. CASE MqttConnected \/ MqttDisconnected
  BY <1>1, SameHands DEF MqttConnected, MqttDisconnected, ConnectionChanges, runner
<1>2. ASSUME NEW r \in Request, MqttAnswer(r) PROVE HandsEmpty'
  BY <1>2, SameHands DEF MqttAnswer, runner
<1>3. CASE TimerFires \/ Tick
  BY <1>3, SameHands DEF TimerFires, Tick, runner
<1>4. ASSUME NEW t \in Tasks, NEW r \in Request, RequestStep(t, r) PROVE HandsEmpty'
  BY <1>4, SameHands DEF RequestStep, Subscribe, Publish, Insert, runner
<1>5. ASSUME NEW k, NEW found, OnData(k, found) PROVE HandsEmpty'
  <2>1. pc = "idle" /\ UNCHANGED timeout_list
    BY <1>5 DEF OnData, Receive
  <2>2. timeout_list = {} /\ current = NoRequest
    BY <2>1 DEF HandsEmpty
  <2>3. UNCHANGED current \/ pc' = "respond"
    BY <1>5 DEF OnData
  <2> QED BY <2>1, <2>2, <2>3 DEF HandsEmpty
<1>6. CASE CallResponse
  BY <1>6 DEF CallResponse, HandsEmpty
<1>7. CASE ReturnFromCallback
  <2>1. ret \in {"idle", "timeouts"}
    BY DEF IInv, TypeOK, RunnerType
  <2> QED BY <1>7, <2>1 DEF ReturnFromCallback, HandsEmpty
<1>8. CASE OnConnected \/ OnDisconnected \/ OnCheckTimeout
  BY <1>8, SameHands DEF OnConnected, OnDisconnected, OnCheckTimeout, Receive
<1>9. ASSUME NEW k, Sweep(k) PROVE HandsEmpty'
  BY <1>9 DEF Sweep, HandsEmpty
<1>10. CASE CallTimeout
  BY <1>10 DEF CallTimeout, EnterCallback, HandsEmpty
<1>11. CASE FinishList
  BY <1>11, SameHands DEF FinishList
<1>12. CASE tbcmh_connect
  BY <1>12, SameHands DEF tbcmh_connect, runner
<1>13. CASE tbcmh_disconnect \/ tbcm_disconnect \/ SweepAfterDisconnect
  BY <1>13, SameHands DEF tbcmh_disconnect, tbcm_disconnect, SweepAfterDisconnect
<1>14. CASE UNCHANGED vars
  BY <1>14, SameHands DEF vars, runner
<1> QED
  BY <1>1, <1>2, <1>3, <1>4, <1>5, <1>6, <1>7, <1>8, <1>9, <1>10, <1>11, <1>12, <1>13, <1>14
  DEF Next, Environment, Api, Handle, Control,
      tbcmh_attributes_request, tbcmh_twoway_clientrpc_request, tbcmh_provision_request,
      attributesrequest_on_data, clientrpc_on_data, provision_on_data,
      attributesrequest_on_check_timeout, clientrpc_on_check_timeout,
      provision_on_check_timeout

LEMMA HandsInit == Init => HandsEmpty
BY DEF Init, HandsEmpty

\* A step keeps what is held, calls it back, or clears a list.
Kept(r) ==
  \/ r \in Held'
  \/ calls'[r] > calls[r]
  \/ pc = "timeouts" /\ why # "timeout" /\ FinishList /\ timeout_list = {}

LEMMA SameHeld ==
  ASSUME pending \subseteq pending', UNCHANGED <<timeout_list, current>>, NEW r \in Held
  PROVE  Kept(r)
BY DEF Kept, Held

LEMMA CalledGrows ==
  ASSUME IInv, NEW r \in Request, NEW result, Called(r, result)
  PROVE  calls'[r] > calls[r]
<1>1. calls \in [Request -> Nat]
  BY DEF IInv, TypeOK, HistoryType
<1> QED BY <1>1 DEF Called

LEMMA KeptStep ==
  ASSUME IInv, HandsEmpty, [Next]_vars, NEW r \in Request, r \in Held
  PROVE  Kept(r)
<1> USE SessionAssumption
<1>1. CASE MqttConnected \/ MqttDisconnected
  BY <1>1, SameHeld DEF MqttConnected, MqttDisconnected, ConnectionChanges, runner, lists
<1>2. ASSUME NEW q \in Request, MqttAnswer(q) PROVE Kept(r)
  BY <1>2, SameHeld DEF MqttAnswer, runner, lists
<1>3. CASE TimerFires \/ Tick
  BY <1>3, SameHeld DEF TimerFires, Tick, runner, lists
<1>4. ASSUME NEW t \in Tasks, NEW q \in Request, RequestStep(t, q) PROVE Kept(r)
  BY <1>4, SameHeld DEF RequestStep, Subscribe, Publish, Insert, runner, lists
<1>5. ASSUME NEW k, NEW found, OnData(k, found) PROVE Kept(r)
  <2>1. timeout_list = {} /\ current = NoRequest /\ r \in pending
    BY <1>5 DEF OnData, Receive, HandsEmpty, Held
  <2>2. UNCHANGED <<pending, timeout_list, current>>
        \/ \E q : pending' = pending \ {q} /\ current' = q
    BY <1>5 DEF OnData, Remove
  <2> QED BY <2>1, <2>2 DEF Kept, Held
<1>6. CASE CallResponse
  <2>1. current \in Request /\ UNCHANGED <<pending, timeout_list>>
    BY <1>6 DEF CallResponse, IInv, HeldOnce, lists
  <2>2. r = current => calls'[r] > calls[r]
    BY <1>6, <2>1, CalledGrows DEF CallResponse
  <2> QED BY <2>1, <2>2 DEF Kept, Held
<1>7. CASE ReturnFromCallback
  BY <1>7, SameHeld DEF ReturnFromCallback, lists
<1>8. CASE OnConnected \/ OnDisconnected \/ OnCheckTimeout
  BY <1>8, SameHeld DEF OnConnected, OnDisconnected, OnCheckTimeout, lists
<1>9. ASSUME NEW k, Sweep(k) PROVE Kept(r)
  <2>1. timeout_list = {} /\ current' = current
    BY <1>9 DEF Sweep, HandsEmpty
  <2>2. \E due : pending' = pending \ due /\ timeout_list' = due
    BY <1>9 DEF Sweep, Remove
  <2> QED BY <2>1, <2>2 DEF Kept, Held
<1>10. CASE CallTimeout
  <2>1. PICK q \in timeout_list : timeout_list' = timeout_list \ {q} /\ Called(q, "timeout")
    BY <1>10 DEF CallTimeout
  <2>2. q \in Request
    BY DEF IInv, TypeOK, RunnerType
  <2>3. r = q => calls'[r] > calls[r]
    BY <2>1, <2>2, CalledGrows
  <2>4. UNCHANGED <<pending, current>>
    BY <1>10 DEF CallTimeout, lists
  <2> QED BY <2>1, <2>3, <2>4 DEF Kept, Held
<1>11. CASE FinishList
  <2>1. CASE why = "timeout"
    BY <1>11, <2>1, SameHeld DEF FinishList, ClearList
  <2>2. CASE why # "timeout"
    BY <1>11, <2>2 DEF FinishList, Kept
  <2> QED BY <2>1, <2>2
<1>12. CASE tbcmh_connect
  BY <1>12, SameHeld DEF tbcmh_connect, runner, lists
<1>13. CASE tbcmh_disconnect \/ tbcm_disconnect \/ SweepAfterDisconnect
  BY <1>13, SameHeld DEF tbcmh_disconnect, tbcm_disconnect, SweepAfterDisconnect, lists
<1>14. CASE UNCHANGED vars
  BY <1>14, SameHeld DEF vars, runner, lists
<1> QED
  BY <1>1, <1>2, <1>3, <1>4, <1>5, <1>6, <1>7, <1>8, <1>9, <1>10, <1>11, <1>12, <1>13, <1>14
  DEF Next, Environment, Api, Handle, Control,
      tbcmh_attributes_request, tbcmh_twoway_clientrpc_request, tbcmh_provision_request,
      attributesrequest_on_data, clientrpc_on_data, provision_on_data,
      attributesrequest_on_check_timeout, clientrpc_on_check_timeout,
      provision_on_check_timeout

\* An accepted request that has got no callback is dropped only when a list is
\* cleared after the end of a connection, whoever makes requests meanwhile: the
\* memset of the *_on_disconnected handlers.
THEOREM DroppedOnlyThen == Spec => DroppedOnlyByDisconnection
<1>1. IInv /\ HandsEmpty /\ [Next]_vars =>
        [\A r \in Request :
           status[r] = "accepted" /\ r \in Held /\ r \notin Held' =>
             calls'[r] > calls[r] \/ (pc = "timeouts" /\ why \in {"disconnected", "stopping"})]_vars
  <2> SUFFICES ASSUME IInv, HandsEmpty, [Next]_vars, NEW r \in Request,
                      r \in Held, r \notin Held'
               PROVE  calls'[r] > calls[r] \/ (pc = "timeouts" /\ why \in {"disconnected", "stopping"})
    OBVIOUS
  <2>1. why \in {"timeout", "disconnected", "stopping"}
    BY DEF IInv, TypeOK, RunnerType
  <2> QED BY <2>1, KeptStep DEF Kept
<1>2. Spec => []HandsEmpty
  BY HandsInit, HandsStep, Invariance, PTL DEF Spec
<1> QED BY <1>1, <1>2, Invariance, PTL DEF Spec, DroppedOnlyByDisconnection

-----------------------------------------------------------------------------
(* One task, whose callbacks make no requests.                             *)

OneTask == Tasks = {Runner} /\ ~CallbackRequests

\* The task is not in a request function and in tbcmh_run at once.
Apart == api[Runner] # Idle => pc = "idle" /\ stopping = "no"

\* A list that was swept for the end of a connection is still empty when it is
\* cleared.
SweptIsEmpty ==
  pc = "timeouts" \/ (pc = "callback" /\ ret = "timeouts") =>
    why = "timeout" \/ Pending(KindOrder[turn]) = {}

LEMMA ApartStep == OneTask /\ IInv /\ Apart /\ [Next]_vars => Apart'
<1> SUFFICES ASSUME OneTask, IInv, Apart, [Next]_vars PROVE Apart'
  OBVIOUS
<1> USE SessionAssumption
<1>1. CASE MqttConnected \/ MqttDisconnected
  BY <1>1 DEF MqttConnected, MqttDisconnected, ConnectionChanges, runner, Apart
<1>2. ASSUME NEW r \in Request, MqttAnswer(r) PROVE Apart'
  BY <1>2 DEF MqttAnswer, runner, Apart
<1>3. CASE TimerFires \/ Tick
  BY <1>3 DEF TimerFires, Tick, runner, Apart
<1>4. ASSUME NEW t \in Tasks, NEW r \in Request, RequestStep(t, r) PROVE Apart'
  <2>1. t = Runner /\ UNCHANGED <<pc, stopping>>
    BY <1>4 DEF OneTask, RequestStep, Subscribe, Publish, Insert, runner
  <2>2. CASE Subscribe(t, r)
    BY <2>1, <2>2 DEF OneTask, Subscribe, InApplication, Apart
  <2>3. CASE Publish(t, r) \/ Insert(t, r)
    <3>1. api[Runner].pc \in {"publish", "insert"}
      BY <2>1, <2>3 DEF Publish, Insert
    <3>2. api[Runner] # Idle
      BY <3>1 DEF Idle
    <3> QED BY <2>1, <3>2 DEF Apart
  <2> QED BY <1>4, <2>2, <2>3 DEF RequestStep
<1>5. ASSUME NEW k, NEW found, OnData(k, found) PROVE Apart'
  BY <1>5 DEF OnData, Receive, Apart
<1>6. CASE CallResponse
  BY <1>6 DEF CallResponse, EnterCallback, Apart
<1>7. CASE ReturnFromCallback
  BY <1>7 DEF ReturnFromCallback, Apart
<1>8. CASE OnConnected \/ OnDisconnected \/ OnCheckTimeout
  BY <1>8 DEF OnConnected, OnDisconnected, OnCheckTimeout, Receive, Apart
<1>9. ASSUME NEW k, Sweep(k) PROVE Apart'
  BY <1>9 DEF Sweep, Apart
<1>10. CASE CallTimeout
  BY <1>10 DEF CallTimeout, EnterCallback, Apart
<1>11. CASE FinishList
  BY <1>11 DEF FinishList, Apart
<1>12. CASE tbcmh_connect
  BY <1>12 DEF tbcmh_connect, runner, Apart
<1>13. CASE tbcmh_disconnect \/ tbcm_disconnect \/ SweepAfterDisconnect
  BY <1>13 DEF tbcmh_disconnect, tbcm_disconnect, SweepAfterDisconnect, Apart
<1>14. CASE UNCHANGED vars
  BY <1>14 DEF vars, runner, Apart
<1> QED
  BY <1>1, <1>2, <1>3, <1>4, <1>5, <1>6, <1>7, <1>8, <1>9, <1>10, <1>11, <1>12, <1>13, <1>14
  DEF Next, Environment, Api, Handle, Control,
      tbcmh_attributes_request, tbcmh_twoway_clientrpc_request, tbcmh_provision_request,
      attributesrequest_on_data, clientrpc_on_data, provision_on_data,
      attributesrequest_on_check_timeout, clientrpc_on_check_timeout,
      provision_on_check_timeout

\* Elsewhere nothing is in the list that was not there, or there is no sweep.
LEMMA SameSwept ==
  ASSUME SweptIsEmpty,
         \/ pending' \subseteq pending /\ UNCHANGED <<pc, ret, why, turn>>
         \/ pc' \notin {"timeouts", "callback"}
         \/ pc' = "callback" /\ ret' = "idle"
  PROVE  SweptIsEmpty'
BY DEF SweptIsEmpty, Pending

LEMMA SweptStep == OneTask /\ IInv /\ Apart /\ SweptIsEmpty /\ [Next]_vars => SweptIsEmpty'
<1> SUFFICES ASSUME OneTask, IInv, Apart, SweptIsEmpty, [Next]_vars PROVE SweptIsEmpty'
  OBVIOUS
<1> USE SessionAssumption
<1>1. CASE MqttConnected \/ MqttDisconnected
  BY <1>1, SameSwept DEF MqttConnected, MqttDisconnected, ConnectionChanges, runner, lists
<1>2. ASSUME NEW r \in Request, MqttAnswer(r) PROVE SweptIsEmpty'
  BY <1>2, SameSwept DEF MqttAnswer, runner, lists
<1>3. CASE TimerFires \/ Tick
  BY <1>3, SameSwept DEF TimerFires, Tick, runner, lists
<1>4. ASSUME NEW t \in Tasks, NEW r \in Request, RequestStep(t, r) PROVE SweptIsEmpty'
  <2>1. t = Runner /\ UNCHANGED <<pc, ret, why, turn>>
    BY <1>4 DEF OneTask, RequestStep, Subscribe, Publish, Insert, runner
  <2>2. CASE Subscribe(t, r) \/ Publish(t, r)
    BY <2>1, <2>2, SameSwept DEF Subscribe, Publish, lists
  <2>3. CASE Insert(t, r)
    <3>1. api[Runner].pc = "insert"
      BY <2>1, <2>3 DEF Insert
    <3>2. pc = "idle"
      BY <3>1 DEF Idle, Apart
    <3> QED BY <2>1, <3>2, SameSwept
  <2> QED BY <1>4, <2>2, <2>3 DEF RequestStep
<1>5. ASSUME NEW k, NEW found, OnData(k, found) PROVE SweptIsEmpty'
  <2>1. pc' \in {"idle", "respond"}
    BY <1>5 DEF OnData, Receive
  <2> QED BY <2>1, SameSwept
<1>6. CASE CallResponse
  BY <1>6, SameSwept DEF CallResponse, EnterCallback
<1>7. CASE ReturnFromCallback
  <2>1. /\ ret \in {"idle", "timeouts"} /\ pc = "callback" /\ pc' = ret
        /\ UNCHANGED <<pending, why, turn>>
    BY <1>7 DEF ReturnFromCallback, IInv, TypeOK, RunnerType, lists
  <2> QED BY <2>1 DEF SweptIsEmpty, Pending
<1>8. CASE OnConnected \/ OnDisconnected \/ OnCheckTimeout
  <2>1. pc' \in {"idle", "sweep"} \/ (pc' = "callback" /\ ret' = "idle")
    BY <1>8 DEF OnConnected, OnDisconnected, OnCheckTimeout, Receive, StartSweep, EnterCallback
  <2> QED BY <2>1, SameSwept
<1>9. ASSUME NEW k, Sweep(k) PROVE SweptIsEmpty'
  <2>1. KindOrder[turn] = k /\ UNCHANGED <<why, turn>>
    BY <1>9 DEF Sweep
  <2>2. why # "timeout" => pending' = pending \ Pending(k)
    BY <1>9 DEF Sweep, Remove
  <2> QED BY <2>1, <2>2 DEF SweptIsEmpty, Pending
<1>10. CASE CallTimeout
  BY <1>10 DEF CallTimeout, EnterCallback, lists, SweptIsEmpty, Pending
<1>11. CASE FinishList
  <2>1. pc' \in {"idle", "sweep"} \/ (pc' = "callback" /\ ret' = "idle")
    BY <1>11 DEF FinishList, EnterCallback
  <2> QED BY <2>1, SameSwept
<1>12. CASE tbcmh_connect
  BY <1>12, SameSwept DEF tbcmh_connect, runner, lists
<1>13. CASE tbcmh_disconnect \/ tbcm_disconnect
  BY <1>13, SameSwept DEF tbcmh_disconnect, tbcm_disconnect, lists
<1>14. CASE SweepAfterDisconnect
  BY <1>14, SameSwept DEF SweepAfterDisconnect, StartSweep
<1>15. CASE UNCHANGED vars
  BY <1>15, SameSwept DEF vars, runner, lists
<1> QED
  BY <1>1, <1>2, <1>3, <1>4, <1>5, <1>6, <1>7, <1>8, <1>9, <1>10, <1>11, <1>12, <1>13, <1>14,
     <1>15
  DEF Next, Environment, Api, Handle, Control,
      tbcmh_attributes_request, tbcmh_twoway_clientrpc_request, tbcmh_provision_request,
      attributesrequest_on_data, clientrpc_on_data, provision_on_data,
      attributesrequest_on_check_timeout, clientrpc_on_check_timeout,
      provision_on_check_timeout

\* The list that is cleared is empty.
LEMMA NothingCleared ==
  ASSUME SweptIsEmpty, FinishList
  PROVE  pending' = pending
BY DEF SweptIsEmpty, FinishList, ClearList

-----------------------------------------------------------------------------
(* What the callers see.                                                   *)

\* What is promised of a request changes only with these.
Same(r) ==
  /\ status'[r] = status[r]
  /\ outcome'[r] = outcome[r]
  /\ r \in Held' <=> r \in Held

\* A request is seen to be called back.
CalledBack(r) ==
  /\ UNCHANGED status
  /\ r \in Held /\ r \notin Held'
  /\ outcome'[r] \in {"response", "timeout", "failed"}

\* The result of a request function is seen.
Begun(r) ==
  /\ status[r] \in {"new", "busy"}
  /\ \/ status'[r] \in {"new", "busy", "refused"}
     \/ status'[r] = "accepted" /\ r \in Held'

\* The requests whose callers see no change are all but r.
SameBut(r) == \A q \in Request \ {r} : Same(q)

\* A step shows at most one caller something.
Shown ==
  \/ \A q \in Request : Same(q)
  \/ \E r \in Request : SameBut(r) /\ (CalledBack(r) \/ Begun(r))

LEMMA SameShown ==
  ASSUME UNCHANGED <<status, outcome, pending, timeout_list, current>>
  PROVE  Shown
BY DEF Shown, Same, Held

LEMMA BegunShown ==
  ASSUME IInv, NEW t \in Tasks, NEW r \in Request, RequestStep(t, r)
  PROVE  Shown
<1> USE SessionAssumption
<1>1. /\ status \in [Request -> {"new", "busy", "accepted", "refused"}]
      /\ api \in [Tasks -> [pc : {"idle", "publish", "insert"}, req : Request \cup {NoRequest}]]
  BY DEF IInv, TypeOK, HistoryType, ApiType
<1>2. UNCHANGED <<outcome, timeout_list, current>>
  BY DEF RequestStep, Subscribe, Publish, Insert, runner
<1>3. pending' = pending \/ (pending' = pending \cup {r} /\ status'[r] = "accepted")
  BY <1>1 DEF RequestStep, Subscribe, Publish, Insert, Leave, lists
<1>4. \A q \in Request \ {r} : status'[q] = status[q]
  BY <1>1 DEF RequestStep, Subscribe, Publish, Insert, Leave
<1>5. SameBut(r)
  BY <1>2, <1>3, <1>4 DEF SameBut, Same, Held
<1>6. status[r] \in {"new", "busy"}
  <2>1. CASE Subscribe(t, r)
    BY <2>1 DEF Subscribe
  <2>2. CASE Publish(t, r) \/ Insert(t, r)
    <3>1. api[t].pc # "idle" /\ api[t].req = r
      BY <2>2 DEF Publish, Insert
    <3> QED BY <3>1 DEF IInv, BusyHasLock
  <2> QED BY <2>1, <2>2 DEF RequestStep
<1>7. status'[r] \in {"new", "busy", "refused"} \/ (status'[r] = "accepted" /\ r \in Held')
  <2>1. CASE Subscribe(t, r)
    BY <1>1, <2>1 DEF Subscribe
  <2>2. CASE Publish(t, r)
    BY <1>1, <1>6, <2>2 DEF Publish, Leave
  <2>3. CASE Insert(t, r)
    BY <1>1, <2>3 DEF Insert, Leave, Held
  <2> QED BY <2>1, <2>2, <2>3 DEF RequestStep
<1> QED BY <1>5, <1>6, <1>7 DEF Shown, Begun

LEMMA CalledShown ==
  ASSUME IInv, NEW r \in Request, r \in Held, NEW result \in {"response", "timeout", "failed"},
         Called(r, result), UNCHANGED status,
         \A q \in Request : q \in Held' <=> q \in Held \ {r}
  PROVE  Shown
<1>1. outcome \in [Request -> {"none", "response", "timeout", "failed"}]
  BY DEF IInv, TypeOK, HistoryType
<1>2. outcome'[r] = result /\ \A q \in Request \ {r} : outcome'[q] = outcome[q]
  BY <1>1 DEF Called
<1>3. SameBut(r)
  BY <1>2 DEF SameBut, Same
<1>4. CalledBack(r)
  BY <1>2 DEF CalledBack
<1> QED BY <1>3, <1>4 DEF Shown

LEMMA StepShows ==
  ASSUME IInv, HandsEmpty, SweptIsEmpty, [Next]_vars
  PROVE  Shown
<1> USE SessionAssumption
<1>1. CASE MqttConnected \/ MqttDisconnected
  BY <1>1, SameShown DEF MqttConnected, MqttDisconnected, ConnectionChanges, runner, lists
<1>2. ASSUME NEW r \in Request, MqttAnswer(r) PROVE Shown
  BY <1>2, SameShown DEF MqttAnswer, runner, lists
<1>3. CASE TimerFires \/ Tick
  BY <1>3, SameShown DEF TimerFires, Tick, runner, lists, history
<1>4. ASSUME NEW t \in Tasks, NEW r \in Request, RequestStep(t, r) PROVE Shown
  BY <1>4, BegunShown
<1>5. ASSUME NEW k, NEW found, found \subseteq pending, OnData(k, found) PROVE Shown
  <2>1. timeout_list = {} /\ current = NoRequest /\ UNCHANGED <<timeout_list, status, outcome>>
    BY <1>5 DEF OnData, Receive, HandsEmpty
  <2>2. UNCHANGED <<pending, current>>
        \/ \E q \in pending : pending' = pending \ {q} /\ current' = q
    BY <1>5 DEF OnData, Remove
  <2>3. \A q \in Request : q \in Held' <=> q \in Held
    BY <2>1, <2>2 DEF Held
  <2> QED BY <2>1, <2>3 DEF Shown, Same
<1>6. CASE CallResponse
  <2>1. /\ current \in Request /\ current' = NoRequest
        /\ UNCHANGED <<pending, timeout_list, status>>
    BY <1>6 DEF CallResponse, IInv, HeldOnce, lists
  <2>2. \A q \in Request : q \in Held' <=> q \in Held \ {current}
    BY <2>1 DEF Held, IInv, HeldOnce
  <2>3. PICK result \in {"response", "failed"} : Called(current, result)
    BY <1>6 DEF CallResponse
  <2>4. current \in Held
    BY DEF Held
  <2> QED BY <2>1, <2>2, <2>3, <2>4, CalledShown
<1>7. CASE ReturnFromCallback
  BY <1>7, SameShown DEF ReturnFromCallback, lists, history
<1>8. CASE OnConnected \/ OnDisconnected \/ OnCheckTimeout
  BY <1>8, SameShown DEF OnConnected, OnDisconnected, OnCheckTimeout, lists, history
<1>9. ASSUME NEW k, Sweep(k) PROVE Shown
  <2>1. timeout_list = {} /\ UNCHANGED <<current, status, outcome>>
    BY <1>9 DEF Sweep, HandsEmpty, history
  <2>2. \E due : due \subseteq pending /\ pending' = pending \ due /\ timeout_list' = due
    BY <1>9 DEF Sweep, Remove, Pending
  <2>3. \A q \in Request : q \in Held' <=> q \in Held
    BY <2>1, <2>2 DEF Held
  <2> QED BY <2>1, <2>3 DEF Shown, Same
<1>10. CASE CallTimeout
  <2>1. PICK q \in timeout_list : timeout_list' = timeout_list \ {q} /\ Called(q, "timeout")
    BY <1>10 DEF CallTimeout
  <2>2. q \in Request /\ q \in Held
    BY DEF IInv, TypeOK, RunnerType, Held
  <2>3. UNCHANGED <<pending, current, status>>
    BY <1>10 DEF CallTimeout, lists
  <2>4. \A r \in Request : r \in Held' <=> r \in Held \ {q}
    BY <2>1, <2>3 DEF Held, IInv, HeldOnce
  <2> QED BY <2>1, <2>2, <2>3, <2>4, CalledShown
<1>11. CASE FinishList
  BY <1>11, NothingCleared, SameShown DEF FinishList, history
<1>12. CASE tbcmh_connect
  BY <1>12, SameShown DEF tbcmh_connect, runner, lists, history
<1>13. CASE tbcmh_disconnect \/ tbcm_disconnect \/ SweepAfterDisconnect
  BY <1>13, SameShown DEF tbcmh_disconnect, tbcm_disconnect, SweepAfterDisconnect, lists, history
<1>14. CASE UNCHANGED vars
  BY <1>14, SameShown DEF vars, runner, lists, history
<1>15. SameId \subseteq pending /\ AnyOfKind \subseteq pending
  BY DEF SameId, AnyOfKind, Pending
<1> QED
  BY <1>1, <1>2, <1>3, <1>4, <1>5, <1>6, <1>7, <1>8, <1>9, <1>10, <1>11, <1>12, <1>13, <1>14,
     <1>15
  DEF Next, Environment, Api, Handle, Control,
      tbcmh_attributes_request, tbcmh_twoway_clientrpc_request, tbcmh_provision_request,
      attributesrequest_on_data, clientrpc_on_data, provision_on_data,
      attributesrequest_on_check_timeout, clientrpc_on_check_timeout,
      provision_on_check_timeout

\* The values of the refinement mapping.
LEMMA PromiseIs ==
  ASSUME NEW r \in Request
  PROVE  /\ status[r] \in {"new", "busy"} => promise[r] = "new"
         /\ status[r] = "refused" => promise[r] = "refused"
         /\ status[r] = "accepted" /\ r \in Held => promise[r] = "pending"
         /\ status[r] = "accepted" /\ r \notin Held =>
              /\ outcome[r] = "response" => promise[r] = "answered"
              /\ outcome[r] \in {"timeout", "failed"} => promise[r] = "expired"
BY DEF promise

LEMMA SamePromise ==
  ASSUME NEW r \in Request, Same(r)
  PROVE  promise'[r] = promise[r]
BY DEF Same, promise

LEMMA PromiseStep ==
  ASSUME IInv, Shown
  PROVE  [Promise!Next]_promise
<1>1. CASE \A q \in Request : Same(q)
  <2>1. \A q \in Request : promise'[q] = promise[q]
    BY <1>1, SamePromise
  <2>2. promise' = promise
    BY <2>1 DEF promise
  <2> QED BY <2>2
<1>2. ASSUME NEW r \in Request, SameBut(r), CalledBack(r) \/ Begun(r)
      PROVE  [Promise!Next]_promise
  <2>1. \A q \in Request \ {r} : promise'[q] = promise[q]
    BY <1>2, SamePromise DEF SameBut
  <2>2. promise' = [promise EXCEPT ![r] = promise'[r]]
    <3>1. promise = [q \in Request |-> promise[q]] /\ promise' = [q \in Request |-> promise'[q]]
      BY Zenon DEF promise
    <3> QED BY <2>1, <3>1
  <2>3. \/ promise'[r] = promise[r]
        \/ promise[r] = "new" /\ promise'[r] \in {"refused", "pending"}
        \/ promise[r] = "pending" /\ promise'[r] \in {"answered", "expired"}
    <3>1. CASE CalledBack(r)
      <4>1. status[r] = "accepted" /\ status'[r] = "accepted"
        BY <1>2, <3>1 DEF CalledBack, IInv, HeldIsOpen
      <4>2. promise[r] = "pending"
        BY <3>1, <4>1, PromiseIs DEF CalledBack
      <4>3. promise'[r] \in {"answered", "expired"}
        BY <3>1, <4>1 DEF CalledBack, promise
      <4> QED BY <4>2, <4>3
    <3>2. CASE Begun(r)
      <4>1. promise[r] = "new"
        BY <3>2, PromiseIs DEF Begun
      <4>2. promise'[r] \in {"new", "refused", "pending"}
        BY <3>2 DEF Begun, promise
      <4> QED BY <4>1, <4>2
    <3> QED BY <1>2, <3>1, <3>2
  <2>4. promise'[r] = promise[r] => promise' = promise
    BY <2>1 DEF promise
  <2> QED BY <2>2, <2>3, <2>4
          DEF Promise!Next, Promise!Accept, Promise!Refuse, Promise!Answer, Promise!Expire,
              Promise!Become
<1> QED BY <1>1, <1>2 DEF Shown

-----------------------------------------------------------------------------
(* The theorems about one task.                                            *)

\* The invariant behind them.
OneTaskInv == IInv /\ HandsEmpty /\ Apart /\ SweptIsEmpty /\ NoLostRequest

LEMMA OneTaskInit == Init => OneTaskInv
<1> SUFFICES ASSUME Init PROVE OneTaskInv
  OBVIOUS
<1>1. IInv /\ HandsEmpty
  BY InitInv, HandsInit
<1>2. Apart /\ SweptIsEmpty
  BY SessionAssumption DEF Init, Apart, SweptIsEmpty
<1>3. NoLostRequest
  BY DEF Init, NoLostRequest
<1> QED BY <1>1, <1>2, <1>3 DEF OneTaskInv

\* Nobody is called back less often than before.
LEMMA CallsGrow ==
  ASSUME IInv, [Next]_vars, NEW r \in Request
  PROVE  calls'[r] >= calls[r] /\ calls'[r] \in Nat
<1>1. calls \in [Request -> Nat]
  BY DEF IInv, TypeOK, HistoryType
<1>2. ASSUME NEW q \in Request, NEW result, Called(q, result)
      PROVE  calls'[r] >= calls[r] /\ calls'[r] \in Nat
  BY <1>1, <1>2 DEF Called
<1>3. CASE CallResponse
  <2>1. current \in Request
    BY <1>3 DEF CallResponse, IInv, HeldOnce
  <2> QED BY <1>2, <1>3, <2>1 DEF CallResponse
<1>4. CASE CallTimeout
  BY <1>2, <1>4 DEF CallTimeout, IInv, TypeOK, RunnerType
<1>5. UNCHANGED calls \/ CallResponse \/ CallTimeout
  <2>1. CASE Environment
    BY <2>1 DEF Environment, MqttConnected, MqttDisconnected, ConnectionChanges, MqttAnswer,
                TimerFires, Tick, history
  <2>2. CASE Api
    BY <2>2 DEF Api, tbcmh_attributes_request, tbcmh_twoway_clientrpc_request,
                tbcmh_provision_request, RequestStep, Subscribe, Publish, Insert
  <2>3. CASE Handle
    BY <2>3 DEF Handle, attributesrequest_on_data, clientrpc_on_data, provision_on_data, OnData,
                ReturnFromCallback, OnConnected, OnDisconnected, OnCheckTimeout,
                attributesrequest_on_check_timeout, clientrpc_on_check_timeout,
                provision_on_check_timeout, Sweep, FinishList, history
  <2>4. CASE Control
    BY <2>4 DEF Control, tbcmh_connect, tbcmh_disconnect, tbcm_disconnect, SweepAfterDisconnect,
                history
  <2>5. CASE UNCHANGED vars
    BY <2>5 DEF vars, history
  <2> QED BY <2>1, <2>2, <2>3, <2>4, <2>5 DEF Next
<1> QED BY <1>1, <1>3, <1>4, <1>5

LEMMA OneTaskStep == OneTask /\ OneTaskInv /\ [Next]_vars => OneTaskInv'
<1> SUFFICES ASSUME OneTask, OneTaskInv, [Next]_vars PROVE OneTaskInv'
  OBVIOUS
<1>1. IInv' /\ HandsEmpty' /\ Apart' /\ SweptIsEmpty'
  BY InvStep, HandsStep, ApartStep, SweptStep DEF OneTaskInv
<1>2. NoLostRequest'
  <2> SUFFICES ASSUME NEW r \in Request, status'[r] = "accepted", calls'[r] = 0, r \notin Held'
               PROVE  FALSE
    BY DEF NoLostRequest
  <2>1. Shown
    BY StepShows DEF OneTaskInv
  <2>2. status[r] = "accepted"
    BY <2>1 DEF Shown, Same, SameBut, CalledBack, Begun
  <2>3. CASE r \in Held
    <3>1. Kept(r)
      BY <2>3, KeptStep DEF OneTaskInv
    <3>2. ~(FinishList /\ timeout_list = {} /\ why # "timeout")
      BY <2>3, NothingCleared DEF OneTaskInv, FinishList, Held
    <3>3. calls[r] \in Nat
      BY DEF OneTaskInv, IInv, TypeOK, HistoryType
    <3> QED BY <3>1, <3>2, <3>3 DEF Kept
  <2>4. CASE r \notin Held
    <3>1. calls[r] # 0
      BY <2>2, <2>4 DEF OneTaskInv, NoLostRequest
    <3>2. calls[r] \in Nat /\ calls'[r] >= calls[r] /\ calls'[r] \in Nat
      BY CallsGrow DEF OneTaskInv, IInv, TypeOK, HistoryType
    <3> QED BY <3>1, <3>2
  <2> QED BY <2>3, <2>4
<1> QED BY <1>1, <1>2 DEF OneTaskInv

LEMMA OneTaskInvariance ==
  ASSUME OneTask
  PROVE  Spec => []OneTaskInv
<1>1. OneTaskInv /\ [Next]_vars => OneTaskInv'
  BY OneTaskStep
<1> QED BY <1>1, OneTaskInit, PTL DEF Spec

\* With one task whose callbacks make no requests, an accepted request without
\* a callback is still held: the memset at the end of a disconnection finds the
\* list empty.
THEOREM NothingLost ==
  ASSUME OneTask
  PROVE  Spec => []NoLostRequest
<1>1. OneTaskInv => NoLostRequest
  BY DEF OneTaskInv
<1> QED BY <1>1, OneTaskInvariance, PTL

\* Every step of the client shows the callers of its requests at most one step
\* of RequestPromise: the client implements its safety part.
THEOREM PromiseIsSafe ==
  ASSUME OneTask
  PROVE  Spec => Promise!Init /\ [][Promise!Next]_promise
<1>1. Init => Promise!Init
  <2> SUFFICES ASSUME Init PROVE Promise!Init
    OBVIOUS
  <2>1. \A r \in Request : status[r] = "new"
    BY DEF Init
  <2>2. \A r \in Request : promise[r] = "new"
    BY <2>1, PromiseIs
  <2> QED BY <2>2 DEF promise, Promise!Init
<1>2. OneTaskInv /\ [Next]_vars => [Promise!Next]_promise
  BY StepShows, PromiseStep DEF OneTaskInv
<1> QED BY <1>1, <1>2, OneTaskInvariance, PTL DEF Spec

-----------------------------------------------------------------------------
(* Subscriptions of one task.                                              *)

\* The Runner is between the start of a sweep and its end.
InSweep == pc \in {"sweep", "timeouts"} \/ (pc = "callback" /\ ret = "timeouts")

\* What a sweep is for is known only during it, and the lists that a sweep for
\* the end of a connection has passed are empty.
Sweeps ==
  /\ why # "timeout" => InSweep
  /\ why = "stopping" <=> stopping = "sweep"
  /\ ~InSweep => turn = 1
  /\ InSweep /\ why # "timeout" => \A i \in 1..(turn - 1) : Pending(KindOrder[i]) = {}

\* Once tbcm_disconnect has returned there is no connection, and no subscription.
Stops ==
  /\ stopping \in {"stopped", "sweep"} => ~started
  /\ ~started => state = "DISCONNECTED"
  /\ ~Connected => subs = {}

\* A request that is being made, or that waits for its answer.
Waits(r) == r \in pending \/ \E t \in Tasks : api[t].pc # "idle" /\ api[t].req = r

\* It was made on the connection that is up, and the answer can come.
Served(r) == Connected /\ since[r] = session /\ KindOf[r] \in subs

\* The loss of the connection is still to be handled.
Lost == LossUnhandled \/ stopping \in {"stopped", "sweep"}

Fresh == \A r \in Request : Waits(r) => Served(r) \/ Lost

LEMMA SameSweeps ==
  ASSUME Sweeps, pending' \subseteq pending, UNCHANGED <<why, turn, stopping>>,
         InSweep' <=> InSweep
  PROVE  Sweeps'
BY DEF Sweeps, Pending

LEMMA SweepsStep == OneTask /\ OneTaskInv /\ Sweeps /\ [Next]_vars => Sweeps'
<1> SUFFICES ASSUME OneTask, OneTaskInv, Sweeps, [Next]_vars PROVE Sweeps'
  OBVIOUS
<1> USE SessionAssumption, KindsAre
<1>0. turn \in 1..3 /\ ret \in {"idle", "timeouts"} /\ pc \in {"idle", "respond", "sweep", "timeouts", "callback"}
      /\ why \in {"timeout", "disconnected", "stopping"}
  BY DEF OneTaskInv, IInv, TypeOK, RunnerType
<1>1. CASE MqttConnected \/ MqttDisconnected
  BY <1>1, SameSweeps DEF MqttConnected, MqttDisconnected, ConnectionChanges, runner, lists, InSweep
<1>2. ASSUME NEW r \in Request, MqttAnswer(r) PROVE Sweeps'
  BY <1>2, SameSweeps DEF MqttAnswer, runner, lists, InSweep
<1>3. CASE TimerFires \/ Tick
  BY <1>3, SameSweeps DEF TimerFires, Tick, runner, lists, InSweep
<1>4. ASSUME NEW t \in Tasks, NEW r \in Request, RequestStep(t, r) PROVE Sweeps'
  <2>1. t = Runner /\ UNCHANGED <<pc, ret, why, turn, stopping>>
    BY <1>4 DEF OneTask, RequestStep, Subscribe, Publish, Insert, runner
  <2>2. CASE Subscribe(t, r) \/ Publish(t, r)
    BY <2>1, <2>2, SameSweeps DEF Subscribe, Publish, lists, InSweep
  <2>3. CASE Insert(t, r)
    <3>1. api[Runner].pc = "insert"
      BY <2>1, <2>3 DEF Insert
    <3>2. pc = "idle"
      BY <3>1 DEF Idle, OneTaskInv, Apart
    <3> QED BY <2>1, <3>2 DEF Sweeps, InSweep
  <2> QED BY <1>4, <2>2, <2>3 DEF RequestStep
<1>5. ASSUME NEW k, NEW found, OnData(k, found) PROVE Sweeps'
  <2>1. pc = "idle" /\ pc' \in {"idle", "respond"} /\ pending' \subseteq pending
        /\ UNCHANGED <<why, turn, stopping>>
    BY <1>5 DEF OnData, Receive, Remove
  <2> QED BY <2>1, SameSweeps DEF InSweep
<1>6. CASE CallResponse
  BY <1>6, SameSweeps DEF CallResponse, EnterCallback, lists, InSweep
<1>7. CASE ReturnFromCallback
  BY <1>0, <1>7, SameSweeps DEF ReturnFromCallback, lists, InSweep
<1>8. CASE OnConnected
  BY <1>8, SameSweeps DEF OnConnected, Receive, EnterCallback, lists, InSweep
<1>9. CASE OnDisconnected
  <2>1. stopping # "sweep" /\ UNCHANGED stopping
    BY <1>9 DEF OnDisconnected, Receive
  <2>2. pc' = "sweep" /\ why' = "disconnected" /\ turn' = 1
    BY <1>9 DEF OnDisconnected, StartSweep
  <2> QED BY <2>1, <2>2 DEF Sweeps, InSweep
<1>10. CASE OnCheckTimeout
  <2>1. pc = "idle" /\ stopping # "sweep" /\ UNCHANGED <<stopping, pending>>
    BY <1>10 DEF OnCheckTimeout, Receive, lists
  <2>2. UNCHANGED <<pc, why, turn>> \/ (pc' = "sweep" /\ why' = "timeout" /\ turn' = 1)
    BY <1>10 DEF OnCheckTimeout, StartSweep
  <2> QED BY <2>1, <2>2 DEF Sweeps, InSweep, Pending
<1>11. ASSUME NEW k, Sweep(k) PROVE Sweeps'
  BY <1>11, SameSweeps DEF Sweep, Remove, InSweep
<1>12. CASE CallTimeout
  BY <1>12, SameSweeps DEF CallTimeout, EnterCallback, lists, InSweep
<1>13. CASE FinishList
  <2>1. pending' = pending /\ pc = "timeouts" /\ InSweep
    BY <1>13, NothingCleared DEF FinishList, OneTaskInv, InSweep
  <2>2. why = "timeout" \/ \A i \in 1..turn : Pending(KindOrder[i]) = {}
    BY <1>0, <2>1 DEF Sweeps, OneTaskInv, SweptIsEmpty
  <2>3. CASE turn < 3
    <3>1. turn' = turn + 1 /\ pc' = "sweep" /\ UNCHANGED <<why, stopping>>
      BY <1>13, <2>3 DEF FinishList
    <3> QED BY <1>0, <2>1, <2>2, <3>1 DEF Sweeps, InSweep, Pending
  <2>4. CASE turn = 3
    <3>1. turn' = 1 /\ why' = "timeout" /\ stopping' = (IF why = "stopping" THEN "no" ELSE stopping)
          /\ (pc' = "idle" \/ (pc' = "callback" /\ ret' = "idle"))
      BY <1>13, <2>4 DEF FinishList, EnterCallback
    <3> QED BY <3>1 DEF Sweeps, InSweep
  <2> QED BY <1>0, <2>3, <2>4
<1>14. CASE tbcmh_connect
  BY <1>14, SameSweeps DEF tbcmh_connect, runner, lists, InSweep
<1>15. CASE tbcmh_disconnect \/ tbcm_disconnect
  BY <1>15 DEF tbcmh_disconnect, tbcm_disconnect, lists, Sweeps, InSweep
<1>16. CASE SweepAfterDisconnect
  <2>1. stopping' = "sweep" /\ pc' = "sweep" /\ why' = "stopping" /\ turn' = 1
    BY <1>16 DEF SweepAfterDisconnect, StartSweep
  <2> QED BY <2>1 DEF Sweeps, InSweep
<1>17. CASE UNCHANGED vars
  BY <1>17, SameSweeps DEF vars, runner, lists, InSweep
<1> QED
  BY <1>1, <1>2, <1>3, <1>4, <1>5, <1>6, <1>7, <1>8, <1>9, <1>10, <1>11, <1>12, <1>13, <1>14,
     <1>15, <1>16, <1>17
  DEF Next, Environment, Api, Handle, Control,
      tbcmh_attributes_request, tbcmh_twoway_clientrpc_request, tbcmh_provision_request,
      attributesrequest_on_data, clientrpc_on_data, provision_on_data,
      attributesrequest_on_check_timeout, clientrpc_on_check_timeout,
      provision_on_check_timeout

\* After the last list of such a sweep nothing is pending.
LEMMA SweptAll ==
  ASSUME OneTaskInv, Sweeps, pc = "timeouts", turn = 3, why # "timeout"
  PROVE  pending = {}
<1> USE SessionAssumption
<1>1. \A i \in 1..3 : Pending(KindOrder[i]) = {}
  BY DEF Sweeps, InSweep, OneTaskInv, SweptIsEmpty
<1>2. \A r \in pending : KindOf[r] \in Kinds
  BY DEF OneTaskInv, IInv, TypeOK, ListsType
<1>3. \A k \in Kinds : Pending(k) = {}
  BY <1>1, KindsAre DEF Kinds
<1> QED BY <1>2, <1>3 DEF Pending

LEMMA StopsStep == IInv /\ Stops /\ [Next]_vars => Stops'
<1> SUFFICES ASSUME IInv, Stops, [Next]_vars PROVE Stops'
  OBVIOUS
<1>1. CASE MqttConnected \/ MqttDisconnected
  BY <1>1 DEF MqttConnected, MqttDisconnected, ConnectionChanges, runner, Stops, Connected
<1>2. ASSUME NEW r \in Request, MqttAnswer(r) PROVE Stops'
  BY <1>2 DEF MqttAnswer, runner, Stops, Connected
<1>3. CASE TimerFires \/ Tick
  BY <1>3 DEF TimerFires, Tick, runner, network, Stops, Connected
<1>4. ASSUME NEW t \in Tasks, NEW r \in Request, RequestStep(t, r) PROVE Stops'
  BY <1>4 DEF RequestStep, Subscribe, Publish, Insert, runner, network, Stops, Connected
<1>5. ASSUME NEW k, NEW found, OnData(k, found) PROVE Stops'
  BY <1>5 DEF OnData, Remove, Stops, Connected
<1>6. CASE CallResponse \/ CallTimeout
  BY <1>6 DEF CallResponse, CallTimeout, network, Stops, Connected
<1>7. CASE ReturnFromCallback \/ OnConnected \/ OnDisconnected \/ OnCheckTimeout
  BY <1>7 DEF ReturnFromCallback, OnConnected, OnDisconnected, OnCheckTimeout, network, Stops,
              Connected
<1>8. ASSUME NEW k, Sweep(k) PROVE Stops'
  BY <1>8 DEF Sweep, Remove, Stops, Connected
<1>9. CASE FinishList
  BY <1>9 DEF FinishList, network, Stops, Connected
<1>10. CASE tbcmh_connect
  BY <1>10 DEF tbcmh_connect, runner, Stops, Connected
<1>11. CASE tbcmh_disconnect \/ tbcm_disconnect \/ SweepAfterDisconnect
  BY <1>11 DEF tbcmh_disconnect, tbcm_disconnect, SweepAfterDisconnect, network, Stops, Connected
<1>12. CASE UNCHANGED vars
  BY <1>12 DEF vars, runner, network, Stops, Connected
<1> QED
  BY <1>1, <1>2, <1>3, <1>4, <1>5, <1>6, <1>7, <1>8, <1>9, <1>10, <1>11, <1>12
  DEF Next, Environment, Api, Handle, Control,
      tbcmh_attributes_request, tbcmh_twoway_clientrpc_request, tbcmh_provision_request,
      attributesrequest_on_data, clientrpc_on_data, provision_on_data,
      attributesrequest_on_check_timeout, clientrpc_on_check_timeout,
      provision_on_check_timeout

\* A loss that is queued stays so when an event is put in.
LEMMA LostAtPost ==
  ASSUME IInv, Lost, NEW e, Post(e), UNCHANGED runner
  PROVE  Lost'
<1>1. queue \in Seq(Event)
  BY DEF IInv, TypeOK, QueueType
<1>2. \A i \in 1..Len(queue) : i \in 1..Len(queue') /\ queue'[i] = queue[i]
  BY <1>1 DEF Post
<1> QED BY <1>2 DEF Lost, LossUnhandled, Post, runner

\* A new loss is queued, or counted as missed.
LEMMA LostAtLoss ==
  ASSUME IInv, Post(Signal("DISCONNECTED"))
  PROVE  Lost'
<1>1. queue \in Seq(Event)
  BY DEF IInv, TypeOK, QueueType
<1>2. CASE Len(queue) < QueueSize
  <2>1. queue' = Append(queue, Signal("DISCONNECTED"))
    BY <1>2 DEF Post
  <2>2. Len(queue') = Len(queue) + 1 /\ queue'[Len(queue) + 1].type = "DISCONNECTED"
    BY <1>1, <2>1 DEF Signal
  <2>3. Len(queue) + 1 \in 1..Len(queue')
    BY <1>1, <2>2
  <2> QED BY <2>2, <2>3 DEF Lost, LossUnhandled
<1>3. CASE ~(Len(queue) < QueueSize)
  <2>1. Len(queue) >= QueueSize
    BY <1>1, <1>3, SessionAssumption
  <2> QED BY <2>1 DEF Post, Signal, Lost, LossUnhandled
<1> QED BY <1>2, <1>3

\* Another event is taken out.
LEMMA LostAtReceive ==
  ASSUME IInv, Lost, NEW type, type # "DISCONNECTED", Receive(type),
         UNCHANGED <<missed, stopping>>
  PROVE  Lost'
<1>1. queue \in Seq(Event) /\ queue # << >> /\ queue[1].type = type /\ queue' = Tail(queue)
  BY DEF IInv, TypeOK, QueueType, Receive
<1>2. \A i \in 1..Len(queue) : queue[i].type = "DISCONNECTED" =>
        i - 1 \in 1..Len(queue') /\ queue'[i - 1] = queue[i]
  BY <1>1
<1>3. pc = "idle"
  BY DEF Receive
<1> QED BY <1>2, <1>3 DEF Lost, LossUnhandled

\* Requests that stay in a list stay subscribed.
LEMMA ServedAtRemove ==
  ASSUME NEW k, NEW S, S \subseteq Pending(k), Remove(S, k), UNCHANGED <<state, session, since>>,
         NEW r \in pending', Served(r)
  PROVE  Served(r)'
<1>1. KindOf[r] = k => ~(Pending(k) \subseteq S)
  BY DEF Remove, Pending
<1> QED BY <1>1 DEF Remove, Served, Connected

LEMMA SameFresh ==
  ASSUME Fresh, Lost => Lost', \A r \in Request : Waits(r)' => Waits(r),
         UNCHANGED <<state, session, since, subs>>
  PROVE  Fresh'
BY DEF Fresh, Served, Connected

LEMMA NobodyIsBusy ==
  ASSUME OneTask, api[Runner] = Idle, NEW r \in Request, Waits(r)
  PROVE  r \in pending
BY DEF OneTask, Idle, Waits

LEMMA SubscribeFresh ==
  ASSUME IInv, Fresh, NEW t \in Tasks, NEW r \in Request, Subscribe(t, r), stopping = "no"
  PROVE  Fresh'
<1> USE SessionAssumption
<1>1. /\ status[r] = "new" /\ since' = [since EXCEPT ![r] = session]
      /\ UNCHANGED <<pending, state, session, queue, missed, runner>>
  BY DEF Subscribe, lists
<1>2. /\ since \in [Request -> Nat]
      /\ api \in [Tasks -> [pc : {"idle", "publish", "insert"}, req : Request \cup {NoRequest}]]
  BY DEF IInv, TypeOK, HistoryType, ApiType
<1>3. Lost => Lost'
  BY <1>1 DEF Lost, LossUnhandled, runner
<1>4. ~Waits(r)
  BY <1>1 DEF Waits, IInv, HeldIsOpen, Held, BusyHasLock
<1>5. \A q \in Request \ {r} : since'[q] = since[q]
  BY <1>1, <1>2
<1>6. subs \subseteq subs'
  BY DEF Subscribe
<1>7. ASSUME NEW q \in Request \ {r}, Waits(q)' PROVE Served(q)' \/ Lost'
  <2>1. Waits(q)
    BY <1>1, <1>2, <1>7 DEF Waits, Subscribe
  <2>2. Served(q) => Served(q)'
    BY <1>1, <1>5, <1>6 DEF Served, Connected
  <2> QED BY <1>3, <2>1, <2>2 DEF Fresh
<1>8. ASSUME Waits(r)' PROVE Served(r)' \/ Lost'
  <2>1. Connected
    BY <1>1, <1>4, <1>8 DEF Waits, Subscribe
  <2>2. KindOf[r] \in subs' \/ Lost
    <3>1. CASE Pending(KindOf[r]) = {}
      BY <2>1, <3>1 DEF Subscribe
    <3>2. CASE Pending(KindOf[r]) # {}
      <4>1. PICK q \in pending : KindOf[q] = KindOf[r]
        BY <3>2 DEF Pending
      <4>2. q \in Request
        BY DEF IInv, TypeOK, ListsType
      <4>3. KindOf[q] \in subs \/ Lost
        BY <4>2 DEF Fresh, Waits, Served
      <4> QED BY <1>6, <4>1, <4>3
    <3> QED BY <3>1, <3>2
  <2>3. Connected' /\ since'[r] = session'
    BY <1>1, <1>2, <2>1 DEF Connected
  <2> QED BY <1>3, <2>2, <2>3 DEF Served
<1> QED BY <1>7, <1>8 DEF Fresh

LEMMA FreshStep == OneTask /\ OneTaskInv /\ Sweeps /\ Stops /\ Fresh /\ [Next]_vars => Fresh'
<1> SUFFICES ASSUME OneTask, OneTaskInv, Sweeps, Stops, Fresh, [Next]_vars PROVE Fresh'
  OBVIOUS
<1> USE SessionAssumption
<1>0. IInv /\ Apart /\ HandsEmpty
  BY DEF OneTaskInv
<1>1. CASE MqttConnected
  <2>1. ~Connected /\ Post(Signal("CONNECTED")) /\ UNCHANGED <<runner, pending, api>>
    BY <1>1 DEF MqttConnected, ConnectionChanges, Connected, lists
  <2>2. Lost => Lost'
    BY <1>0, <2>1, LostAtPost
  <2>3. \A r \in Request : Waits(r)' => Waits(r) /\ ~Served(r)
    BY <2>1 DEF Waits, Served
  <2> QED BY <2>2, <2>3 DEF Fresh
<1>2. CASE MqttDisconnected
  BY <1>0, <1>2, LostAtLoss DEF MqttDisconnected, ConnectionChanges, Fresh
<1>3. ASSUME NEW r \in Request, MqttAnswer(r) PROVE Fresh'
  <2>1. /\ UNCHANGED <<runner, pending, api, state, session, since, subs>>
        /\ Post([type |-> "DATA", req |-> r]) \/ UNCHANGED <<queue, missed>>
    BY <1>3 DEF MqttAnswer, lists
  <2>2. Lost => Lost'
    BY <1>0, <2>1, LostAtPost DEF Lost, LossUnhandled, runner
  <2> QED BY <2>1, <2>2, SameFresh DEF Waits
<1>4. CASE TimerFires
  <2>1. UNCHANGED <<runner, pending, api, state, session, since, subs>>
        /\ Post(Signal("CHECK_TIMEOUT"))
    BY <1>4 DEF TimerFires, lists, network
  <2>2. Lost => Lost'
    BY <1>0, <2>1, LostAtPost
  <2> QED BY <2>1, <2>2, SameFresh DEF Waits
<1>5. CASE Tick
  BY <1>5, SameFresh DEF Tick, runner, network, history, Lost, LossUnhandled, Waits
<1>6. ASSUME NEW t \in Tasks, NEW r \in Request, RequestStep(t, r) PROVE Fresh'
  <2>0. t = Runner /\ UNCHANGED <<runner, queue, missed>>
    BY <1>6 DEF OneTask, RequestStep, Subscribe, Publish, Insert
  <2>1. CASE Subscribe(t, r)
    <3>1. stopping = "no"
      BY <2>0, <2>1 DEF Subscribe, InApplication, OneTask
    <3> QED BY <1>0, <2>1, <3>1, SubscribeFresh
  <2>2. CASE Publish(t, r) \/ Insert(t, r)
    <3>1. UNCHANGED <<state, session, since, subs>> /\ pending' \subseteq pending \cup {r}
          /\ api[t].req = r /\ api[t].pc # "idle"
      BY <2>2 DEF Publish, Insert, network
    <3>2. \A u \in Tasks : api'[u] = api[u] \/ api'[u].pc = "idle" \/ api'[u].req = r
      <4>1. api \in [Tasks -> [pc : {"idle", "publish", "insert"}, req : Request \cup {NoRequest}]]
        BY <1>0 DEF IInv, TypeOK, ApiType
      <4> QED BY <2>2, <3>1, <4>1 DEF Publish, Insert, Leave, Idle
    <3>3. \A q \in Request : Waits(q)' => Waits(q)
      BY <3>1, <3>2 DEF Waits
    <3>4. Lost => Lost'
      BY <2>0 DEF Lost, LossUnhandled, runner
    <3> QED BY <3>1, <3>3, <3>4, SameFresh
  <2> QED BY <1>6, <2>1, <2>2 DEF RequestStep
<1>7. ASSUME NEW k, NEW found, found \subseteq Pending(k), OnData(k, found) PROVE Fresh'
  <2>1. Receive("DATA") /\ UNCHANGED <<missed, stopping, api, state, session, since>>
    BY <1>7 DEF OnData
  <2>2. Lost => Lost'
    BY <1>0, <2>1, LostAtReceive
  <2>3. UNCHANGED <<pending, subs>> \/ \E r \in found : Remove({r}, k)
    BY <1>7 DEF OnData
  <2>4. ASSUME NEW q \in Request, Waits(q)' PROVE Served(q)' \/ Lost'
    <3>1. api[Runner] = Idle /\ api'[Runner] = Idle
      BY <2>1 DEF Receive
    <3>2. q \in pending'
      BY <2>4, <3>1 DEF OneTask, Idle, Waits
    <3>3. q \in pending
      BY <2>3, <3>2 DEF Remove
    <3>4. Served(q) => Served(q)'
      <4>1. CASE UNCHANGED subs
        BY <2>1, <4>1 DEF Served, Connected
      <4>2. ASSUME NEW r \in found, Remove({r}, k) PROVE Served(q) => Served(q)'
        BY <1>7, <2>1, <3>2, <4>2, ServedAtRemove
      <4> QED BY <2>3, <4>1, <4>2
    <3> QED BY <2>2, <3>3, <3>4 DEF Fresh, Waits
  <2> QED BY <2>4 DEF Fresh
<1>8. CASE CallResponse
  BY <1>8, SameFresh DEF CallResponse, EnterCallback, network, lists, Lost, LossUnhandled, Waits
<1>9. CASE ReturnFromCallback
  <2>1. Lost => Lost'
    BY <1>9 DEF ReturnFromCallback, Lost, LossUnhandled, Sweeps, InSweep, history
  <2> QED BY <1>9, <2>1, SameFresh DEF ReturnFromCallback, network, lists, history, Waits
<1>10. CASE OnConnected
  <2>1. Lost => Lost'
    BY <1>0, <1>10, LostAtReceive DEF OnConnected, history
  <2> QED BY <1>10, <2>1, SameFresh DEF OnConnected, network, lists, history, Waits
<1>11. CASE OnDisconnected
  BY <1>11 DEF OnDisconnected, StartSweep, Fresh, Lost, LossUnhandled
<1>12. CASE OnCheckTimeout
  <2>1. Lost => Lost'
    BY <1>0, <1>12, LostAtReceive DEF OnCheckTimeout, history
  <2> QED BY <1>12, <2>1, SameFresh DEF OnCheckTimeout, network, lists, history, Waits
<1>13. ASSUME NEW k, Sweep(k) PROVE Fresh'
  <2>1. /\ UNCHANGED <<missed, queue, stopping, why, api, state, session, since>>
        /\ pc = "sweep" /\ pc' = "timeouts"
    BY <1>13 DEF Sweep, history
  <2>2. PICK due \in SUBSET Pending(k) : Remove(due, k)
    BY <1>13 DEF Sweep
  <2>3. Lost => Lost'
    BY <2>1 DEF Lost, LossUnhandled
  <2>4. ASSUME NEW q \in Request, Waits(q)' PROVE Served(q)' \/ Lost'
    <3>1. api[Runner] = Idle /\ api'[Runner] = Idle
      BY <1>0, <2>1 DEF Apart
    <3>2. q \in pending'
      BY <2>4, <3>1 DEF OneTask, Idle, Waits
    <3>3. q \in pending
      BY <2>2, <3>2 DEF Remove
    <3>4. Served(q) => Served(q)'
      BY <2>1, <2>2, <3>2, ServedAtRemove
    <3> QED BY <2>3, <3>3, <3>4 DEF Fresh, Waits
  <2> QED BY <2>4 DEF Fresh
<1>14. CASE CallTimeout
  BY <1>14, SameFresh DEF CallTimeout, EnterCallback, network, lists, Lost, LossUnhandled, Waits
<1>15. CASE FinishList
  <2>1. /\ pending' = pending /\ pc = "timeouts"
        /\ UNCHANGED <<missed, queue, api, state, session, since, subs>>
    BY <1>15, NothingCleared DEF FinishList, OneTaskInv, history, network
  <2>2. CASE turn < 3
    <3>1. pc' = "sweep" /\ UNCHANGED <<why, stopping>>
      BY <1>15, <2>2, KindsAre DEF FinishList
    <3> QED BY <2>1, <3>1, SameFresh DEF Lost, LossUnhandled, Waits
  <2>3. CASE turn = 3 /\ why = "timeout"
    <3>1. stopping' = stopping
      BY <1>15, <2>3, KindsAre DEF FinishList
    <3> QED BY <2>1, <2>3, <3>1, SameFresh DEF Lost, LossUnhandled, Waits
  <2>4. CASE turn = 3 /\ why # "timeout"
    <3>1. pending' = {} /\ api'[Runner] = Idle
      BY <1>0, <2>1, <2>4, SweptAll DEF Apart
    <3> QED BY <3>1 DEF Fresh, Waits, OneTask, Idle
  <2>5. turn \in 1..3
    BY <1>0, KindsAre DEF IInv, TypeOK, RunnerType
  <2> QED BY <2>2, <2>3, <2>4, <2>5
<1>16. CASE tbcmh_connect
  <2>1. /\ ~Connected /\ UNCHANGED <<runner, queue, missed, pending, api>>
    BY <1>16 DEF tbcmh_connect, Stops, Connected, lists, history
  <2>2. \A r \in Request : Waits(r)' => Waits(r) /\ ~Served(r)
    BY <2>1 DEF Waits, Served
  <2>3. Lost => Lost'
    BY <2>1 DEF Lost, LossUnhandled, runner
  <2> QED BY <2>2, <2>3 DEF Fresh
<1>17. CASE tbcmh_disconnect
  BY <1>17, SameFresh DEF tbcmh_disconnect, network, lists, history, Lost, LossUnhandled, Waits
<1>18. CASE tbcm_disconnect \/ SweepAfterDisconnect
  BY <1>18 DEF tbcm_disconnect, SweepAfterDisconnect, Fresh, Lost
<1>19. CASE UNCHANGED vars
  BY <1>19, SameFresh DEF vars, runner, network, lists, history, Lost, LossUnhandled, Waits
<1>20. SameId \subseteq Pending(KindOf[Answered]) /\ AnyOfKind \subseteq Pending(KindOf[Answered])
  BY DEF SameId, AnyOfKind
<1>21. \A k \in {"attributes", "clientrpc"} : OnData(k, SameId) => SameId \subseteq Pending(k)
  BY <1>20 DEF OnData
<1>22. OnData("provision", AnyOfKind) => AnyOfKind \subseteq Pending("provision")
  BY <1>20 DEF OnData
<1> QED
  BY <1>1, <1>2, <1>3, <1>4, <1>5, <1>6, <1>7, <1>8, <1>9, <1>10, <1>11, <1>12, <1>13, <1>14,
     <1>15, <1>16, <1>17, <1>18, <1>19, <1>21, <1>22
  DEF Next, Environment, Api, Handle, Control,
      tbcmh_attributes_request, tbcmh_twoway_clientrpc_request, tbcmh_provision_request,
      attributesrequest_on_data, clientrpc_on_data, provision_on_data,
      attributesrequest_on_check_timeout, clientrpc_on_check_timeout,
      provision_on_check_timeout

\* Nothing that makes a subscription useful changes.
LEMMA SameUsed ==
  ASSUME SubscriptionIsUsed, UNCHANGED <<subs, pending, session, since, status>>
  PROVE  SubscriptionIsUsed'
BY DEF SubscriptionIsUsed, Pending

\* The last request that is taken out of a list takes the subscription with it.
LEMMA RemoveUsed ==
  ASSUME SubscriptionIsUsed, Stops, NEW k, NEW S, S \subseteq Pending(k), Remove(S, k),
         UNCHANGED <<session, since, status>>
  PROVE  SubscriptionIsUsed'
<1> SUFFICES ASSUME NEW l \in subs', Pending(l)' = {}
             PROVE  \E r \in Request : /\ KindOf[r] = l /\ since'[r] = session'
                                       /\ status'[r] \in {"busy", "refused"}
  BY DEF SubscriptionIsUsed
<1>1. l \in subs /\ Connected
  BY DEF Remove, Stops
<1>2. Pending(l) = {}
  <2>1. CASE l = k
    BY <1>1, <2>1 DEF Remove, Pending
  <2>2. CASE l # k
    BY <2>2 DEF Remove, Pending
  <2> QED BY <2>1, <2>2
<1> QED BY <1>1, <1>2 DEF SubscriptionIsUsed

LEMMA RequestUsed ==
  ASSUME IInv, SubscriptionIsUsed, NEW t \in Tasks, NEW r \in Request, RequestStep(t, r)
  PROVE  SubscriptionIsUsed'
<1>1. /\ status \in [Request -> {"new", "busy", "accepted", "refused"}]
      /\ since \in [Request -> Nat]
      /\ pending \subseteq Request
  BY DEF IInv, TypeOK, HistoryType, ListsType
<1>2. /\ session' = session /\ pending \subseteq pending'
      /\ \A q \in Request \ {r} : since'[q] = since[q] /\ status'[q] = status[q]
  BY <1>1 DEF RequestStep, Subscribe, Publish, Insert, Leave, lists
<1>3. CASE Subscribe(t, r)
  <2>1. subs' \subseteq subs \cup {KindOf[r]} /\ status[r] = "new" /\ (~Connected => subs' = subs)
    BY <1>3 DEF Subscribe
  <2>2. since'[r] = session /\ status'[r] \in {"busy", "refused"}
    BY <1>1, <1>3 DEF Subscribe
  <2> QED BY <1>2, <2>1, <2>2 DEF SubscriptionIsUsed, Pending
<1>4. CASE Publish(t, r) \/ Insert(t, r)
  <2>1. subs' = subs /\ since' = since
    BY <1>4 DEF Publish, Insert, network
  <2>2. status'[r] = "busy" \/ status'[r] = "refused" \/ (status'[r] = "accepted" /\ r \in pending')
    <3>1. api[t].pc # "idle" /\ api[t].req = r
      BY <1>4 DEF Publish, Insert
    <3>2. status[r] = "busy"
      BY <3>1 DEF IInv, BusyHasLock
    <3> QED BY <1>1, <1>4, <3>2 DEF Publish, Insert, Leave
  <2> QED BY <1>2, <2>1, <2>2 DEF SubscriptionIsUsed, Pending
<1> QED BY <1>3, <1>4 DEF RequestStep

LEMMA UsedStep ==
  ASSUME OneTaskInv, Stops, SubscriptionIsUsed, [Next]_vars
  PROVE  SubscriptionIsUsed'
<1>0. IInv
  BY DEF OneTaskInv
<1>1. CASE MqttConnected \/ MqttDisconnected
  BY <1>1 DEF MqttConnected, MqttDisconnected, ConnectionChanges, SubscriptionIsUsed
<1>2. ASSUME NEW r \in Request, MqttAnswer(r) PROVE SubscriptionIsUsed'
  BY <1>2, SameUsed DEF MqttAnswer, lists
<1>3. CASE TimerFires \/ Tick
  BY <1>3, SameUsed DEF TimerFires, Tick, network, lists, history
<1>4. ASSUME NEW t \in Tasks, NEW r \in Request, RequestStep(t, r) PROVE SubscriptionIsUsed'
  BY <1>0, <1>4, RequestUsed
<1>5. ASSUME NEW k, NEW found, found \subseteq Pending(k), OnData(k, found)
      PROVE  SubscriptionIsUsed'
  <2>1. UNCHANGED <<session, since, status>>
        /\ (UNCHANGED <<pending, subs>> \/ \E r \in found : Remove({r}, k))
    BY <1>5 DEF OnData
  <2>2. CASE UNCHANGED <<pending, subs>>
    BY <2>1, <2>2, SameUsed
  <2>3. ASSUME NEW r \in found, Remove({r}, k) PROVE SubscriptionIsUsed'
    BY <1>5, <2>1, <2>3, RemoveUsed
  <2> QED BY <2>1, <2>2, <2>3
<1>6. CASE CallResponse \/ CallTimeout
  BY <1>6, SameUsed DEF CallResponse, CallTimeout, network, lists
<1>7. CASE ReturnFromCallback \/ OnConnected \/ OnDisconnected \/ OnCheckTimeout
  BY <1>7, SameUsed DEF ReturnFromCallback, OnConnected, OnDisconnected, OnCheckTimeout, network,
                        lists, history
<1>8. ASSUME NEW k, Sweep(k) PROVE SubscriptionIsUsed'
  <2>1. UNCHANGED <<session, since, status>>
    BY <1>8 DEF Sweep, history
  <2>2. PICK due \in SUBSET Pending(k) : Remove(due, k)
    BY <1>8 DEF Sweep
  <2> QED BY <2>1, <2>2, RemoveUsed
<1>9. CASE FinishList
  BY <1>9, NothingCleared, SameUsed DEF FinishList, OneTaskInv, network, history
<1>10. CASE tbcmh_connect
  BY <1>10, SameUsed DEF tbcmh_connect, lists, history
<1>11. CASE tbcm_disconnect
  BY <1>11 DEF tbcm_disconnect, SubscriptionIsUsed
<1>12. CASE tbcmh_disconnect \/ SweepAfterDisconnect
  BY <1>12, SameUsed DEF tbcmh_disconnect, SweepAfterDisconnect, network, lists, history
<1>13. CASE UNCHANGED vars
  BY <1>13, SameUsed DEF vars, network, lists, history
<1>14. SameId \subseteq Pending(KindOf[Answered]) /\ AnyOfKind \subseteq Pending(KindOf[Answered])
  BY DEF SameId, AnyOfKind
<1>15. \A k \in {"attributes", "clientrpc"} : OnData(k, SameId) => SameId \subseteq Pending(k)
  BY <1>14 DEF OnData
<1>16. OnData("provision", AnyOfKind) => AnyOfKind \subseteq Pending("provision")
  BY <1>14 DEF OnData
<1> QED
  BY <1>1, <1>2, <1>3, <1>4, <1>5, <1>6, <1>7, <1>8, <1>9, <1>10, <1>11, <1>12, <1>13, <1>15, <1>16
  DEF Next, Environment, Api, Handle, Control,
      tbcmh_attributes_request, tbcmh_twoway_clientrpc_request, tbcmh_provision_request,
      attributesrequest_on_data, clientrpc_on_data, provision_on_data,
      attributesrequest_on_check_timeout, clientrpc_on_check_timeout,
      provision_on_check_timeout

\* The invariant about the subscriptions of one task.
SubsInv == OneTaskInv /\ Sweeps /\ Stops /\ Fresh /\ SubscriptionIsUsed

LEMMA SubsInit == Init => SubsInv
<1> SUFFICES ASSUME Init PROVE SubsInv
  OBVIOUS
<1>1. OneTaskInv
  BY OneTaskInit
<1>2. Sweeps /\ Stops
  BY DEF Init, Sweeps, InSweep, Stops, Connected
<1>3. \A r \in Request : ~Waits(r)
  BY DEF Init, Waits, Idle
<1>4. SubscriptionIsUsed
  BY DEF Init, SubscriptionIsUsed
<1> QED BY <1>1, <1>2, <1>3, <1>4 DEF SubsInv, Fresh

LEMMA SubsInvariance ==
  ASSUME OneTask
  PROVE  Spec => []SubsInv
<1>1. SubsInv /\ [Next]_vars => SubsInv'
  <2> SUFFICES ASSUME SubsInv, [Next]_vars PROVE SubsInv'
    OBVIOUS
  <2>1. OneTaskInv' /\ Sweeps' /\ Fresh'
    BY OneTaskStep, SweepsStep, FreshStep DEF SubsInv
  <2>2. Stops'
    BY StopsStep DEF SubsInv, OneTaskInv
  <2>3. SubscriptionIsUsed'
    BY UsedStep DEF SubsInv
  <2> QED BY <2>1, <2>2, <2>3 DEF SubsInv
<1> QED BY <1>1, SubsInit, PTL DEF Spec

\* A request that one task has made on the connection that is up is subscribed
\* to its answer, unless a loss of an earlier connection is unhandled: through
\* sweeps, tbcmh_disconnect and requests that join others in a list
\* (attributes_request.c:145).
THEOREM SubscribedIfFresh ==
  ASSUME OneTask
  PROVE  Spec => []SubscribedUnlessStale
<1>1. SubsInv => SubscribedUnlessStale
  <2> SUFFICES ASSUME SubsInv, ~LossUnhandled, NEW r \in pending, Connected, since[r] = session
               PROVE  KindOf[r] \in subs
    BY DEF SubscribedUnlessStale, SubscribedWhilePending
  <2>1. r \in Request
    BY DEF SubsInv, OneTaskInv, IInv, TypeOK, ListsType
  <2>2. Served(r) \/ stopping \in {"stopped", "sweep"}
    BY <2>1 DEF SubsInv, Fresh, Waits, Lost
  <2>3. stopping \notin {"stopped", "sweep"}
    BY DEF SubsInv, Stops, Connected
  <2> QED BY <2>2, <2>3 DEF Served
<1> QED BY <1>1, SubsInvariance, PTL

\* One task leaves no response topic subscribed that nobody waits for, except
\* after a request function that failed.
THEOREM SubscriptionsAreUsed ==
  ASSUME OneTask
  PROVE  Spec => []SubscriptionIsUsed
<1>1. SubsInv => SubscriptionIsUsed
  BY DEF SubsInv
<1> QED BY <1>1, SubsInvariance, PTL

-----------------------------------------------------------------------------
(* Answers that reach one task.                                            *)

\* An answer to r may come: from the server, or out of the queue.
Expected(r) ==
  \/ server[r] > 0
  \/ \E i \in 1..Len(queue) : queue[i].type = "DATA" /\ queue[i].req = r

ExpectedIsMade == \A r \in Request : Expected(r) => status[r] # "new"

\* A request function that has not returned is being run.
BusyIsMade ==
  \A r \in Request : status[r] = "busy" => \E t \in Tasks : api[t].pc # "idle" /\ api[t].req = r

\* With one task, no answer is handled before its request function has returned.
HeardIsMade == \A r \in heard : status[r] \in {"accepted", "refused"}

Answers == ExpectedIsMade /\ BusyIsMade /\ HeardIsMade

LEMMA SameAnswers ==
  ASSUME Answers, \A r \in Request : Expected(r)' => Expected(r), UNCHANGED <<status, api, heard>>
  PROVE  Answers'
BY DEF Answers, ExpectedIsMade, BusyIsMade, HeardIsMade

\* Putting in an event that is no answer, or that was expected.
LEMMA ExpectedAtPost ==
  ASSUME IInv, NEW e, Post(e), \A r \in Request : server'[r] <= server[r] /\ server'[r] \in Nat,
         NEW r \in Request, e.type = "DATA" /\ e.req = r => Expected(r), Expected(r)'
  PROVE  Expected(r)
<1>1. queue \in Seq(Event) /\ server[r] \in Nat
  BY DEF IInv, TypeOK, QueueType, NetworkType
<1>2. CASE server'[r] > 0
  <2>1. server[r] > 0
    BY <1>1, <1>2
  <2> QED BY <2>1 DEF Expected
<1>3. ASSUME NEW i \in 1..Len(queue'), queue'[i].type = "DATA", queue'[i].req = r
      PROVE  Expected(r)
  <2>1. (i \in 1..Len(queue) /\ queue'[i] = queue[i]) \/ queue'[i] = e
    BY <1>1 DEF Post
  <2> QED BY <1>3, <2>1 DEF Expected
<1> QED BY <1>2, <1>3 DEF Expected

LEMMA ExpectedAtReceive ==
  ASSUME IInv, NEW type, Receive(type), UNCHANGED server, NEW r \in Request, Expected(r)'
  PROVE  Expected(r)
<1>1. queue \in Seq(Event) /\ queue # << >> /\ queue' = Tail(queue)
  BY DEF IInv, TypeOK, QueueType, Receive
<1>2. \A i \in 1..Len(queue') : i + 1 \in 1..Len(queue) /\ queue'[i] = queue[i + 1]
  BY <1>1
<1> QED BY <1>2 DEF Expected

\* The answer that is taken out was expected.
LEMMA AnsweredExpected ==
  ASSUME IInv, Receive("DATA")
  PROVE  Answered \in Request /\ Expected(Answered)
<1>1. queue \in Seq(Event) /\ queue # << >> /\ Head(queue).type = "DATA" /\ QueueType
  BY DEF IInv, TypeOK, QueueType, Receive
<1>2. 1 \in 1..Len(queue) /\ queue[1].type = "DATA" /\ queue[1].req = Answered
  BY <1>1 DEF Answered
<1>3. Answered \in Request
  BY <1>1, ReceiveType
<1> QED BY <1>2, <1>3 DEF Expected

LEMMA RequestAnswers ==
  ASSUME IInv, Answers, NEW t \in Tasks, NEW r \in Request, RequestStep(t, r)
  PROVE  Answers'
<1> USE SessionAssumption
<1>1. /\ status \in [Request -> {"new", "busy", "accepted", "refused"}]
      /\ server \in [Request -> Nat]
      /\ api \in [Tasks -> [pc : {"idle", "publish", "insert"}, req : Request \cup {NoRequest}]]
  BY DEF IInv, TypeOK, HistoryType, ApiType, NetworkType
<1>2. /\ UNCHANGED <<queue, heard>>
      /\ \A q \in Request \ {r} : status'[q] = status[q] /\ server'[q] = server[q]
      /\ \A u \in Tasks \ {t} : api'[u] = api[u]
  BY <1>1 DEF RequestStep, Subscribe, Publish, Insert, Leave, network
<1>3. /\ status'[r] # "new"
      /\ status'[r] = "busy" => api'[t].pc # "idle" /\ api'[t].req = r
      /\ status[r] \in {"new", "busy"}
      /\ api[t].pc = "idle" \/ api[t].req = r
  <2>1. CASE Subscribe(t, r)
    BY <1>1, <2>1 DEF Subscribe, InApplication, Idle
  <2>2. CASE Publish(t, r) \/ Insert(t, r)
    <3>1. api[t].pc # "idle" /\ api[t].req = r
      BY <2>2 DEF Publish, Insert
    <3>2. status[r] = "busy"
      BY <3>1 DEF IInv, BusyHasLock
    <3> QED BY <1>1, <2>2, <3>1, <3>2 DEF Publish, Insert, Leave
  <2> QED BY <2>1, <2>2 DEF RequestStep
<1>4. ExpectedIsMade'
  <2>1. ASSUME NEW q \in Request \ {r}, Expected(q)' PROVE Expected(q)
    BY <1>2, <2>1 DEF Expected
  <2> QED BY <1>2, <1>3, <2>1 DEF Answers, ExpectedIsMade
<1>5. BusyIsMade'
  BY <1>2, <1>3 DEF Answers, BusyIsMade
<1>6. HeardIsMade'
  BY <1>2, <1>3 DEF Answers, HeardIsMade, IInv, TypeOK, HistoryType
<1> QED BY <1>4, <1>5, <1>6 DEF Answers

\* Nothing is heard of a request that is still being made.
LEMMA OnDataAnswers ==
  ASSUME OneTask, IInv, Answers, NEW k, NEW found, OnData(k, found)
  PROVE  Answers' /\ status[Answered] \in {"accepted", "refused"}
<1>1. /\ Receive("DATA") /\ api[Runner] = Idle /\ heard' = heard \cup {Answered}
      /\ UNCHANGED <<server, status, api>>
  BY DEF OnData, Receive
<1>2. Answered \in Request /\ Expected(Answered)
  BY <1>1, AnsweredExpected
<1>3. status[Answered] \in {"accepted", "refused"}
  <2>1. status[Answered] # "new"
    BY <1>2 DEF Answers, ExpectedIsMade
  <2>2. status[Answered] # "busy"
    BY <1>1, <1>2 DEF Answers, BusyIsMade, OneTask, Idle
  <2>3. status[Answered] \in {"new", "busy", "accepted", "refused"}
    BY <1>2 DEF IInv, TypeOK, HistoryType
  <2> QED BY <2>1, <2>2, <2>3
<1>4. ExpectedIsMade'
  BY <1>1, ExpectedAtReceive DEF Answers, ExpectedIsMade
<1>5. BusyIsMade'
  BY <1>1 DEF Answers, BusyIsMade
<1>6. HeardIsMade'
  BY <1>1, <1>3 DEF Answers, HeardIsMade
<1> QED BY <1>3, <1>4, <1>5, <1>6 DEF Answers

LEMMA AnswersStep == OneTask /\ IInv /\ Answers /\ [Next]_vars => Answers'
<1> SUFFICES ASSUME OneTask, IInv, Answers, [Next]_vars PROVE Answers'
  OBVIOUS
<1>0. server \in [Request -> Nat]
  BY DEF IInv, TypeOK, NetworkType
<1>1. CASE MqttConnected \/ MqttDisconnected
  <2>1. \E type \in {"CONNECTED", "DISCONNECTED"} : Post(Signal(type))
    BY <1>1 DEF MqttConnected, MqttDisconnected, ConnectionChanges
  <2>2. UNCHANGED <<server, status, api, heard>>
    BY <1>1 DEF MqttConnected, MqttDisconnected, ConnectionChanges
  <2>3. \A r \in Request : Expected(r)' => Expected(r)
    BY <1>0, <2>1, <2>2, ExpectedAtPost DEF Signal
  <2> QED BY <2>2, <2>3, SameAnswers
<1>2. ASSUME NEW r \in Request, MqttAnswer(r) PROVE Answers'
  <2>1. /\ \A q \in Request : server'[q] <= server[q] /\ server'[q] \in Nat
        /\ Expected(r) /\ UNCHANGED <<status, api, heard>>
    BY <1>0, <1>2 DEF MqttAnswer, Expected
  <2>2. CASE Post([type |-> "DATA", req |-> r])
    <3>1. \A q \in Request : Expected(q)' => Expected(q)
      BY <2>1, <2>2, ExpectedAtPost
    <3> QED BY <2>1, <3>1, SameAnswers
  <2>3. CASE UNCHANGED <<queue, missed>>
    <3>1. \A q \in Request : Expected(q)' => Expected(q)
      BY <1>0, <2>1, <2>3 DEF Expected
    <3> QED BY <2>1, <3>1, SameAnswers
  <2> QED BY <1>2, <2>2, <2>3 DEF MqttAnswer
<1>3. CASE TimerFires
  <2>1. Post(Signal("CHECK_TIMEOUT")) /\ UNCHANGED <<server, status, api, heard>>
    BY <1>3 DEF TimerFires, network
  <2>2. \A r \in Request : Expected(r)' => Expected(r)
    BY <1>0, <2>1, ExpectedAtPost DEF Signal
  <2> QED BY <2>1, <2>2, SameAnswers
<1>4. ASSUME NEW t \in Tasks, NEW r \in Request, RequestStep(t, r) PROVE Answers'
  BY <1>4, RequestAnswers
<1>5. ASSUME NEW k, NEW found, OnData(k, found) PROVE Answers'
  BY <1>5, OnDataAnswers
<1>6. ASSUME NEW type, Receive(type), UNCHANGED <<server, status, api, heard>> PROVE Answers'
  BY <1>6, ExpectedAtReceive, SameAnswers
<1>7. CASE OnConnected \/ OnDisconnected \/ OnCheckTimeout
  BY <1>6, <1>7 DEF OnConnected, OnDisconnected, OnCheckTimeout, network, history
<1>8. ASSUME UNCHANGED <<server, queue, status, api, heard>> PROVE Answers'
  BY <1>8, SameAnswers DEF Expected
<1>9. CASE Tick \/ CallResponse \/ ReturnFromCallback \/ CallTimeout \/ FinishList
  BY <1>8, <1>9 DEF Tick, CallResponse, ReturnFromCallback, CallTimeout, FinishList, network, history
<1>10. ASSUME NEW k, Sweep(k) PROVE Answers'
  BY <1>8, <1>10 DEF Sweep, history
<1>11. CASE Control \/ UNCHANGED vars
  BY <1>8, <1>11 DEF Control, tbcmh_connect, tbcmh_disconnect, tbcm_disconnect,
                     SweepAfterDisconnect, vars, network, history
<1> QED
  BY <1>1, <1>2, <1>3, <1>4, <1>5, <1>7, <1>9, <1>10, <1>11
  DEF Next, Environment, Api, Handle,
      tbcmh_attributes_request, tbcmh_twoway_clientrpc_request, tbcmh_provision_request,
      attributesrequest_on_data, clientrpc_on_data, provision_on_data,
      attributesrequest_on_check_timeout, clientrpc_on_check_timeout,
      provision_on_check_timeout

\* A request enters a list only from its own function, and in that step nothing
\* is heard.
LEMMA PendingGrows ==
  ASSUME [Next]_vars
  PROVE  /\ \/ pending' \subseteq pending
            \/ \E t \in Tasks, r \in Request : Insert(t, r) /\ pending' = pending \cup {r}
         /\ UNCHANGED status \/ UNCHANGED heard
<1>1. CASE Environment
  BY <1>1 DEF Environment, MqttConnected, MqttDisconnected, ConnectionChanges, MqttAnswer,
              TimerFires, Tick, lists, history
<1>2. CASE Api
  <2>1. PICK t \in Tasks, r \in Request : RequestStep(t, r)
    BY <1>2 DEF Api, tbcmh_attributes_request, tbcmh_twoway_clientrpc_request,
                tbcmh_provision_request
  <2>2. pending' = pending \/ (Insert(t, r) /\ pending' = pending \cup {r})
    BY <2>1 DEF RequestStep, Subscribe, Publish, Insert, lists
  <2>3. UNCHANGED heard
    BY <2>1 DEF RequestStep, Subscribe, Publish, Insert
  <2> QED BY <2>2, <2>3
<1>3. CASE Handle
  BY <1>3 DEF Handle, attributesrequest_on_data, clientrpc_on_data, provision_on_data, OnData,
              Remove, CallResponse, CallTimeout, ReturnFromCallback, OnConnected, OnDisconnected,
              OnCheckTimeout, attributesrequest_on_check_timeout, clientrpc_on_check_timeout,
              provision_on_check_timeout, Sweep, FinishList, ClearList, lists, history
<1>4. CASE Control
  BY <1>4 DEF Control, tbcmh_connect, tbcmh_disconnect, tbcm_disconnect, SweepAfterDisconnect,
              lists, history
<1>5. CASE UNCHANGED vars
  BY <1>5 DEF vars, lists, history
<1> QED BY <1>1, <1>2, <1>3, <1>4, <1>5 DEF Next

\* An answer is heard once its request is accepted, and then takes it out of its
\* list; nothing puts it back.
LEMMA DeliveredStep ==
  ASSUME FewIds, IInv, IInv', IdsInv, Answers, Answers', AnswerIsDelivered, [Next]_vars
  PROVE  AnswerIsDelivered'
<1> SUFFICES ASSUME NEW r \in heard', KindOf[r] # "provision" PROVE r \notin pending'
  BY DEF AnswerIsDelivered
<1>1. r \in Request /\ status'[r] \in {"accepted", "refused"}
  BY DEF IInv, TypeOK, HistoryType, Answers, HeardIsMade
<1>2. CASE status'[r] = "refused"
  BY <1>1, <1>2 DEF IInv, HeldIsOpen, Held
<1>3. CASE status'[r] = "accepted" /\ r \notin heard
  <2>1. status[r] = "accepted"
    BY <1>3, PendingGrows
  <2> QED BY <1>3, <2>1, FewAreApart, AnswerReaches DEF Reaches
<1>4. CASE r \in heard
  <2>1. r \notin pending /\ status[r] # "busy"
    BY <1>4 DEF AnswerIsDelivered, Answers, HeardIsMade
  <2>2. ASSUME NEW t \in Tasks, Insert(t, r) PROVE FALSE
    <3>1. api[t].pc # "idle" /\ api[t].req = r
      BY <2>2 DEF Insert
    <3> QED BY <2>1, <3>1 DEF IInv, BusyHasLock
  <2> QED BY <2>1, <2>2, PendingGrows
<1> QED BY <1>1, <1>2, <1>3, <1>4

\* One task that does not use up the ids finds no request whose answer was handled
\* in a list: it is not timed out later (_tbcmh_attributesrequest_on_data and
\* _tbcmh_clientrpc_on_data take the request out that was answered).
THEOREM AnswersAreDelivered ==
  ASSUME OneTask, FewIds
  PROVE  Spec => []AnswerIsDelivered
<1> DEFINE I == IInv /\ IdsInv /\ Answers /\ AnswerIsDelivered
<1>1. Init => I
  <2> SUFFICES ASSUME Init PROVE I
    OBVIOUS
  <2>1. IInv /\ IdsInv
    BY InitInv, IdsInit
  <2>2. heard = {} /\ queue = << >> /\ \A r \in Request : server[r] = 0 /\ status[r] = "new"
    BY DEF Init
  <2>3. \A r \in Request : ~Expected(r)
    <3>1. \A i \in 1..Len(queue) : FALSE
      BY <2>2
    <3>2. ~(0 > 0)
      OBVIOUS
    <3> QED BY <2>2, <3>1, <3>2, Zenon DEF Expected
  <2>4. Answers /\ AnswerIsDelivered
    BY <2>2, <2>3 DEF Answers, ExpectedIsMade, BusyIsMade, HeardIsMade, AnswerIsDelivered
  <2> QED BY <2>1, <2>4
<1>2. I /\ [Next]_vars => I'
  <2> SUFFICES ASSUME I, [Next]_vars PROVE I'
    OBVIOUS
  <2>1. IInv' /\ IdsInv' /\ Answers'
    BY InvStep, IdsStep, AnswersStep
  <2>2. AnswerIsDelivered'
    BY <2>1, DeliveredStep
  <2> QED BY <2>1, <2>2
<1>3. I => AnswerIsDelivered
  OBVIOUS
<1> QED BY <1>1, <1>2, <1>3, PTL DEF Spec
=============================================================================
