--------------------------- MODULE TbcmhSessionProofs ---------------------------
(***************************************************************************)
(* Proofs about TbcmhSession: for every set of requests and of tasks and   *)
(* all bounds.                                                             *)
(***************************************************************************)
EXTENDS TbcmhSession, FiniteSetTheorems, TLAPS

\* A request is at one place of the client at most.
HeldOnce ==
  /\ pending \cap timeout_list = {}
  /\ current \notin pending
  /\ current \notin timeout_list
  /\ pc = "respond" => current \in Request

\* What the client holds was accepted and got no callback yet.
HeldIsOpen ==
  \A r \in Held \cap Request : status[r] = "accepted" /\ calls[r] = 0

\* A request that is being made belongs to the task that has the lock.
BusyHasLock ==
  \A t \in Tasks : api[t].pc # "idle" =>
    /\ lock = t
    /\ api[t].req \in Request
    /\ status[api[t].req] = "busy"

\* The inductive invariant.
IInv == TypeOK /\ HeldOnce /\ HeldIsOpen /\ BusyHasLock /\ AtMostOneCallback

\* Putting an event into the queue.
LEMMA PostType ==
  ASSUME NEW e \in Event, QueueType, HistoryType, Post(e)
  PROVE  QueueType' /\ missed' \in BOOLEAN
BY SessionAssumption DEF Post, QueueType, HistoryType

\* Taking one out.
LEMMA ReceiveType ==
  ASSUME NEW type, QueueType, Receive(type)
  PROVE  QueueType' /\ (type = "DATA" => Answered \in Request)
<1>1. queue \in Seq(Event) /\ Len(queue) <= QueueSize /\ queue # << >>
      /\ queue' = Tail(queue) /\ Head(queue).type = type
  BY DEF QueueType, Receive
<1>2. Head(queue) \in Event
  BY <1>1
<1>3. queue' \in Seq(Event) /\ Len(queue') <= QueueSize
  BY <1>1, SessionAssumption
<1>4. type = "DATA" => Answered \in Request
  BY <1>1, <1>2 DEF Event, Answered
<1> QED BY <1>3, <1>4 DEF QueueType

\* The events the client can be sent.
LEMMA EventType ==
  /\ \A type \in {"CONNECTED", "DISCONNECTED", "CHECK_TIMEOUT"} : Signal(type) \in Event
  /\ \A r \in Request : [type |-> "DATA", req |-> r] \in Event
BY DEF Signal, Event

LEMMA KindsAre ==
  /\ Len(KindOrder) = 3
  /\ \A i \in 1..3 : KindOrder[i] \in Kinds
BY DEF Kinds, KindOrder

\* Taking requests out of a list.
LEMMA RemoveType ==
  ASSUME NEW S, NEW k, NetworkType, ListsType, Remove(S, k)
  PROVE  pending' \subseteq Request /\ subs' \subseteq Kinds
BY DEF Remove, NetworkType, ListsType

LEMMA TypeStep == TypeOK /\ [Next]_vars => TypeOK'
<1> SUFFICES ASSUME TypeOK, [Next]_vars PROVE TypeOK'
  OBVIOUS
<1> USE SessionAssumption
<1>0. NetworkType /\ QueueType /\ ListsType /\ ApiType /\ RunnerType /\ HistoryType
  BY DEF TypeOK
<1>1. CASE MqttConnected
  <2>1. Post(Signal("CONNECTED"))
    BY <1>1, <1>0 DEF MqttConnected, ConnectionChanges
  <2>2. QueueType' /\ missed' \in BOOLEAN
    BY <1>1, <1>0, <2>1, PostType, EventType DEF MqttConnected
  <2>3. NetworkType'
    BY <1>1, <1>0 DEF MqttConnected, ConnectionChanges, NetworkType
  <2>4. ListsType' /\ ApiType' /\ RunnerType'
    BY <1>1, <1>0 DEF MqttConnected, ConnectionChanges, lists, runner, ListsType, ApiType,
       RunnerType
  <2>5. HistoryType'
    BY <1>1, <1>0, <2>2 DEF MqttConnected, ConnectionChanges, HistoryType
  <2> QED BY <2>1, <2>2, <2>3, <2>4, <2>5 DEF TypeOK
<1>2. CASE MqttDisconnected
  <2>1. Post(Signal("DISCONNECTED"))
    BY <1>2, <1>0 DEF MqttDisconnected, ConnectionChanges
  <2>2. QueueType' /\ missed' \in BOOLEAN
    BY <1>2, <1>0, <2>1, PostType, EventType DEF MqttDisconnected
  <2>3. NetworkType'
    BY <1>2, <1>0 DEF MqttDisconnected, ConnectionChanges, NetworkType
  <2>4. ListsType' /\ ApiType' /\ RunnerType'
    BY <1>2, <1>0 DEF MqttDisconnected, ConnectionChanges, lists, runner, ListsType, ApiType,
       RunnerType
  <2>5. HistoryType'
    BY <1>2, <1>0, <2>2 DEF MqttDisconnected, ConnectionChanges, HistoryType
  <2> QED BY <2>1, <2>2, <2>3, <2>4, <2>5 DEF TypeOK
<1>3. ASSUME NEW r \in Request, MqttAnswer(r) PROVE TypeOK'
  <2>1. QueueType' /\ missed' \in BOOLEAN
    BY <1>3, <1>0, PostType, EventType DEF MqttAnswer, QueueType, HistoryType
  <2>2. NetworkType'
    BY <1>3, <1>0 DEF MqttAnswer, NetworkType
  <2>3. ListsType' /\ ApiType' /\ RunnerType'
    BY <1>3, <1>0 DEF MqttAnswer, lists, runner, ListsType, ApiType, RunnerType
  <2>4. HistoryType'
    BY <1>3, <1>0, <2>1 DEF MqttAnswer, HistoryType
  <2> QED BY <2>1, <2>2, <2>3, <2>4 DEF TypeOK
<1>4. CASE TimerFires
  <2>1. QueueType' /\ missed' \in BOOLEAN
    BY <1>4, <1>0, PostType, EventType DEF TimerFires
  <2>2. NetworkType' /\ ListsType' /\ ApiType' /\ RunnerType'
    BY <1>4, <1>0 DEF TimerFires, network, lists, runner, NetworkType, ListsType, ApiType,
       RunnerType
  <2>3. HistoryType'
    BY <1>4, <1>0, <2>1 DEF TimerFires, HistoryType
  <2> QED BY <2>1, <2>2, <2>3 DEF TypeOK
<1>5. CASE Tick
  <2>1. ListsType'
    BY <1>5, <1>0 DEF Tick, CheckGate, ListsType
  <2>2. NetworkType' /\ QueueType' /\ ApiType' /\ RunnerType' /\ HistoryType'
    BY <1>5, <1>0 DEF Tick, network, runner, history, NetworkType, QueueType, ApiType, RunnerType,
       HistoryType
  <2> QED BY <2>1, <2>2 DEF TypeOK
<1>6. ASSUME NEW t \in Tasks, NEW r \in Request, Subscribe(t, r) PROVE TypeOK'
  <2>1. KindOf[r] \in Kinds
    BY <1>6, <1>0 DEF Subscribe
  <2>2. NetworkType'
    BY <1>6, <1>0, <2>1 DEF Subscribe, NetworkType
  <2>3. ApiType'
    BY <1>6, <1>0 DEF Subscribe, ApiType
  <2>4. HistoryType'
    BY <1>6, <1>0 DEF Subscribe, HistoryType
  <2>5. QueueType' /\ ListsType' /\ RunnerType'
    BY <1>6, <1>0 DEF Subscribe, lists, runner, QueueType, ListsType, RunnerType
  <2> QED BY <2>1, <2>2, <2>3, <2>4, <2>5 DEF TypeOK
<1>7. ASSUME NEW t \in Tasks, NEW r \in Request, Publish(t, r) PROVE TypeOK'
  <2>1. NetworkType'
    BY <1>7, <1>0 DEF Publish, NetworkType
  <2>2. ListsType'
    BY <1>7, <1>0 DEF Publish, ListsType
  <2>3. ApiType'
    BY <1>7, <1>0 DEF Publish, Leave, Idle, ApiType
  <2>4. HistoryType'
    BY <1>7, <1>0 DEF Publish, Leave, HistoryType
  <2>5. QueueType' /\ RunnerType'
    BY <1>7, <1>0 DEF Publish, runner, QueueType, RunnerType
  <2> QED BY <2>1, <2>2, <2>3, <2>4, <2>5 DEF TypeOK
<1>8. ASSUME NEW t \in Tasks, NEW r \in Request, Insert(t, r) PROVE TypeOK'
  <2>1. ListsType'
    BY <1>8, <1>0 DEF Insert, ListsType
  <2>2. ApiType'
    BY <1>8, <1>0 DEF Insert, Leave, Idle, ApiType
  <2>3. HistoryType'
    BY <1>8, <1>0 DEF Insert, Leave, HistoryType
  <2>4. NetworkType' /\ QueueType' /\ RunnerType'
    BY <1>8, <1>0 DEF Insert, runner, network, NetworkType, QueueType, RunnerType
  <2> QED BY <2>1, <2>2, <2>3, <2>4 DEF TypeOK
<1>9. ASSUME NEW k, NEW found, found \subseteq Request, OnData(k, found) PROVE TypeOK'
  <2>1. QueueType' /\ Answered \in Request
    BY <1>9, <1>0, ReceiveType DEF OnData
  <2>2. pending' \subseteq Request /\ subs' \subseteq Kinds
    BY <1>9, <1>0, RemoveType DEF OnData, NetworkType, ListsType
  <2>3. NetworkType' /\ ListsType'
    BY <1>9, <1>0, <2>2 DEF OnData, NetworkType, ListsType
  <2>4. RunnerType'
    BY <1>9, <1>0 DEF OnData, RunnerType
  <2>5. HistoryType'
    BY <1>9, <1>0, <2>1 DEF OnData, HistoryType
  <2>6. ApiType'
    BY <1>9, <1>0 DEF OnData, ApiType
  <2> QED BY <2>1, <2>2, <2>3, <2>4, <2>5, <2>6 DEF TypeOK
<1>10. CASE CallResponse
  <2>1. HistoryType'
    BY <1>10, <1>0 DEF CallResponse, Called, HistoryType
  <2>2. RunnerType'
    BY <1>10, <1>0 DEF CallResponse, EnterCallback, RunnerType
  <2>3. NetworkType' /\ QueueType' /\ ListsType' /\ ApiType'
    BY <1>10, <1>0 DEF CallResponse, network, lists, NetworkType, QueueType, ListsType, ApiType
  <2> QED BY <2>1, <2>2, <2>3 DEF TypeOK
<1>11. CASE ReturnFromCallback
  <2>1. RunnerType'
    BY <1>11, <1>0 DEF ReturnFromCallback, RunnerType
  <2>2. NetworkType' /\ QueueType' /\ ListsType' /\ ApiType' /\ HistoryType'
    BY <1>11, <1>0 DEF ReturnFromCallback, network, lists, history, NetworkType, QueueType,
       ListsType, ApiType, HistoryType
  <2> QED BY <2>1, <2>2 DEF TypeOK
<1>12. CASE OnConnected
  <2>1. QueueType'
    BY <1>12, <1>0, ReceiveType DEF OnConnected
  <2>2. RunnerType'
    BY <1>12, <1>0 DEF OnConnected, EnterCallback, RunnerType
  <2>3. NetworkType' /\ ListsType' /\ ApiType' /\ HistoryType'
    BY <1>12, <1>0 DEF OnConnected, network, lists, history, NetworkType, ListsType, ApiType,
       HistoryType
  <2> QED BY <2>1, <2>2, <2>3 DEF TypeOK
<1>13. CASE OnDisconnected
  <2>1. QueueType'
    BY <1>13, <1>0, ReceiveType DEF OnDisconnected
  <2>2. RunnerType'
    BY <1>13, <1>0, KindsAre DEF OnDisconnected, StartSweep, RunnerType
  <2>3. NetworkType' /\ ListsType' /\ ApiType' /\ HistoryType'
    BY <1>13, <1>0 DEF OnDisconnected, network, lists, history, NetworkType, ListsType, ApiType,
       HistoryType
  <2> QED BY <2>1, <2>2, <2>3 DEF TypeOK
<1>14. CASE OnCheckTimeout
  <2>1. QueueType'
    BY <1>14, <1>0, ReceiveType DEF OnCheckTimeout
  <2>2. RunnerType'
    BY <1>14, <1>0, KindsAre DEF OnCheckTimeout, StartSweep, RunnerType
  <2>3. ListsType'
    BY <1>14, <1>0 DEF OnCheckTimeout, lists, CheckGate, ListsType
  <2>4. NetworkType' /\ ApiType' /\ HistoryType'
    BY <1>14, <1>0 DEF OnCheckTimeout, network, history, NetworkType, ApiType, HistoryType
  <2> QED BY <2>1, <2>2, <2>3, <2>4 DEF TypeOK
<1>15. ASSUME NEW k, Sweep(k) PROVE TypeOK'
  <2>1. pending' \subseteq Request /\ subs' \subseteq Kinds
    BY <1>15, <1>0, RemoveType DEF Sweep
  <2>2. NetworkType' /\ ListsType'
    BY <1>15, <1>0, <2>1 DEF Sweep, NetworkType, ListsType
  <2>3. RunnerType'
    BY <1>15, <1>0 DEF Sweep, Pending, ListsType, RunnerType
  <2>4. QueueType' /\ ApiType' /\ HistoryType'
    BY <1>15, <1>0 DEF Sweep, history, QueueType, ApiType, HistoryType
  <2> QED BY <2>1, <2>2, <2>3, <2>4 DEF TypeOK
<1>16. CASE CallTimeout
  <2>1. \E r \in Request : Called(r, "timeout")
    BY <1>16, <1>0 DEF CallTimeout, RunnerType
  <2>2. HistoryType'
    BY <1>16, <1>0, <2>1 DEF CallTimeout, Called, HistoryType
  <2>3. RunnerType'
    BY <1>16, <1>0 DEF CallTimeout, EnterCallback, RunnerType
  <2>4. NetworkType' /\ QueueType' /\ ListsType' /\ ApiType'
    BY <1>16, <1>0 DEF CallTimeout, network, lists, NetworkType, QueueType, ListsType, ApiType
  <2> QED BY <2>1, <2>2, <2>3, <2>4 DEF TypeOK
<1>17. CASE FinishList
  <2>1. ListsType'
    BY <1>17, <1>0 DEF FinishList, ClearList, ListsType
  <2>2. RunnerType'
    BY <1>17, <1>0, KindsAre DEF FinishList, EnterCallback, RunnerType
  <2>3. NetworkType' /\ QueueType' /\ ApiType' /\ HistoryType'
    BY <1>17, <1>0 DEF FinishList, network, history, NetworkType, QueueType, ApiType, HistoryType
  <2> QED BY <2>1, <2>2, <2>3 DEF TypeOK
<1>18. CASE tbcmh_connect
  <2>1. NetworkType'
    BY <1>18, <1>0 DEF tbcmh_connect, NetworkType
  <2>2. QueueType' /\ ListsType' /\ ApiType' /\ RunnerType' /\ HistoryType'
    BY <1>18, <1>0 DEF tbcmh_connect, lists, runner, history, QueueType, ListsType, ApiType,
       RunnerType, HistoryType
  <2> QED BY <2>1, <2>2 DEF TypeOK
<1>19. CASE tbcmh_disconnect
  <2>1. RunnerType'
    BY <1>19, <1>0 DEF tbcmh_disconnect, RunnerType
  <2>2. NetworkType' /\ QueueType' /\ ListsType' /\ ApiType' /\ HistoryType'
    BY <1>19, <1>0 DEF tbcmh_disconnect, network, lists, history, NetworkType, QueueType,
       ListsType, ApiType, HistoryType
  <2> QED BY <2>1, <2>2 DEF TypeOK
<1>20. CASE tbcm_disconnect
  <2>1. NetworkType'
    BY <1>20, <1>0 DEF tbcm_disconnect, NetworkType
  <2>2. RunnerType'
    BY <1>20, <1>0 DEF tbcm_disconnect, RunnerType
  <2>3. QueueType' /\ ListsType' /\ ApiType' /\ HistoryType'
    BY <1>20, <1>0 DEF tbcm_disconnect, lists, history, QueueType, ListsType, ApiType, HistoryType
  <2> QED BY <2>1, <2>2, <2>3 DEF TypeOK
<1>21. CASE SweepAfterDisconnect
  <2>1. RunnerType'
    BY <1>21, <1>0, KindsAre DEF SweepAfterDisconnect, StartSweep, RunnerType
  <2>2. NetworkType' /\ QueueType' /\ ListsType' /\ ApiType' /\ HistoryType'
    BY <1>21, <1>0 DEF SweepAfterDisconnect, network, lists, history, NetworkType, QueueType,
       ListsType, ApiType, HistoryType
  <2> QED BY <2>1, <2>2 DEF TypeOK
<1>22. CASE UNCHANGED vars
  <2>1. NetworkType' /\ QueueType' /\ ListsType'
    BY <1>22, <1>0 DEF vars, network, lists, NetworkType, QueueType, ListsType
  <2>2. ApiType' /\ RunnerType' /\ HistoryType'
    BY <1>22, <1>0 DEF vars, runner, history, ApiType, RunnerType, HistoryType
  <2> QED BY <2>1, <2>2 DEF TypeOK
<1>23. SameId \subseteq Request /\ AnyOfKind \subseteq Request
  BY <1>0 DEF SameId, AnyOfKind, Pending, ListsType
<1> QED
  BY <1>1, <1>2, <1>3, <1>4, <1>5, <1>6, <1>7, <1>8, <1>9, <1>10, <1>11, <1>12, <1>13, <1>14,
       <1>15, <1>16, <1>17, <1>18, <1>19, <1>20, <1>21, <1>22, <1>23
  DEF Next, Environment, Api, Handle, Control, RequestStep,
      tbcmh_attributes_request, tbcmh_twoway_clientrpc_request, tbcmh_provision_request,
      attributesrequest_on_data, clientrpc_on_data, provision_on_data,
      attributesrequest_on_check_timeout, clientrpc_on_check_timeout, provision_on_check_timeout

\* The steps that change nothing of it, or only where the Runner is.
LEMMA SamePlaces ==
  ASSUME IInv, UNCHANGED <<pending, timeout_list, current, status, calls, api, lock>>,
         pc' # "respond" \/ pc' = pc
  PROVE  HeldOnce' /\ HeldIsOpen' /\ BusyHasLock' /\ AtMostOneCallback'
BY DEF IInv, HeldOnce, HeldIsOpen, BusyHasLock, AtMostOneCallback, Held

\* Requests are only taken away from the lists.
LEMMA FewerPending ==
  ASSUME IInv, pending' \subseteq pending,
         UNCHANGED <<timeout_list, current, status, calls, api, lock>>,
         pc' # "respond"
  PROVE  HeldOnce' /\ HeldIsOpen' /\ BusyHasLock' /\ AtMostOneCallback'
BY DEF IInv, HeldOnce, HeldIsOpen, BusyHasLock, AtMostOneCallback, Held

LEMMA SubscribeInv ==
  ASSUME IInv, NEW t \in Tasks, NEW r \in Request, Subscribe(t, r)
  PROVE  HeldOnce' /\ HeldIsOpen' /\ BusyHasLock' /\ AtMostOneCallback'
<1> USE SessionAssumption
<1>1. /\ status \in [Request -> {"new", "busy", "accepted", "refused"}]
      /\ api \in [Tasks -> [pc : {"idle", "publish", "insert"}, req : Request \cup {NoRequest}]]
  BY DEF IInv, TypeOK, HistoryType, ApiType
<1>2. status[r] = "new" /\ lock = NoTask /\ \A q \in Request \ {r} : status'[q] = status[q]
  BY <1>1 DEF Subscribe
<1>3. UNCHANGED <<pending, timeout_list, current, pc, calls>>
  BY DEF Subscribe, lists, runner
<1>4. r \notin Held
  BY <1>2 DEF IInv, HeldIsOpen
<1>5. HeldOnce'
  BY <1>3 DEF IInv, HeldOnce
<1>6. HeldIsOpen'
  BY <1>2, <1>3, <1>4 DEF IInv, HeldIsOpen, Held
<1>7. AtMostOneCallback'
  BY <1>2, <1>3 DEF IInv, AtMostOneCallback
<1>8. BusyHasLock'
  <2>1. \A u \in Tasks : api[u].pc = "idle"
    BY <1>2 DEF IInv, BusyHasLock
  <2>2. CASE ~Connected
    BY <2>1, <2>2 DEF Subscribe, BusyHasLock
  <2>3. CASE Connected
    BY <1>1, <2>1, <2>3 DEF Subscribe, BusyHasLock
  <2> QED BY <2>2, <2>3
<1> QED BY <1>5, <1>6, <1>7, <1>8

\* A task that is inside a request function is the only one that is.
LEMMA OneIsBusy ==
  ASSUME IInv, NEW t \in Tasks, api[t].pc # "idle"
  PROVE  \A u \in Tasks \ {t} : api[u].pc = "idle"
BY DEF IInv, BusyHasLock

LEMMA PublishInv ==
  ASSUME IInv, NEW t \in Tasks, NEW r \in Request, Publish(t, r)
  PROVE  HeldOnce' /\ HeldIsOpen' /\ BusyHasLock' /\ AtMostOneCallback'
<1> USE SessionAssumption
<1>1. /\ status \in [Request -> {"new", "busy", "accepted", "refused"}]
      /\ api \in [Tasks -> [pc : {"idle", "publish", "insert"}, req : Request \cup {NoRequest}]]
  BY DEF IInv, TypeOK, HistoryType, ApiType
<1>2. api[t].pc = "publish" /\ api[t].req = r
  BY DEF Publish
<1>3. status[r] = "busy" /\ lock = t /\ \A u \in Tasks \ {t} : api[u].pc = "idle"
  BY <1>2, OneIsBusy DEF IInv, BusyHasLock
<1>4. UNCHANGED <<pending, timeout_list, current, pc, calls>>
  BY DEF Publish, runner
<1>5. r \notin Held
  BY <1>3 DEF IInv, HeldIsOpen
<1>6. \A q \in Request \ {r} : status'[q] = status[q]
  BY <1>1 DEF Publish, Leave
<1>7. HeldOnce'
  BY <1>4 DEF IInv, HeldOnce
<1>8. HeldIsOpen'
  BY <1>4, <1>5, <1>6 DEF IInv, HeldIsOpen, Held
<1>9. AtMostOneCallback'
  BY <1>3, <1>4, <1>6 DEF IInv, AtMostOneCallback
<1>10. BusyHasLock'
  BY <1>1, <1>2, <1>3 DEF Publish, Leave, Idle, BusyHasLock
<1> QED BY <1>7, <1>8, <1>9, <1>10

LEMMA InsertInv ==
  ASSUME IInv, NEW t \in Tasks, NEW r \in Request, Insert(t, r)
  PROVE  HeldOnce' /\ HeldIsOpen' /\ BusyHasLock' /\ AtMostOneCallback'
<1> USE SessionAssumption
<1>1. /\ status \in [Request -> {"new", "busy", "accepted", "refused"}]
      /\ api \in [Tasks -> [pc : {"idle", "publish", "insert"}, req : Request \cup {NoRequest}]]
      /\ calls \in [Request -> Nat]
  BY DEF IInv, TypeOK, HistoryType, ApiType
<1>2. api[t].pc = "insert" /\ api[t].req = r
  BY DEF Insert
<1>3. status[r] = "busy" /\ lock = t /\ \A u \in Tasks \ {t} : api[u].pc = "idle"
  BY <1>2, OneIsBusy DEF IInv, BusyHasLock
<1>4. UNCHANGED <<timeout_list, current, pc, calls>>
  BY DEF Insert, runner
<1>5. r \notin Held
  BY <1>3 DEF IInv, HeldIsOpen
<1>6. calls[r] = 0
  BY <1>1, <1>3 DEF IInv, AtMostOneCallback
<1>7. /\ \A q \in Request \ {r} : status'[q] = status[q]
      /\ \/ status'[r] = "accepted" /\ pending' = pending \cup {r}
         \/ status'[r] = "refused" /\ pending' = pending
  BY <1>1 DEF Insert, Leave
<1>8. HeldOnce'
  BY <1>4, <1>5, <1>7 DEF IInv, HeldOnce, Held
<1>9. HeldIsOpen'
  BY <1>4, <1>5, <1>6, <1>7 DEF IInv, HeldIsOpen, Held
<1>10. AtMostOneCallback'
  BY <1>3, <1>4, <1>6, <1>7 DEF IInv, AtMostOneCallback
<1>11. BusyHasLock'
  BY <1>1, <1>3 DEF Insert, Leave, Idle, BusyHasLock
<1> QED BY <1>8, <1>9, <1>10, <1>11

LEMMA OnDataInv ==
  ASSUME IInv, NEW k, NEW found, found \subseteq pending, OnData(k, found)
  PROVE  HeldOnce' /\ HeldIsOpen' /\ BusyHasLock' /\ AtMostOneCallback'
<1>1. UNCHANGED <<timeout_list, status, calls, api, lock>>
  BY DEF OnData
<1>2. CASE found = {}
  <2>1. UNCHANGED <<pending, current, pc>>
    BY <1>2 DEF OnData
  <2> QED BY <1>1, <2>1, SamePlaces
<1>3. CASE found # {}
  <2>1. PICK r \in found : Remove({r}, k) /\ current' = r
    BY <1>3 DEF OnData
  <2>2. pending' = pending \ {r} /\ current' = r /\ r \in pending
    BY <2>1 DEF Remove
  <2>3. r \in Request
    BY <2>2 DEF IInv, TypeOK, ListsType
  <2> QED BY <1>1, <2>2, <2>3
          DEF IInv, HeldOnce, HeldIsOpen, BusyHasLock, AtMostOneCallback, Held
<1> QED BY <1>2, <1>3

\* A callback ends the request that the client held for it.
LEMMA CalledInv ==
  ASSUME IInv, NEW r \in Request, NEW result, r \in Held, Called(r, result),
         Held' \cap Request \subseteq Held \ {r}, HeldOnce',
         UNCHANGED <<status, api, lock>>
  PROVE  HeldIsOpen' /\ BusyHasLock' /\ AtMostOneCallback'
<1>1. calls \in [Request -> Nat] /\ status[r] = "accepted" /\ calls[r] = 0
  BY DEF IInv, TypeOK, HistoryType, HeldIsOpen
<1>2. calls'[r] = 1 /\ \A q \in Request \ {r} : calls'[q] = calls[q]
  BY <1>1 DEF Called
<1>3. HeldIsOpen'
  BY <1>2 DEF IInv, HeldIsOpen
<1>4. AtMostOneCallback'
  BY <1>1, <1>2 DEF IInv, AtMostOneCallback
<1>5. BusyHasLock'
  BY DEF IInv, BusyHasLock
<1> QED BY <1>3, <1>4, <1>5

LEMMA CallResponseInv ==
  ASSUME IInv, CallResponse
  PROVE  HeldOnce' /\ HeldIsOpen' /\ BusyHasLock' /\ AtMostOneCallback'
<1> USE SessionAssumption
<1>1. current \in Request /\ current \in Held
  BY DEF IInv, HeldOnce, CallResponse, Held
<1>2. /\ current' = NoRequest /\ pc' = "callback"
      /\ UNCHANGED <<pending, timeout_list, status, api, lock>>
  BY DEF CallResponse, EnterCallback, lists
<1>3. pending \subseteq Request /\ timeout_list \subseteq Request
  BY DEF IInv, TypeOK, ListsType, RunnerType
<1>4. HeldOnce'
  BY <1>2, <1>3 DEF IInv, HeldOnce
<1>5. Held' \cap Request \subseteq Held \ {current}
  BY <1>2, <1>3 DEF IInv, HeldOnce, Held
<1>6. PICK result \in {"response", "failed"} : Called(current, result)
  BY DEF CallResponse
<1> QED BY <1>1, <1>2, <1>4, <1>5, <1>6, CalledInv

LEMMA SweepInv ==
  ASSUME IInv, NEW k, Sweep(k)
  PROVE  HeldOnce' /\ HeldIsOpen' /\ BusyHasLock' /\ AtMostOneCallback'
<1> DEFINE due == {r \in Pending(k) : why # "timeout" \/ age[r] >= TB_MQTT_TIMEOUT}
<1>1. Remove(due, k) /\ timeout_list' = due /\ pc' = "timeouts"
  BY DEF Sweep
<1>2. due \subseteq pending
  BY DEF Pending
<1>3. pending' = pending \ due
  BY <1>1 DEF Remove
<1>4. UNCHANGED <<current, status, calls, api, lock>>
  BY DEF Sweep, history
<1> HIDE DEF due
<1> QED BY <1>1, <1>2, <1>3, <1>4
        DEF IInv, HeldOnce, HeldIsOpen, BusyHasLock, AtMostOneCallback, Held

LEMMA CallTimeoutInv ==
  ASSUME IInv, CallTimeout
  PROVE  HeldOnce' /\ HeldIsOpen' /\ BusyHasLock' /\ AtMostOneCallback'
<1>1. PICK r \in timeout_list : timeout_list' = timeout_list \ {r} /\ Called(r, "timeout")
  BY DEF CallTimeout
<1>2. r \in Request /\ r \in Held
  BY DEF IInv, TypeOK, RunnerType, Held
<1>3. pc' = "callback" /\ UNCHANGED <<pending, current, status, api, lock>>
  BY DEF CallTimeout, EnterCallback, lists
<1>4. HeldOnce'
  BY <1>1, <1>3 DEF IInv, HeldOnce
<1>5. Held' \cap Request \subseteq Held \ {r}
  BY <1>1, <1>3 DEF IInv, HeldOnce, Held
<1> QED BY <1>1, <1>2, <1>3, <1>4, <1>5, CalledInv

LEMMA FinishListInv ==
  ASSUME IInv, FinishList
  PROVE  HeldOnce' /\ HeldIsOpen' /\ BusyHasLock' /\ AtMostOneCallback'
<1>1. pending' \subseteq pending
  BY DEF FinishList, ClearList
<1>2. UNCHANGED <<timeout_list, current, status, calls, api, lock>> /\ pc' # "respond"
  BY DEF FinishList, EnterCallback, history
<1> QED BY <1>1, <1>2, FewerPending

\* The type invariant and the rest of the invariant are preserved.
LEMMA InvStep == IInv /\ [Next]_vars => IInv'
<1> SUFFICES ASSUME IInv, [Next]_vars PROVE IInv'
  OBVIOUS
<1> DEFINE Rest == HeldOnce /\ HeldIsOpen /\ BusyHasLock /\ AtMostOneCallback
<1>1. TypeOK'
  BY TypeStep DEF IInv
<1> SUFFICES Rest'
  BY <1>1 DEF IInv
<1>2. ASSUME UNCHANGED <<pending, timeout_list, current, status, calls, api, lock>>,
             pc' # "respond" \/ pc' = pc
      PROVE  Rest'
  BY <1>2, SamePlaces
<1>3. CASE MqttConnected \/ MqttDisconnected
  BY <1>2, <1>3 DEF MqttConnected, MqttDisconnected, ConnectionChanges, lists, runner
<1>4. ASSUME NEW r \in Request, MqttAnswer(r) PROVE Rest'
  BY <1>2, <1>4 DEF MqttAnswer, lists, runner
<1>5. CASE TimerFires \/ Tick
  BY <1>2, <1>5 DEF TimerFires, Tick, lists, runner, history
<1>6. ASSUME NEW t \in Tasks, NEW r \in Request, RequestStep(t, r) PROVE Rest'
  BY <1>6, SubscribeInv, PublishInv, InsertInv DEF RequestStep
<1>7. ASSUME NEW k, NEW found, found \subseteq pending, OnData(k, found) PROVE Rest'
  BY <1>7, OnDataInv
<1>8. CASE CallResponse
  BY <1>8, CallResponseInv
<1>9. CASE ReturnFromCallback
  <2>1. pc' # "respond"
    BY <1>9 DEF ReturnFromCallback, IInv, TypeOK, RunnerType
  <2> QED BY <1>2, <1>9, <2>1 DEF ReturnFromCallback, lists, history
<1>10. CASE OnConnected \/ OnDisconnected
  BY <1>2, <1>10 DEF OnConnected, OnDisconnected, StartSweep, EnterCallback, lists, history
<1>11. CASE OnCheckTimeout
  BY <1>2, <1>11 DEF OnCheckTimeout, StartSweep, lists, history
<1>12. ASSUME NEW k, Sweep(k) PROVE Rest'
  BY <1>12, SweepInv
<1>13. CASE CallTimeout
  BY <1>13, CallTimeoutInv
<1>14. CASE FinishList
  BY <1>14, FinishListInv
<1>15. CASE tbcmh_connect
  BY <1>2, <1>15 DEF tbcmh_connect, lists, runner, history
<1>16. CASE tbcmh_disconnect \/ tbcm_disconnect \/ SweepAfterDisconnect
  BY <1>2, <1>16 DEF tbcmh_disconnect, tbcm_disconnect, SweepAfterDisconnect, StartSweep,
                     lists, history
<1>17. CASE UNCHANGED vars
  BY <1>2, <1>17 DEF vars, lists, runner, history
<1>18. SameId \subseteq pending /\ AnyOfKind \subseteq pending
  BY DEF SameId, AnyOfKind, Pending
<1> HIDE DEF Rest
<1> QED
  BY <1>3, <1>4, <1>5, <1>6, <1>7, <1>8, <1>9, <1>10, <1>11, <1>12, <1>13, <1>14, <1>15,
     <1>16, <1>17, <1>18
  DEF Next, Environment, Api, Handle, Control,
      tbcmh_attributes_request, tbcmh_twoway_clientrpc_request, tbcmh_provision_request,
      attributesrequest_on_data, clientrpc_on_data, provision_on_data,
      attributesrequest_on_check_timeout, clientrpc_on_check_timeout,
      provision_on_check_timeout

LEMMA InitInv == Init => IInv
<1> SUFFICES ASSUME Init PROVE IInv
  OBVIOUS
<1> USE SessionAssumption
<1>1. NetworkType /\ QueueType
  <2>1. << >> \in Seq(Event) /\ Len(<< >>) = 0
    OBVIOUS
  <2>2. queue = << >>
    BY DEF Init
  <2>3. NetworkType
    BY DEF Init, NetworkType
  <2>4. QueueType
    BY <2>1, <2>2 DEF QueueType
  <2> QED BY <2>3, <2>4
<1>2. ListsType
  BY DEF Init, ListsType, CheckGate
<1>3. ApiType
  BY DEF Init, ApiType, Idle
<1>4. RunnerType
  BY KindsAre DEF Init, RunnerType
<1>5. HistoryType
  BY DEF Init, HistoryType
<1>6. HeldOnce /\ HeldIsOpen /\ AtMostOneCallback
  BY DEF Init, HeldOnce, HeldIsOpen, AtMostOneCallback, Held
<1>7. BusyHasLock
  BY DEF Init, BusyHasLock, Idle
<1> QED BY <1>1, <1>2, <1>3, <1>4, <1>5, <1>6, <1>7 DEF IInv, TypeOK

\* Every state the client can reach, with any number of tasks and requests,
\* whether callbacks make requests or not, satisfies the invariant.
THEOREM Invariance == Spec => []IInv
BY InitInv, InvStep, PTL DEF Spec

\* The queue never overflows and every variable has its type.
THEOREM TypeCorrect == Spec => []TypeOK
<1>1. IInv => TypeOK
  BY DEF IInv
<1> QED BY <1>1, Invariance, PTL

\* on_response and on_timeout of a request are called once at most, and only
\* when the request function returned ESP_OK (attributes_request.c,
\* client_rpc.c, provision_request.c).
THEOREM CalledBackOnce == Spec => []AtMostOneCallback
<1>1. IInv => AtMostOneCallback
  BY DEF IInv
<1> QED BY <1>1, Invariance, PTL

-----------------------------------------------------------------------------
(* Request ids, and which request gets an answer.                          *)

\* Ids are drawn in order, one for each request that is published.
Drawn == {r \in Request : rid[r] # 0}

DrawnOnce ==
  \A q, r \in Request : rid[r] <= drawn /\ (rid[q] = rid[r] /\ r \in Drawn => q = r)

\* Who has drawn an id: not a request that has not been made, nor one that is
\* still to be published, but all that are in a list.
DrawnInTime ==
  /\ \A r \in Drawn : status[r] # "new"
  /\ \A t \in Tasks : /\ api[t].pc = "publish" => api[t].req \notin Drawn
                      /\ api[t].pc = "insert" => api[t].req \in Drawn
  /\ pending \subseteq Drawn

\* Each request has drawn at most one.
DrawnAreFew == IsFiniteSet(Request) => drawn <= Cardinality(Drawn)

IdsInv == DrawnOnce /\ DrawnInTime /\ DrawnAreFew

\* Two numbers that are less than MaxId apart have different ids on the wire.
LEMMA WireIdsDiffer ==
  ASSUME NEW a \in Nat, NEW b \in Nat, a # 0, a < b, b - a < MaxId
  PROVE  WireId(a) # WireId(b)
<1> USE SessionAssumption
<1> SUFFICES ASSUME (a - 1) % MaxId = (b - 1) % MaxId PROVE FALSE
  BY DEF WireId
<1> DEFINE p == (a - 1) \div MaxId
           q == (b - 1) \div MaxId
<1>1. p \in Int /\ q \in Int /\ (a - 1) % MaxId \in Int
  OBVIOUS
<1>2. a - 1 = MaxId * p + ((a - 1) % MaxId)
  OBVIOUS
<1>3. b - 1 = MaxId * q + ((b - 1) % MaxId)
  OBVIOUS
<1> HIDE DEF p, q
<1>4. b - a = MaxId * (q - p)
  BY <1>1, <1>2, <1>3
<1>5. q - p >= 1 => MaxId * (q - p) >= MaxId
  BY <1>1
<1>6. q - p <= 0 => MaxId * (q - p) <= 0
  BY <1>1
<1> QED BY <1>1, <1>4, <1>5, <1>6

\* Steps that draw nothing.
LEMMA SameIds ==
  ASSUME IdsInv, UNCHANGED <<drawn, rid, status, api>>, pending' \subseteq pending
  PROVE  IdsInv'
<1>1. Drawn' = Drawn
  BY DEF Drawn
<1>2. DrawnOnce'
  BY <1>1 DEF IdsInv, DrawnOnce
<1>3. DrawnInTime'
  BY <1>1 DEF IdsInv, DrawnInTime
<1>4. DrawnAreFew'
  BY <1>1 DEF IdsInv, DrawnAreFew
<1> QED BY <1>2, <1>3, <1>4 DEF IdsInv

LEMMA SubscribeIds ==
  ASSUME IInv, IdsInv, NEW t \in Tasks, NEW r \in Request, Subscribe(t, r)
  PROVE  IdsInv'
<1>1. /\ status \in [Request -> {"new", "busy", "accepted", "refused"}]
      /\ api \in [Tasks -> [pc : {"idle", "publish", "insert"}, req : Request \cup {NoRequest}]]
  BY DEF IInv, TypeOK, HistoryType, ApiType
<1>2. UNCHANGED <<drawn, rid, pending>> /\ r \notin Drawn
  BY DEF Subscribe, lists, IdsInv, DrawnInTime
<1>3. Drawn' = Drawn
  BY <1>2 DEF Drawn
<1>4. DrawnOnce' /\ DrawnAreFew'
  BY <1>2, <1>3 DEF IdsInv, DrawnOnce, DrawnAreFew
<1>5. \A q \in Drawn : status'[q] # "new"
  <2>1. \A q \in Request \ {r} : status'[q] = status[q]
    BY <1>1 DEF Subscribe
  <2>2. \A q \in Drawn : q \in Request /\ status[q] # "new"
    BY DEF Drawn, IdsInv, DrawnInTime
  <2> QED BY <1>2, <2>1, <2>2
<1>6. \A u \in Tasks : api'[u] = api[u] \/ api'[u] = [pc |-> "publish", req |-> r]
  BY <1>1 DEF Subscribe
<1>7. DrawnInTime'
  BY <1>2, <1>3, <1>5, <1>6 DEF IdsInv, DrawnInTime
<1> QED BY <1>4, <1>7 DEF IdsInv

LEMMA PublishIds ==
  ASSUME IInv, IdsInv, NEW t \in Tasks, NEW r \in Request, Publish(t, r)
  PROVE  IdsInv'
<1> USE SessionAssumption
<1>1. /\ status \in [Request -> {"new", "busy", "accepted", "refused"}]
      /\ api \in [Tasks -> [pc : {"idle", "publish", "insert"}, req : Request \cup {NoRequest}]]
      /\ rid \in [Request -> Nat] /\ drawn \in Nat
  BY DEF IInv, TypeOK, HistoryType, ApiType, ListsType
<1>2. api[t].pc = "publish" /\ api[t].req = r
  BY DEF Publish
<1>3. r \notin Drawn /\ status[r] = "busy"
  BY <1>2 DEF IdsInv, DrawnInTime, IInv, BusyHasLock
<1>4. /\ drawn' = drawn + 1 /\ rid' = [rid EXCEPT ![r] = drawn + 1]
      /\ pending' = pending
  BY DEF Publish
<1>5. rid'[r] = drawn + 1 /\ \A q \in Request \ {r} : rid'[q] = rid[q]
  BY <1>1, <1>4
<1>6. Drawn' = Drawn \cup {r}
  BY <1>1, <1>3, <1>5 DEF Drawn
<1>7. DrawnOnce'
  <2>1. \A q \in Request : rid[q] <= drawn /\ rid[q] \in Nat
    BY <1>1 DEF IdsInv, DrawnOnce
  <2> SUFFICES ASSUME NEW q \in Request, NEW p \in Request
               PROVE  rid'[p] <= drawn' /\ (rid'[q] = rid'[p] /\ p \in Drawn' => q = p)
    BY DEF DrawnOnce
  <2>2. rid'[p] <= drawn'
    BY <1>1, <1>4, <1>5, <2>1
  <2>3. CASE p = r \/ q = r
    <3>1. \A o \in Request \ {r} : rid'[o] < rid'[r]
      BY <1>1, <1>5, <2>1
    <3> QED BY <1>1, <1>5, <2>1, <2>2, <2>3, <3>1
  <2>4. CASE p # r /\ q # r
    <3>1. rid'[p] = rid[p] /\ rid'[q] = rid[q] /\ (p \in Drawn' => p \in Drawn)
      BY <1>5, <1>6, <2>4
    <3> QED BY <2>2, <3>1 DEF IdsInv, DrawnOnce
  <2> QED BY <2>2, <2>3, <2>4
<1>8. DrawnInTime'
  <2>1. \A u \in Tasks \ {t} : api'[u] = api[u] /\ api[u].pc = "idle"
    BY <1>1, <1>2, OneIsBusy DEF Publish, Leave
  <2>2. api'[t].pc = "idle" \/ (api'[t].pc = "insert" /\ api'[t].req = r)
    BY <1>1, <1>2 DEF Publish, Leave, Idle
  <2>3. \A q \in Drawn' : status'[q] # "new"
    <3>1. status'[r] # "new" /\ \A q \in Request \ {r} : status'[q] = status[q]
      BY <1>1, <1>3 DEF Publish, Leave
    <3>2. \A q \in Drawn : q \in Request /\ status[q] # "new"
      BY DEF Drawn, IdsInv, DrawnInTime
    <3> QED BY <1>6, <3>1, <3>2
  <2> QED BY <1>4, <1>6, <2>1, <2>2, <2>3 DEF IdsInv, DrawnInTime
<1>9. DrawnAreFew'
  <2> SUFFICES ASSUME IsFiniteSet(Request) PROVE drawn' <= Cardinality(Drawn')
    BY DEF DrawnAreFew
  <2>1. IsFiniteSet(Drawn)
    BY FS_Subset DEF Drawn
  <2>2. Cardinality(Drawn') = Cardinality(Drawn) + 1 /\ Cardinality(Drawn) \in Nat
    BY <1>3, <1>6, <2>1, FS_AddElement, FS_CardinalityType
  <2> QED BY <1>1, <1>4, <2>2 DEF IdsInv, DrawnAreFew
<1> QED BY <1>7, <1>8, <1>9 DEF IdsInv

LEMMA InsertIds ==
  ASSUME IInv, IdsInv, NEW t \in Tasks, NEW r \in Request, Insert(t, r)
  PROVE  IdsInv'
<1>1. /\ status \in [Request -> {"new", "busy", "accepted", "refused"}]
      /\ api \in [Tasks -> [pc : {"idle", "publish", "insert"}, req : Request \cup {NoRequest}]]
  BY DEF IInv, TypeOK, HistoryType, ApiType
<1>2. api[t].pc = "insert" /\ api[t].req = r
  BY DEF Insert
<1>3. r \in Drawn /\ UNCHANGED <<rid, drawn>>
  BY <1>2 DEF IdsInv, DrawnInTime, Insert
<1>4. Drawn' = Drawn
  BY <1>3 DEF Drawn
<1>5. DrawnOnce' /\ DrawnAreFew'
  BY <1>3, <1>4 DEF IdsInv, DrawnOnce, DrawnAreFew
<1>6. pending' \subseteq pending \cup {r}
  BY DEF Insert
<1>7. \A q \in Drawn : status'[q] # "new"
  <2>1. status'[r] # "new" /\ \A q \in Request \ {r} : status'[q] = status[q]
    BY <1>1 DEF Insert, Leave
  <2>2. \A q \in Drawn : q \in Request /\ status[q] # "new"
    BY DEF Drawn, IdsInv, DrawnInTime
  <2> QED BY <2>1, <2>2
<1>8. \A u \in Tasks : api'[u] = api[u] \/ api'[u].pc = "idle"
  BY <1>1 DEF Insert, Leave, Idle
<1>9. DrawnInTime'
  BY <1>3, <1>4, <1>6, <1>7, <1>8 DEF IdsInv, DrawnInTime
<1> QED BY <1>5, <1>9 DEF IdsInv

LEMMA IdsStep == IInv /\ IdsInv /\ [Next]_vars => IdsInv'
<1> SUFFICES ASSUME IInv, IdsInv, [Next]_vars PROVE IdsInv'
  OBVIOUS
<1>1. CASE MqttConnected \/ MqttDisconnected
  BY <1>1, SameIds DEF MqttConnected, MqttDisconnected, ConnectionChanges, lists
<1>2. ASSUME NEW r \in Request, MqttAnswer(r) PROVE IdsInv'
  BY <1>2, SameIds DEF MqttAnswer, lists
<1>3. CASE TimerFires \/ Tick
  BY <1>3, SameIds DEF TimerFires, Tick, lists, history
<1>4. ASSUME NEW t \in Tasks, NEW r \in Request, RequestStep(t, r) PROVE IdsInv'
  BY <1>4, SubscribeIds, PublishIds, InsertIds DEF RequestStep
<1>5. ASSUME NEW k, NEW found, OnData(k, found) PROVE IdsInv'
  BY <1>5, SameIds DEF OnData, Remove
<1>6. CASE CallResponse \/ CallTimeout
  BY <1>6, SameIds DEF CallResponse, CallTimeout, lists
<1>7. CASE ReturnFromCallback
  BY <1>7, SameIds DEF ReturnFromCallback, lists, history
<1>8. CASE OnConnected \/ OnDisconnected \/ OnCheckTimeout
  BY <1>8, SameIds DEF OnConnected, OnDisconnected, OnCheckTimeout, lists, history
<1>9. ASSUME NEW k, Sweep(k) PROVE IdsInv'
  BY <1>9, SameIds DEF Sweep, Remove, history
<1>10. CASE FinishList
  BY <1>10, SameIds DEF FinishList, ClearList, history
<1>11. CASE Control
  BY <1>11, SameIds DEF Control, tbcmh_connect, tbcmh_disconnect, tbcm_disconnect,
                        SweepAfterDisconnect, lists, history
<1>12. CASE UNCHANGED vars
  BY <1>12, SameIds DEF vars, lists, history
<1> QED
  BY <1>1, <1>2, <1>3, <1>4, <1>5, <1>6, <1>7, <1>8, <1>9, <1>10, <1>11, <1>12
  DEF Next, Environment, Api, Handle,
      tbcmh_attributes_request, tbcmh_twoway_clientrpc_request, tbcmh_provision_request,
      attributesrequest_on_data, clientrpc_on_data, provision_on_data,
      attributesrequest_on_check_timeout, clientrpc_on_check_timeout,
      provision_on_check_timeout

LEMMA IdsInit == Init => IdsInv
<1> SUFFICES ASSUME Init PROVE IdsInv
  OBVIOUS
<1>1. drawn = 0 /\ pending = {}
  BY DEF Init
<1>2. \A r \in Request : rid[r] = 0 /\ r \notin Drawn
  BY DEF Init, Drawn
<1>3. Drawn = {}
  BY <1>2 DEF Drawn
<1>4. DrawnOnce
  <2>1. 0 <= 0
    OBVIOUS
  <2>2. \A r \in Request : rid[r] <= drawn
    BY <1>1, <1>2, <2>1, Zenon
  <2> QED BY <1>2, <2>2, Zenon DEF DrawnOnce
<1>5. DrawnInTime
  BY <1>1, <1>3 DEF Init, DrawnInTime, Idle
<1>6. DrawnAreFew
  BY <1>1, <1>3, FS_EmptySet DEF DrawnAreFew
<1> QED BY <1>4, <1>5, <1>6 DEF IdsInv

LEMMA IdsInvariance == Spec => [](IInv /\ IdsInv)
<1>1. Spec => []IdsInv
  BY IdsInit, IdsStep, Invariance, PTL DEF Spec
<1> QED BY <1>1, Invariance, PTL

\* No request waits while MaxId others are made.
IdsAreApart == \A q, r \in pending : rid[q] - rid[r] < MaxId

\* The answer to an accepted request takes it out of its list.
Reaches(r) == KindOf[r] # "provision" /\ status[r] = "accepted" => r \notin pending'

\* The first request with the id of an answer is the one that was answered.
LEMMA AnswerReaches ==
  ASSUME IInv, IdsInv, IdsAreApart, [Next]_vars, NEW r \in heard', r \notin heard
  PROVE  Reaches(r)
<1>1. \/ OnData("attributes", SameId) \/ OnData("clientrpc", SameId)
      \/ OnData("provision", AnyOfKind) \/ heard' = heard
  <2>1. CASE Environment
    BY <2>1 DEF Environment, MqttConnected, MqttDisconnected, ConnectionChanges, MqttAnswer,
                TimerFires, Tick, history
  <2>2. CASE Api
    BY <2>2 DEF Api, tbcmh_attributes_request, tbcmh_twoway_clientrpc_request,
                tbcmh_provision_request, RequestStep, Subscribe, Publish, Insert
  <2>3. CASE Handle
    BY <2>3 DEF Handle, attributesrequest_on_data, clientrpc_on_data, provision_on_data,
                CallResponse, CallTimeout, ReturnFromCallback, OnConnected, OnDisconnected,
                OnCheckTimeout, attributesrequest_on_check_timeout, clientrpc_on_check_timeout,
                provision_on_check_timeout, Sweep, FinishList, history
  <2>4. CASE Control
    BY <2>4 DEF Control, tbcmh_connect, tbcmh_disconnect, tbcm_disconnect, SweepAfterDisconnect,
                history
  <2>5. CASE UNCHANGED vars
    BY <2>5 DEF vars, history
  <2> QED BY <2>1, <2>2, <2>3, <2>4, <2>5 DEF Next
<1>2. CASE OnData("provision", AnyOfKind)
  <2>1. r = Answered /\ KindOf[r] = "provision"
    BY <1>2 DEF OnData
  <2> QED BY <2>1 DEF Reaches
<1>3. ASSUME NEW k, OnData(k, SameId) PROVE Reaches(r)
  <2>1. r = Answered /\ KindOf[r] = k
    BY <1>3 DEF OnData
  <2>0. pending' \subseteq pending
    BY <1>3 DEF OnData, Remove
  <2> SUFFICES ASSUME r \in pending PROVE r \notin pending'
    BY <2>0 DEF Reaches
  <2>2. r \in SameId
    BY <2>1 DEF SameId, Pending
  <2>3. PICK q \in SameId : IsOldest(q, SameId) /\ pending' = pending \ {q}
    BY <1>3, <2>2 DEF OnData, Remove
  <2>4. q \in pending /\ WireId(rid[q]) = WireId(rid[r]) /\ rid[q] <= rid[r]
    BY <2>1, <2>2, <2>3 DEF SameId, Pending, IsOldest
  <2>5. q \in Request /\ r \in Request /\ rid[q] \in Nat /\ rid[r] \in Nat
    BY <2>4 DEF IInv, TypeOK, ListsType
  <2>6. q \in Drawn /\ rid[q] # 0
    BY <2>4 DEF IdsInv, DrawnInTime, Drawn
  <2>7. ~(rid[q] < rid[r])
    BY <2>4, <2>5, <2>6, WireIdsDiffer DEF IdsAreApart
  <2>8. q = r
    BY <2>4, <2>5, <2>6, <2>7 DEF IdsInv, DrawnOnce
  <2> QED BY <2>3, <2>8
<1> QED BY <1>1, <1>2, <1>3

\* Whatever tasks and callbacks do, and however often the ids have wrapped: if no
\* request waits while MaxId others are made, an answer that is taken out of the
\* queue after its request was accepted does not leave this request in its list
\* (_tbcmh_attributesrequest_on_data and the like).
THEOREM AnswersGoHome ==
  Spec => [][IdsAreApart => \A r \in heard' \ heard : Reaches(r)]_vars
<1>1. IInv /\ IdsInv /\ [Next]_vars => [IdsAreApart => \A r \in heard' \ heard : Reaches(r)]_vars
  BY AnswerReaches
<1> QED BY <1>1, IdsInvariance, PTL DEF Spec

\* No more requests than there are ids.
FewIds == IsFiniteSet(Request) /\ Cardinality(Request) <= MaxId

LEMMA FewAreApart ==
  ASSUME FewIds, IInv, IdsInv
  PROVE  IdsAreApart
<1> USE SessionAssumption
<1> SUFFICES ASSUME NEW q \in pending, NEW r \in pending PROVE rid[q] - rid[r] < MaxId
  BY DEF IdsAreApart
<1>1. Drawn \subseteq Request
  BY DEF Drawn
<1>2. Cardinality(Drawn) <= MaxId /\ Cardinality(Drawn) \in Nat
  <2>1. IsFiniteSet(Drawn) /\ Cardinality(Drawn) <= Cardinality(Request)
    BY <1>1, FS_Subset DEF FewIds
  <2>2. Cardinality(Drawn) \in Nat /\ Cardinality(Request) \in Nat
    BY <2>1, FS_CardinalityType DEF FewIds
  <2> QED BY <2>1, <2>2 DEF FewIds
<1>3. drawn <= MaxId /\ drawn \in Nat
  BY <1>2 DEF FewIds, IdsInv, DrawnAreFew, IInv, TypeOK, ListsType
<1>4. /\ q \in Request /\ r \in Request /\ rid[q] \in Nat /\ rid[r] \in Nat
      /\ rid[q] <= drawn /\ r \in Drawn
  BY DEF IInv, TypeOK, ListsType, IdsInv, DrawnOnce, DrawnInTime
<1> QED BY <1>3, <1>4 DEF Drawn

\* Before the ids are used up, an answer reaches its request if this was accepted
\* before: it can only be too early.
THEOREM AnswersReachAccepted ==
  ASSUME FewIds
  PROVE  Spec => AnswerReachesAccepted
<1>1. IInv /\ IdsInv /\ [Next]_vars =>
        [\A r \in heard' \ heard :
           KindOf[r] # "provision" /\ status[r] = "accepted" => r \notin pending']_vars
  BY FewAreApart, AnswerReaches DEF Reaches
<1> QED BY <1>1, IdsInvariance, PTL DEF Spec, AnswerReachesAccepted
=============================================================================
