---------------------------- MODULE TbcmhSession ----------------------------
(***************************************************************************)
(* The request/response core of the client, helper/tbc_mqtt_helper.c with  *)
(* helper/attributes_request.c, client_rpc.c and provision_request.c.      *)
(*                                                                         *)
(* Application tasks send requests under client->_lock.  The MQTT task and *)
(* the timer task only put events into client->_xQueue.  One application   *)
(* task, the Runner, calls tbcmh_run(): it takes the events out, and calls *)
(* the application back, without holding the lock.                         *)
(*                                                                         *)
(* A request is a member of Request and is made at most once.  KindOf says *)
(* which of the three lists it goes into.  A list is the set of its        *)
(* requests: ids are drawn and requests appended under one lock, so the    *)
(* order of a list is the order in which the ids were drawn.               *)
(***************************************************************************)
EXTENDS Integers, Sequences

CONSTANTS
  Request,          \* the requests the application makes
  KindOf,           \* the kind of each request
  Tasks,            \* the application's tasks
  Runner,           \* the task that calls tbcmh_run and tbcmh_disconnect
  NoTask, NoRequest,
  QueueSize,        \* capacity of _xQueue, 40 in the code
  MaxId,            \* the largest next_request_id, 65535 in the code
  TB_MQTT_TIMEOUT,  \* in ticks of the clock, 30 s in the code
  MaxSessions,      \* bound: how often the connection changes
  Copies,           \* bound: answers the server gives to one request
  CallbackRequests  \* whether callbacks make requests

\* The order in which the handlers visit the lists.
KindOrder == <<"attributes", "clientrpc", "provision">>
Kinds == {KindOrder[i] : i \in 1..Len(KindOrder)}

ASSUME SessionAssumption ==
  /\ KindOf \in [Request -> Kinds]
  /\ Runner \in Tasks
  /\ NoTask \notin Tasks
  /\ NoRequest \notin Request
  /\ QueueSize \in Nat \ {0}
  /\ MaxId \in Nat \ {0}
  /\ TB_MQTT_TIMEOUT \in Nat
  /\ MaxSessions \in Nat
  /\ Copies \in Nat
  /\ CallbackRequests \in BOOLEAN

VARIABLES
  \* The wrapper, the broker and the server.
  state,        \* tbcm_t.state
  started,      \* mqtt_handle # NULL
  timer,        \* respone_timer has been started
  subs,         \* response topics the broker has subscriptions for
  server,       \* how often the server may still answer a request
  \* tbcmh_t.
  queue,        \* _xQueue
  lock,         \* holder of _lock
  drawn,        \* ids drawn so far; next_request_id is WireId(drawn)
  pending,      \* the requests in the three lists
  rid,          \* request_id of a request, as the number of its draw
  age,          \* time since its timestamp, saturating
  sinceCheck,   \* time since last_check_timestamp, saturating
  \* The tasks.
  api,          \* where each task is inside a request function
  pc, ret,      \* where the Runner is, and where its callback returns to
  why, turn,    \* why it sweeps the lists, and which list is next
  timeout_list, \* taken out of a list, on_timeout to be called
  current,      \* taken out of a list, on_response to be called
  stopping,     \* progress of tbcmh_disconnect
  \* History.
  session,      \* how often the connection has changed
  since,        \* the session a request was made in
  status,       \* what the request function did with a request
  outcome,      \* the last callback a request got
  calls,        \* how many callbacks it got
  heard,        \* requests whose answer was taken out of the queue
  missed        \* a TBCM_EVENT_DISCONNECTED was dropped

network == <<state, started, timer, subs, server>>
lists   == <<pending, rid, age>>
runner  == <<pc, ret, why, turn, timeout_list, current, stopping>>
history == <<session, since, status, outcome, calls, heard, missed>>
vars == <<network, queue, lock, drawn, lists, sinceCheck, api, runner, history>>

Event == [type : {"CONNECTED", "DISCONNECTED", "CHECK_TIMEOUT"}, req : {NoRequest}]
           \cup [type : {"DATA"}, req : Request]
Signal(type) == [type |-> type, req |-> NoRequest]

CheckGate == TB_MQTT_TIMEOUT + 2
Connected == state = "CONNECTED"
Pending(k) == {r \in pending : KindOf[r] = k}

\* _tbcmh_get_request_id: a uint16_t that skips zero.
WireId(n) == ((n - 1) % MaxId) + 1
IsOldest(r, S) == r \in S /\ \A q \in S : rid[r] <= rid[q]

Idle == [pc |-> "idle", req |-> NoRequest]

Init ==
  /\ state = "DISCONNECTED" /\ started = FALSE /\ timer = FALSE
  /\ subs = {} /\ server = [r \in Request |-> 0]
  /\ queue = << >> /\ lock = NoTask /\ drawn = 0
  /\ pending = {} /\ rid = [r \in Request |-> 0] /\ age = [r \in Request |-> 0]
  /\ sinceCheck = 0
  /\ api = [t \in Tasks |-> Idle]
  /\ pc = "idle" /\ ret = "idle" /\ why = "timeout" /\ turn = 1
  /\ timeout_list = {} /\ current = NoRequest /\ stopping = "no"
  /\ session = 0 /\ since = [r \in Request |-> 0]
  /\ status = [r \in Request |-> "new"] /\ outcome = [r \in Request |-> "none"]
  /\ calls = [r \in Request |-> 0] /\ heard = {} /\ missed = FALSE

-----------------------------------------------------------------------------
(* esp-mqtt, the broker and the server, the timer task and the clock.      *)

\* Mutant: one event more than the queue can hold.
PostOneTooMany(e) ==
  /\ queue' = IF Len(queue) <= QueueSize THEN Append(queue, e) ELSE queue
  /\ missed' = (missed \/ (e.type = "DISCONNECTED" /\ Len(queue) > QueueSize))

\* _on_tbcm_event_bridge_send: a full queue is waited for 20 times, then the
\* event is dropped.
Post(e) ==
  /\ queue' = IF Len(queue) < QueueSize THEN Append(queue, e) ELSE queue
  /\ missed' = (missed \/ (e.type = "DISCONNECTED" /\ Len(queue) >= QueueSize))

\* The session is clean: the broker forgets the subscriptions of the last one.
ConnectionChanges(s) ==
  /\ started
  /\ session < MaxSessions
  /\ session' = session + 1
  /\ state' = s
  /\ subs' = {}
  /\ Post(Signal(s))
  /\ UNCHANGED <<started, server, lock, drawn, lists, sinceCheck, api, runner,
                 since, status, outcome, calls, heard>>

\* MQTT_EVENT_CONNECTED; the timer is started once and keeps running.
MqttConnected ==
  /\ state # "CONNECTED"
  /\ ConnectionChanges("CONNECTED")
  /\ timer' = TRUE

\* MQTT_EVENT_DISCONNECTED, also after a failed attempt to connect.  esp-mqtt
\* tries again by itself.
MqttDisconnected ==
  /\ ConnectionChanges("DISCONNECTED")
  /\ UNCHANGED timer

\* MQTT_EVENT_DATA with an answer to r; copying its payload may fail.
MqttAnswer(r) ==
  /\ Connected
  /\ KindOf[r] \in subs
  /\ server[r] > 0
  /\ server' = [server EXCEPT ![r] = @ - 1]
  /\ \/ Post([type |-> "DATA", req |-> r])
     \/ UNCHANGED <<queue, missed>>
  /\ UNCHANGED <<state, started, timer, subs, lock, drawn, lists, sinceCheck, api, runner,
                 session, since, status, outcome, calls, heard>>

\* __response_timer_timerout
TimerFires ==
  /\ timer /\ started
  /\ Post(Signal("CHECK_TIMEOUT"))
  /\ UNCHANGED <<network, lock, drawn, lists, sinceCheck, api, runner,
                 session, since, status, outcome, calls, heard>>

\* One unit of time().
Tick ==
  /\ age' = [r \in Request |-> IF r \in pending /\ age[r] < TB_MQTT_TIMEOUT
                               THEN age[r] + 1 ELSE age[r]]
  /\ sinceCheck' = IF sinceCheck < CheckGate THEN sinceCheck + 1 ELSE sinceCheck
  /\ UNCHANGED <<network, queue, lock, drawn, pending, rid, api, runner, history>>

-----------------------------------------------------------------------------
(* A request function: tbcmh_attributes_request, and the same code for     *)
(* client-side RPC and provisioning.                                       *)

\* A task runs application code: the Runner only between two calls of
\* tbcmh_run, or in a callback.
InApplication(t) ==
  /\ api[t] = Idle
  /\ t = Runner => \/ pc = "idle" /\ stopping = "no"
                   \/ pc = "callback" /\ CallbackRequests

\* The lock is taken; a client that is not connected refuses.  The response
\* topic is subscribed when the list of the kind is empty.
Subscribe(t, r) ==
  /\ InApplication(t)
  /\ status[r] = "new"
  /\ lock = NoTask
  /\ since' = [since EXCEPT ![r] = session]
  /\ \/ /\ ~Connected
        /\ status' = [status EXCEPT ![r] = "refused"]
        /\ UNCHANGED <<lock, api, subs>>
     \/ /\ Connected
        /\ status' = [status EXCEPT ![r] = "busy"]
        /\ lock' = t
        /\ api' = [api EXCEPT ![t] = [pc |-> "publish", req |-> r]]
        /\ subs' = IF Pending(KindOf[r]) = {} THEN subs \cup {KindOf[r]} ELSE subs
  /\ UNCHANGED <<state, started, timer, server, queue, drawn, lists, sinceCheck, runner,
                 session, outcome, calls, heard, missed>>

Leave(t, r, result) ==
  /\ status' = [status EXCEPT ![r] = result]
  /\ lock' = NoTask
  /\ api' = [api EXCEPT ![t] = Idle]

\* The id is drawn and the request published with QoS 1: esp-mqtt keeps it
\* and sends it again until it gets through.  Publishing may fail.
Publish(t, r) ==
  /\ api[t] = [pc |-> "publish", req |-> r]
  /\ drawn' = drawn + 1
  /\ rid' = [rid EXCEPT ![r] = drawn + 1]
  /\ \/ /\ server' = [server EXCEPT ![r] = Copies]
        /\ api' = [api EXCEPT ![t].pc = "insert"]
        /\ UNCHANGED <<status, lock>>
     \/ /\ Leave(t, r, "refused")
        /\ UNCHANGED server
  /\ UNCHANGED <<state, started, timer, subs, queue, pending, age, sinceCheck, runner,
                 session, since, outcome, calls, heard, missed>>

\* The request is created, which may fail, and appended to its list.
Insert(t, r) ==
  /\ api[t] = [pc |-> "insert", req |-> r]
  /\ \/ /\ pending' = pending \cup {r}
        /\ age' = [age EXCEPT ![r] = 0]
        /\ Leave(t, r, "accepted")
     \/ /\ Leave(t, r, "refused")
        /\ UNCHANGED <<pending, age>>
  /\ UNCHANGED <<network, queue, drawn, rid, sinceCheck, runner,
                 session, since, outcome, calls, heard, missed>>

RequestStep(t, r) == Subscribe(t, r) \/ Publish(t, r) \/ Insert(t, r)

tbcmh_attributes_request(t, r) == KindOf[r] = "attributes" /\ RequestStep(t, r)
tbcmh_twoway_clientrpc_request(t, r) == KindOf[r] = "clientrpc" /\ RequestStep(t, r)
tbcmh_provision_request(t, r) == KindOf[r] = "provision" /\ RequestStep(t, r)

-----------------------------------------------------------------------------
(* The Runner inside tbcmh_run and tbcmh_disconnect.                       *)

Receive(type) ==
  /\ pc = "idle" /\ api[Runner] = Idle
  /\ stopping \in {"no", "flush", "stopped"}
  /\ queue # << >>
  /\ Head(queue).type = type
  /\ queue' = Tail(queue)

\* The callback runs application code and returns to the given place.
EnterCallback(place) == pc' = "callback" /\ ret' = place

\* Mutant: the requests stay in the list.
RemoveNothing(S, k) ==
  /\ pending' = pending
  /\ subs' = IF Connected /\ Pending(k) # {} /\ Pending(k) \subseteq S
             THEN subs \ {k} ELSE subs

\* Mutant: unsubscribes while other requests of the list still wait.
RemoveAndUnsubscribe(S, k) ==
  /\ pending' = pending \ S
  /\ subs' = IF Connected /\ Pending(k) # {} /\ S # {} THEN subs \ {k} ELSE subs

\* Mutant: never unsubscribes.
RemoveOnly(S, k) == pending' = pending \ S /\ subs' = subs

\* Take the requests S out of the list of kind k: unsubscribe when the list
\* becomes empty.
Remove(S, k) ==
  /\ pending' = pending \ S
  /\ subs' = IF Connected /\ Pending(k) # {} /\ Pending(k) \subseteq S
             THEN subs \ {k} ELSE subs

\* The request whose answer is the next event.
Answered == Head(queue).req
AnyOfKind == Pending(KindOf[Answered])

\* Mutant: the request_id of the answer is not looked at.
SameIdIgnored == Pending(KindOf[Answered])
SameId == {r \in Pending(KindOf[Answered]) : WireId(rid[r]) = WireId(rid[Answered])}

\* What an on_data handler does with an answer: found are the requests of
\* its list that match, the first of them is taken out.
OnData(k, found) ==
  /\ Receive("DATA")
  /\ KindOf[Answered] = k
  /\ heard' = heard \cup {Answered}
  /\ \/ /\ found = {}
        /\ UNCHANGED <<pending, subs, pc, current>>
     \/ \E r \in found :
          /\ IsOldest(r, found)
          /\ Remove({r}, k)
          /\ current' = r
          /\ pc' = "respond"
  /\ UNCHANGED <<state, started, timer, server, lock, drawn, rid, age, sinceCheck, api,
                 ret, why, turn, timeout_list, stopping,
                 session, since, status, outcome, calls, missed>>

attributesrequest_on_data == OnData("attributes", SameId)
clientrpc_on_data == OnData("clientrpc", SameId)
provision_on_data == OnData("provision", AnyOfKind)

Called(r, result) ==
  /\ outcome' = [outcome EXCEPT ![r] = result]
  /\ calls' = [calls EXCEPT ![r] = @ + 1]

\* on_response; a provision response that cannot be parsed calls on_timeout.
CallResponse ==
  /\ pc = "respond"
  /\ \/ Called(current, "response")
     \/ KindOf[current] = "provision" /\ Called(current, "failed")
  /\ current' = NoRequest
  /\ EnterCallback("idle")
  /\ UNCHANGED <<network, queue, lock, drawn, lists, sinceCheck, api,
                 why, turn, timeout_list, stopping,
                 session, since, status, heard, missed>>

ReturnFromCallback ==
  /\ pc = "callback"
  /\ api[Runner] = Idle
  /\ pc' = ret
  /\ ret' = "idle"
  /\ UNCHANGED <<network, queue, lock, drawn, lists, sinceCheck, api,
                 why, turn, timeout_list, current, stopping, history>>

\* __on_tbcm_connected: the handlers change nothing here; under the lock.
OnConnected ==
  /\ Receive("CONNECTED")
  /\ lock = NoTask
  /\ EnterCallback("idle")
  /\ UNCHANGED <<network, lock, drawn, lists, sinceCheck, api,
                 why, turn, timeout_list, current, stopping, history>>

StartSweep(reason) == pc' = "sweep" /\ why' = reason /\ turn' = 1

\* __on_tbcm_disonnected
OnDisconnected ==
  /\ Receive("DISCONNECTED")
  /\ StartSweep("disconnected")
  /\ UNCHANGED <<network, lock, drawn, lists, sinceCheck, api,
                 ret, timeout_list, current, stopping, history>>

\* Mutant: last_check_timestamp is also set when it is too early to check.
OnCheckTimeoutRestarting ==
  /\ Receive("CHECK_TIMEOUT")
  /\ sinceCheck' = 0
  /\ IF sinceCheck < CheckGate THEN UNCHANGED <<pc, why, turn>> ELSE StartSweep("timeout")
  /\ UNCHANGED <<network, lock, drawn, lists, api,
                 ret, timeout_list, current, stopping, history>>

\* __on_tbcm_check_timeout
OnCheckTimeout ==
  /\ Receive("CHECK_TIMEOUT")
  /\ \/ /\ sinceCheck < CheckGate
        /\ UNCHANGED <<sinceCheck, pc, why, turn>>
     \/ /\ sinceCheck >= CheckGate
        /\ sinceCheck' = 0
        /\ StartSweep("timeout")
  /\ UNCHANGED <<network, lock, drawn, lists, api,
                 ret, timeout_list, current, stopping, history>>

\* The first half of a *_on_check_timeout: the due requests are taken out.
\* on_disconnected calls it with a time at which every request is due.
Sweep(k) ==
  LET due == {r \in Pending(k) : why # "timeout" \/ age[r] >= TB_MQTT_TIMEOUT}
  IN /\ pc = "sweep"
     /\ KindOrder[turn] = k
     /\ Remove(due, k)
     /\ timeout_list' = due
     /\ pc' = "timeouts"
     /\ UNCHANGED <<state, started, timer, server, queue, lock, drawn, rid, age, sinceCheck,
                    api, ret, why, turn, current, stopping, history>>

attributesrequest_on_check_timeout == Sweep("attributes")
clientrpc_on_check_timeout == Sweep("clientrpc")
provision_on_check_timeout == Sweep("provision")

\* The second half: on_timeout for one request after the other.
CallTimeout ==
  /\ pc = "timeouts"
  /\ \E r \in timeout_list :
       /\ IsOldest(r, timeout_list)
       /\ timeout_list' = timeout_list \ {r}
       /\ Called(r, "timeout")
  /\ EnterCallback("timeouts")
  /\ UNCHANGED <<network, queue, lock, drawn, lists, sinceCheck, api,
                 why, turn, current, stopping, session, since, status, heard, missed>>

\* Mutant: the list is also cleared when only timeouts were looked for.
ClearListAlways(k) == pending' = pending \ Pending(k)

\* The end of a *_on_disconnected: memset() of the list.
ClearList(k) == pending' = IF why = "timeout" THEN pending ELSE pending \ Pending(k)

\* The next list; after the last one on_disconnected is called for an event.
FinishList ==
  /\ pc = "timeouts"
  /\ timeout_list = {}
  /\ ClearList(KindOrder[turn])
  /\ \/ /\ turn < Len(KindOrder)
        /\ turn' = turn + 1
        /\ pc' = "sweep"
        /\ UNCHANGED <<ret, why, stopping>>
     \/ /\ turn = Len(KindOrder)
        /\ turn' = 1
        /\ why' = "timeout"
        /\ IF why = "disconnected" THEN EnterCallback("idle") ELSE pc' = "idle" /\ UNCHANGED ret
        /\ stopping' = IF why = "stopping" THEN "no" ELSE stopping
  /\ UNCHANGED <<network, queue, lock, drawn, rid, age, sinceCheck, api,
                 timeout_list, current, history>>

-----------------------------------------------------------------------------
(* tbcmh_connect and tbcmh_disconnect, called by the Runner.               *)

\* The application connects only when it has disconnected before.
tbcmh_connect ==
  /\ pc = "idle" /\ api[Runner] = Idle /\ stopping = "no"
  /\ ~started
  /\ session < MaxSessions
  /\ started' = TRUE
  /\ state' = "CONNECTING"
  /\ UNCHANGED <<timer, subs, server, queue, lock, drawn, lists, sinceCheck, api, runner, history>>

\* It returns at once when the wrapper is disconnected.
tbcmh_disconnect ==
  /\ pc = "idle" /\ api[Runner] = Idle /\ stopping = "no"
  /\ state # "DISCONNECTED"
  /\ stopping' = "flush"
  /\ UNCHANGED <<network, queue, lock, drawn, lists, sinceCheck, api,
                 pc, ret, why, turn, timeout_list, current, history>>

\* The queue is empty: tbcm_disconnect stops and destroys the esp-mqtt client.
tbcm_disconnect ==
  /\ pc = "idle" /\ stopping = "flush" /\ queue = << >>
  /\ stopping' = "stopped"
  /\ started' = FALSE
  /\ state' = "DISCONNECTED"
  /\ subs' = {}
  /\ UNCHANGED <<timer, server, queue, lock, drawn, lists, sinceCheck, api,
                 pc, ret, why, turn, timeout_list, current, history>>

\* The queue is empty again: the lists are swept.
SweepAfterDisconnect ==
  /\ pc = "idle" /\ stopping = "stopped" /\ queue = << >>
  /\ stopping' = "sweep"
  /\ StartSweep("stopping")
  /\ UNCHANGED <<network, queue, lock, drawn, lists, sinceCheck, api,
                 ret, timeout_list, current, history>>

-----------------------------------------------------------------------------
Environment ==
  \/ MqttConnected
  \/ MqttDisconnected
  \/ \E r \in Request : MqttAnswer(r)
  \/ TimerFires
  \/ Tick

Api ==
  \E t \in Tasks, r \in Request :
    \/ tbcmh_attributes_request(t, r)
    \/ tbcmh_twoway_clientrpc_request(t, r)
    \/ tbcmh_provision_request(t, r)

Handle ==
  \/ attributesrequest_on_data
  \/ clientrpc_on_data
  \/ provision_on_data
  \/ CallResponse
  \/ ReturnFromCallback
  \/ OnConnected
  \/ OnDisconnected
  \/ OnCheckTimeout
  \/ attributesrequest_on_check_timeout
  \/ clientrpc_on_check_timeout
  \/ provision_on_check_timeout
  \/ CallTimeout
  \/ FinishList

Control ==
  \/ tbcmh_connect
  \/ tbcmh_disconnect
  \/ tbcm_disconnect
  \/ SweepAfterDisconnect

Next == Environment \/ Api \/ Handle \/ Control

Spec == Init /\ [][Next]_vars

\* The application calls tbcmh_run again and again, the tasks are scheduled,
\* the timer fires and time passes.  Nothing is assumed of the network, the
\* server or the application's requests.  tbcmh_has_events looks at the queue
\* right after tbcmh_run has emptied it, so no event that comes once in a
\* while keeps tbcmh_disconnect in its loops: strong fairness.
Fairness ==
  /\ WF_vars(Handle)
  /\ \A t \in Tasks : WF_vars(\E r \in Request : Publish(t, r) \/ Insert(t, r))
  /\ SF_vars(tbcm_disconnect)
  /\ SF_vars(SweepAfterDisconnect)
  /\ WF_vars(TimerFires)
  /\ WF_vars(Tick)

FairSpec == Spec /\ Fairness

-----------------------------------------------------------------------------
(* Properties.                                                             *)

NetworkType ==
  /\ state \in {"DISCONNECTED", "CONNECTING", "CONNECTED"}
  /\ started \in BOOLEAN
  /\ timer \in BOOLEAN
  /\ subs \subseteq Kinds
  /\ server \in [Request -> Nat]

QueueType ==
  /\ queue \in Seq(Event)
  /\ Len(queue) <= QueueSize

ListsType ==
  /\ drawn \in Nat
  /\ pending \subseteq Request
  /\ rid \in [Request -> Nat]
  /\ age \in [Request -> 0..TB_MQTT_TIMEOUT]
  /\ sinceCheck \in 0..CheckGate

ApiType ==
  /\ lock \in Tasks \cup {NoTask}
  /\ api \in [Tasks -> [pc : {"idle", "publish", "insert"}, req : Request \cup {NoRequest}]]

RunnerType ==
  /\ pc \in {"idle", "respond", "sweep", "timeouts", "callback"}
  /\ ret \in {"idle", "timeouts"}
  /\ why \in {"timeout", "disconnected", "stopping"}
  /\ turn \in 1..Len(KindOrder)
  /\ timeout_list \subseteq Request
  /\ current \in Request \cup {NoRequest}
  /\ stopping \in {"no", "flush", "stopped", "sweep"}

HistoryType ==
  /\ session \in Nat
  /\ since \in [Request -> Nat]
  /\ status \in [Request -> {"new", "busy", "accepted", "refused"}]
  /\ outcome \in [Request -> {"none", "response", "timeout", "failed"}]
  /\ calls \in [Request -> Nat]
  /\ heard \subseteq Request
  /\ missed \in BOOLEAN

\* Types of the variables; the queue never holds more than its capacity.
TypeOK ==
  NetworkType /\ QueueType /\ ListsType /\ ApiType /\ RunnerType /\ HistoryType

\* A request whose function returned ESP_OK gets at most one of its callbacks,
\* and one whose function returned ESP_FAIL gets none: whatever answers,
\* timeouts, connection losses and tbcmh_disconnect come together.
AtMostOneCallback ==
  \A r \in Request :
    /\ calls[r] <= 1
    /\ calls[r] = 1 => status[r] = "accepted"

\* Where the client still holds an accepted request.
Held == pending \cup timeout_list \cup {current}

\* An accepted request that got no callback is still held by the client:
\* no handler drops it without a word.
NoLostRequest ==
  \A r \in Request : status[r] = "accepted" /\ calls[r] = 0 => r \in Held

\* A callback, or another task, may make a request between the two halves of a
\* sweep.  It is dropped without a callback only when the sweep is for a lost
\* connection or for tbcmh_disconnect, and the list is then cleared.
DroppedOnlyByDisconnection ==
  [][\A r \in Request :
       status[r] = "accepted" /\ r \in Held /\ r \notin Held' =>
         calls'[r] > calls[r] \/ (pc = "timeouts" /\ why \in {"disconnected", "stopping"})]_vars

\* A request made on the connection that is up is subscribed to its answer.
SubscribedWhilePending ==
  \A r \in pending : Connected /\ since[r] = session => KindOf[r] \in subs

\* The Runner has still to handle a loss of the connection, or never will.
LossUnhandled ==
  \/ missed
  \/ \E i \in 1..Len(queue) : queue[i].type = "DISCONNECTED"
  \/ pc # "idle" /\ why = "disconnected"

\* The same, except while a loss of an earlier connection is unhandled.
SubscribedUnlessStale == LossUnhandled \/ SubscribedWhilePending

\* An answer that was taken out of the queue has reached its request: the
\* request is not left in its list, to be timed out.
AnswerIsDelivered ==
  \A r \in heard : KindOf[r] # "provision" => r \notin pending

\* Whatever other tasks are doing: an answer that is taken out of the queue after
\* the function of its request has returned takes the request out of its list.
\* The answer may only be too early, before the request is in the list.
AnswerReachesAccepted ==
  [][\A r \in heard' \ heard :
       KindOf[r] # "provision" /\ status[r] = "accepted" => r \notin pending']_vars

\* A response topic that no request waits for is not left subscribed, except
\* by a request function that failed or still runs.
SubscriptionIsUsed ==
  \A k \in subs :
    \/ Pending(k) # {}
    \/ \E r \in Request : /\ KindOf[r] = k /\ since[r] = session
                          /\ status[r] \in {"busy", "refused"}

\* The requests as their callers see them.
promise ==
  [r \in Request |->
     CASE status[r] \in {"new", "busy"} -> "new"
       [] status[r] = "refused" -> "refused"
       [] status[r] = "accepted" /\ r \in Held -> "pending"
       [] status[r] = "accepted" /\ r \notin Held /\ outcome[r] = "response" -> "answered"
       [] status[r] = "accepted" /\ r \notin Held /\ outcome[r] \in {"timeout", "failed"} -> "expired"
       [] OTHER -> "lost"]

Promise == INSTANCE RequestPromise WITH promise <- promise, Request <- Request

\* Every request keeps RequestPromise: it is refused, or accepted and then
\* answered or expired, once; and no accepted request waits forever.
PromiseKept == Promise!Spec
=============================================================================
