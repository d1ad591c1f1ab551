---------------------------- MODULE Subscriptions ----------------------------
(***************************************************************************)
(* Attribute subscriptions and server-side RPC, helper/attributes_-        *)
(* subscribe.c and server_rpc.c: two lists of callbacks, a topic of the    *)
(* broker for each, and the Runner that walks the lists in tbcmh_run.      *)
(*                                                                         *)
(* The Runner calls the application in the middle of a walk, and does not  *)
(* hold client->_lock then.  The callback may change the list, and it may  *)
(* call tbcmh_disconnect, which calls tbcmh_run again: stack is the call   *)
(* stack of the Runner, from tbcmh_run or tbcmh_disconnect upwards.        *)
(*                                                                         *)
(* New entries go to the end of a list, so a list is the set of its        *)
(* entries, numbered in the order they were made.  Numbers are not used    *)
(* again: an entry that was made and is not listed has been freed.         *)
(***************************************************************************)
EXTENDS Integers, Sequences

CONSTANTS
  Key,          \* names of shared attributes
  Method,       \* names of server-side RPCs
  Interests,    \* the sets of keys subscribed to; {} stands for all keys
  Tasks,        \* the application's tasks
  Runner,       \* the task that calls tbcmh_run
  CallbackMay,  \* what callbacks do: "unsubscribe", "unregister" (an attribute of a set),
                \* "disconnect", "destroy"
  QueueSize,    \* capacity of _xQueue, 40 in the code
  MaxEntries,   \* bound: attribute subscriptions made
  MaxRpcs,      \* bound: server-side RPCs registered
  MaxSessions,  \* bound: how often esp-mqtt connects
  MaxMessages   \* bound: messages of the server

ASSUME SubscriptionsAssumption ==
  /\ Interests \subseteq SUBSET Key
  /\ Method # {}
  /\ Runner \in Tasks
  /\ CallbackMay \subseteq {"unsubscribe", "unregister", "disconnect", "destroy"}
  /\ QueueSize \in Nat \ {0}
  /\ MaxEntries \in Nat
  /\ MaxRpcs \in 0..MaxEntries
  /\ MaxSessions \in Nat
  /\ MaxMessages \in Nat

VARIABLES
  \* The wrapper and the broker.
  state,     \* tbcm_t.state
  started,   \* mqtt_handle # NULL
  topics,    \* topics the broker has subscriptions for
  \* tbcmh_t.
  alive,     \* it has not been destroyed
  queue,     \* _xQueue
  attributessubscribe_list,  \* the numbers of its entries: their subscribe_id
  keys,      \* key_list of an entry
  serverrpc_list,            \* the numbers of its entries
  method,    \* method of an entry
  made,      \* entries made so far in each list; _subscribe_id is the first
  \* The Runner.
  stack,     \* its call stack, the innermost call last
  fault,     \* it has used an entry or a client that was freed
  \* History.
  session,   \* how often esp-mqtt has connected
  sent,      \* messages sent by the server
  missed,    \* TBCM_EVENT_CONNECTED of this connection was dropped
  ignored,   \* a callback returned 1 or 2 and the walk went on
  intruded   \* another task has unsubscribed during a walk

network == <<state, started, topics>>
lists   == <<attributessubscribe_list, keys, serverrpc_list, method, made>>
history == <<session, sent, missed, ignored, intruded>>
vars    == <<network, alive, queue, lists, stack, fault, history>>

Entry == 1..MaxEntries
End   == 0   \* the NULL at the end of a list

Event ==
  [type : {"CONNECTED", "DISCONNECTED"}]
    \cup [type : {"UPDATE"}, keys : SUBSET Key, number : Nat]
    \cup [type : {"REQUEST"}, method : Method]
    \cup [type : {"RESPONSE"}, keys : SUBSET Key, number : Nat]  \* of SharedAttributes

\* A call of the Runner.  pc is "call" while a callback runs application code.
\* "set" is a walk of SharedAttributes, which returns into its caller.
Frame ==
  [kind : {"update", "request", "event", "flush", "drain", "destroy", "set"},
   pc : {"call", "step", "return"},
   id : Entry \cup {End},     \* the entry that is called
   next : Entry \cup {End},   \* in a walk: the saved next entry
   keys : SUBSET Key,         \* in a walk: the keys of the message
   number : Nat,              \* in a walk: the number of the message
   result : 0..2]             \* what the callback will return

Call(kind, pc) ==
  [kind |-> kind, pc |-> pc, id |-> End, next |-> End, keys |-> {}, number |-> 0,
   result |-> 0]

Push(f) == stack' = Append(stack, f)
Top     == stack[Len(stack)]
Below   == SubSeq(stack, 1, Len(stack) - 1)
IsTop(kind, pc) == stack # << >> /\ Top.kind = kind /\ Top.pc = pc

Connected == state = "CONNECTED"

\* LIST_FIRST, and LIST_NEXT of an entry that is in the list.
After(n, S) == IF \E m \in S : m > n
               THEN CHOOSE m \in S : m > n /\ \A o \in S : o > n => m <= o
               ELSE End

Init ==
  /\ state = "DISCONNECTED" /\ started = FALSE /\ topics = {}
  /\ alive = TRUE /\ queue = << >>
  /\ attributessubscribe_list = {} /\ keys = [n \in Entry |-> {}]
  /\ serverrpc_list = {} /\ method = [n \in Entry |-> CHOOSE m \in Method : TRUE]
  /\ made = [attributes |-> 0, serverrpc |-> 0]
  /\ stack = << >> /\ fault = FALSE
  /\ session = 0 /\ sent = 0 /\ missed = FALSE /\ ignored = FALSE /\ intruded = FALSE

-----------------------------------------------------------------------------
(* esp-mqtt, the broker and the server.                                    *)

\* Mutant: one event more than the queue holds.
PostOneTooMany(e) == queue' = IF Len(queue) <= QueueSize THEN Append(queue, e) ELSE queue

Post(e) == queue' = IF Len(queue) < QueueSize THEN Append(queue, e) ELSE queue

\* MQTT_EVENT_CONNECTED, of a clean session.
MqttConnected ==
  /\ started /\ ~Connected
  /\ session < MaxSessions
  /\ session' = session + 1
  /\ state' = "CONNECTED"
  /\ topics' = {}
  /\ Post([type |-> "CONNECTED"])
  /\ missed' = (Len(queue) >= QueueSize)
  /\ UNCHANGED <<started, alive, lists, stack, fault, sent, ignored, intruded>>

\* MQTT_EVENT_DISCONNECTED; esp-mqtt tries again by itself.
MqttDisconnected ==
  /\ Connected
  /\ state' = "DISCONNECTED"
  /\ topics' = {}
  /\ Post([type |-> "DISCONNECTED"])
  /\ UNCHANGED <<started, alive, lists, stack, fault, history>>

MqttData(topic, e) ==
  /\ Connected
  /\ topic \in topics
  /\ sent < MaxMessages
  /\ sent' = sent + 1
  /\ Post(e)
  /\ UNCHANGED <<network, alive, lists, stack, fault, session, missed, ignored, intruded>>

\* An update of some shared attributes, and a server-side RPC.
MqttUpdate(K) ==
  MqttData("attributes", [type |-> "UPDATE", keys |-> K, number |-> sent + 1])
MqttRequest(m) == MqttData("serverrpc", [type |-> "REQUEST", method |-> m])

-----------------------------------------------------------------------------
(* The functions of the application.  Each holds the lock.                 *)

\* A task runs application code: the Runner outside of tbcmh_run, or in a
\* callback.
InApplication(t) ==
  /\ alive /\ ~fault
  /\ t = Runner /\ stack # << >> => Top.pc = "call"

InCallback(t) == t = Runner /\ stack # << >>

\* A function that a callback calls only if CallbackMay says so, and
\* on_connected and on_disconnected have no result to return.
MayCall(t, what) ==
  /\ InApplication(t)
  /\ InCallback(t) => what \in CallbackMay /\ (what # "unsubscribe" => Top.kind # "event")

\* The callback will return r, unless it has done more.
WillReturn(t, r) ==
  IF InCallback(t) /\ Top.result < r
  THEN [stack EXCEPT ![Len(stack)].result = r] ELSE stack

\* Mutant: the topic is subscribed whenever an entry is added, also offline.
TopicAddedOffline(topic, list) == IF list = {} THEN topics \cup {topic} ELSE topics

\* The topic is subscribed with the first entry and unsubscribed with the last.
TopicAdded(topic, list) ==
  IF Connected /\ list = {} THEN topics \cup {topic} ELSE topics

TopicRemoved(topic, list, S) ==
  IF Connected /\ list # {} /\ list \subseteq S THEN topics \ {topic} ELSE topics

tbcmh_attributes_subscribe(t, K) ==
  LET id == made.attributes + 1
  IN /\ InApplication(t)
     /\ id \in Entry
     /\ made' = [made EXCEPT !.attributes = id]
     /\ keys' = [keys EXCEPT ![id] = K]
     /\ attributessubscribe_list' = attributessubscribe_list \cup {id}
     /\ topics' = TopicAdded("attributes", attributessubscribe_list)
     /\ UNCHANGED <<state, started, alive, queue, serverrpc_list, method, stack, fault, history>>

tbcmh_attributes_unsubscribe(t, id) ==
  /\ MayCall(t, "unsubscribe")
  /\ id \in attributessubscribe_list
  /\ attributessubscribe_list' = attributessubscribe_list \ {id}
  /\ topics' = TopicRemoved("attributes", attributessubscribe_list, {id})
  /\ stack' = WillReturn(t, 1)
  /\ intruded' = (intruded \/ (t # Runner /\ \E i \in DOMAIN stack : stack[i].kind = "update"))
  /\ UNCHANGED <<state, started, alive, queue, keys, serverrpc_list, method, made, fault,
                 session, sent, missed, ignored>>

tbcmh_serverrpc_subscribe(t, m) ==
  LET n == made.serverrpc + 1
  IN /\ InApplication(t)
     /\ n <= MaxRpcs
     /\ made' = [made EXCEPT !.serverrpc = n]
     /\ method' = [method EXCEPT ![n] = m]
     /\ serverrpc_list' = serverrpc_list \cup {n}
     /\ topics' = TopicAdded("serverrpc", serverrpc_list)
     /\ UNCHANGED <<state, started, alive, queue, attributessubscribe_list, keys, stack,
                    fault, history>>

\* The first entry with the method, or End.
Serving(m) == After(End, {n \in serverrpc_list : method[n] = m})

tbcmh_serverrpc_unsubscribe(t, m) ==
  /\ MayCall(t, "unsubscribe")
  /\ Serving(m) # End
  /\ serverrpc_list' = serverrpc_list \ {Serving(m)}
  /\ topics' = TopicRemoved("serverrpc", serverrpc_list, {Serving(m)})
  /\ UNCHANGED <<state, started, alive, queue, attributessubscribe_list, keys, method, made,
                 stack, fault, history>>

-----------------------------------------------------------------------------
(* tbcmh_connect, tbcmh_disconnect and tbcmh_destroy, by the Runner.       *)

\* The application connects only when esp-mqtt is stopped, outside tbcmh_run.
tbcmh_connect ==
  /\ InApplication(Runner) /\ stack = << >>
  /\ ~started
  /\ started' = TRUE
  /\ state' = "CONNECTING"
  /\ UNCHANGED <<topics, alive, queue, lists, stack, fault, history>>

\* It returns at once when the wrapper is disconnected.
tbcmh_disconnect ==
  /\ MayCall(Runner, "disconnect")
  /\ state # "DISCONNECTED"
  /\ stack' = Append(WillReturn(Runner, 2), Call("flush", "step"))
  /\ UNCHANGED <<network, alive, queue, lists, fault, history>>

\* It disconnects first, which does nothing when the wrapper is disconnected.
tbcmh_destroy ==
  LET called == Append(WillReturn(Runner, 2), Call("destroy", "step"))
  IN /\ MayCall(Runner, "destroy")
     /\ stack' = IF state = "DISCONNECTED" THEN called ELSE Append(called, Call("flush", "step"))
     /\ UNCHANGED <<network, alive, queue, lists, fault, history>>

\* tbcmh_init, after the last client was destroyed.
tbcmh_init ==
  /\ ~alive /\ ~fault /\ stack = << >>
  /\ alive' = TRUE
  /\ UNCHANGED <<network, queue, lists, stack, fault, history>>

-----------------------------------------------------------------------------
(* The Runner inside tbcmh_run, tbcmh_disconnect and tbcmh_destroy.        *)

\* Whoever returns into tbcmh_run or tbcmh_disconnect uses the client again.
Return(s) == stack' = s /\ fault' = ~alive

\* The queue is empty: tbcm_disconnect, which returns at once when an inner
\* call of it has stopped esp-mqtt already.
tbcm_disconnect ==
  /\ ~fault
  /\ IsTop("flush", "step")
  /\ queue = << >>
  /\ started' = FALSE
  /\ state' = "DISCONNECTED"
  /\ topics' = {}
  /\ Return([stack EXCEPT ![Len(stack)].kind = "drain"])
  /\ UNCHANGED <<alive, queue, lists, history>>

\* The queue is empty again; on_disconnected of both lists does nothing.
FinishDisconnect ==
  /\ ~fault
  /\ IsTop("drain", "step")
  /\ queue = << >>
  /\ Return(Below)
  /\ UNCHANGED <<network, alive, queue, lists, history>>

\* The lists are emptied, the queue is deleted, tbcm_destroy stops esp-mqtt if
\* it still runs, and the client is freed.
FinishDestroy ==
  /\ ~fault
  /\ IsTop("destroy", "step")
  /\ attributessubscribe_list' = {}
  /\ serverrpc_list' = {}
  /\ queue' = << >>
  /\ alive' = FALSE
  /\ started' = FALSE
  /\ state' = "DISCONNECTED"
  /\ topics' = {}
  /\ Return(Below)
  /\ UNCHANGED <<keys, method, made, history>>

\* tbcmh_run takes the next event out, called by the application, or by
\* tbcmh_disconnect until the queue is empty.
Receive(type) ==
  /\ alive /\ ~fault
  /\ stack # << >> => Top.kind \in {"flush", "drain"}
  /\ queue # << >>
  /\ Head(queue).type = type
  /\ queue' = Tail(queue)

\* Mutant: on_connected subscribes only the topic of server-side RPCs.
ResubscribeOne ==
  topics \cup (IF Connected /\ serverrpc_list # {} THEN {"serverrpc"} ELSE {})

\* The on_connected of both lists, under the lock.
Resubscribe ==
  topics \cup (IF Connected /\ attributessubscribe_list # {} THEN {"attributes"} ELSE {})
         \cup (IF Connected /\ serverrpc_list # {} THEN {"serverrpc"} ELSE {})

\* __on_tbcm_connected
OnConnected ==
  /\ Receive("CONNECTED")
  /\ topics' = Resubscribe
  /\ Push(Call("event", "call"))
  /\ UNCHANGED <<state, started, alive, lists, fault, history>>

\* __on_tbcm_disonnected: neither list does anything.
OnDisconnected ==
  /\ Receive("DISCONNECTED")
  /\ Push(Call("event", "call"))
  /\ UNCHANGED <<network, alive, lists, fault, history>>

\* on_connected or on_disconnected of the application returns.
ReturnFromEvent ==
  /\ ~fault
  /\ IsTop("event", "call")
  /\ Return(Below)
  /\ UNCHANGED <<network, alive, queue, lists, history>>

\* _tbcmh_attributessubscribe_on_data starts its walk.
OnUpdate ==
  /\ Receive("UPDATE")
  /\ Push([Call("update", "step") EXCEPT !.keys = Head(queue).keys, !.number = Head(queue).number,
                                         !.next = After(End, attributessubscribe_list)])
  /\ UNCHANGED <<network, alive, lists, fault, history>>

\* The next entry of the walk.  Reading an entry that was freed is the fault.
WalkOn ==
  /\ ~fault
  /\ IsTop("update", "step")
  /\ \/ /\ Top.next = End
        /\ Return(Below)
     \/ /\ Top.next # End
        /\ fault' = (Top.next \notin attributessubscribe_list)
        /\ stack' = [stack EXCEPT ![Len(stack)] =
                       [@ EXCEPT !.id = Top.next,
                                 !.next = After(Top.next, attributessubscribe_list),
                                 !.pc = IF keys[Top.next] = {} \/ keys[Top.next] \cap Top.keys # {}
                                        THEN "call" ELSE "step",
                                 !.result = 0]]
  /\ UNCHANGED <<network, alive, queue, lists, history>>

\* Mutant: the result of on_update is never looked at.
EndsWalkNever(id, result) == FALSE

\* The result of on_update ends the walk, except for an entry with all keys.
EndsWalk(id, result) == keys[id] # {} /\ result # 0

\* on_update returns.
ReturnFromUpdate ==
  /\ ~fault
  /\ IsTop("update", "call") \/ IsTop("update", "return")
  /\ \/ /\ EndsWalk(Top.id, Top.result)
        /\ Return(Below)
        /\ UNCHANGED ignored
     \/ /\ ~EndsWalk(Top.id, Top.result)
        /\ stack' = [stack EXCEPT ![Len(stack)].pc = "step"]
        /\ ignored' = (ignored \/ (keys[Top.id] = {} /\ Top.result # 0))
        /\ UNCHANGED fault
  /\ UNCHANGED <<network, alive, queue, lists, session, sent, missed, intruded>>

\* _tbcmh_serverrpc_on_data: on_request of the first entry with the method is
\* called with a clone of the entry, which may not be made for lack of memory.
OnRequest ==
  /\ Receive("REQUEST")
  /\ \/ /\ Serving(Head(queue).method) # End
        /\ Push([Call("request", "call") EXCEPT !.id = Serving(Head(queue).method)])
     \/ UNCHANGED stack
  /\ UNCHANGED <<network, alive, lists, fault, history>>

\* on_request returns and may have given an answer, which is published.
ReturnFromRequest ==
  /\ ~fault
  /\ IsTop("request", "call")
  /\ Return(Below)
  /\ UNCHANGED <<network, alive, queue, lists, history>>

-----------------------------------------------------------------------------
Environment ==
  \/ MqttConnected
  \/ MqttDisconnected
  \/ \E K \in (SUBSET Key) \ {{}} : MqttUpdate(K)
  \/ \E m \in Method : MqttRequest(m)

Api ==
  \E t \in Tasks :
    \/ \E K \in Interests : tbcmh_attributes_subscribe(t, K)
    \/ \E id \in Entry : tbcmh_attributes_unsubscribe(t, id)
    \/ \E m \in Method : tbcmh_serverrpc_subscribe(t, m)
    \/ \E m \in Method : tbcmh_serverrpc_unsubscribe(t, m)

Control ==
  \/ tbcmh_connect
  \/ tbcmh_disconnect
  \/ tbcmh_destroy
  \/ tbcmh_init

Run ==
  \/ tbcm_disconnect
  \/ FinishDisconnect
  \/ FinishDestroy
  \/ OnConnected
  \/ OnDisconnected
  \/ ReturnFromEvent
  \/ OnUpdate
  \/ WalkOn
  \/ ReturnFromUpdate
  \/ OnRequest
  \/ ReturnFromRequest

Next == Environment \/ Api \/ Control \/ Run

Spec == Init /\ [][Next]_vars

\* The application calls tbcmh_run again and again, and callbacks return.
FairSpec == Spec /\ WF_vars(Run)

-----------------------------------------------------------------------------
(* Properties.                                                             *)

NetworkType ==
  /\ state \in {"DISCONNECTED", "CONNECTING", "CONNECTED"}
  /\ started \in BOOLEAN
  /\ topics \subseteq {"attributes", "serverrpc"}

ListsType ==
  /\ attributessubscribe_list \subseteq Entry
  /\ keys \in [Entry -> SUBSET Key]
  /\ serverrpc_list \subseteq Entry
  /\ method \in [Entry -> Method]
  /\ made \in [attributes : 0..MaxEntries, serverrpc : 0..MaxEntries]

RunnerType ==
  /\ alive \in BOOLEAN
  /\ queue \in Seq(Event) /\ Len(queue) <= QueueSize
  /\ stack \in Seq(Frame)
  /\ fault \in BOOLEAN

HistoryType ==
  /\ session \in Nat
  /\ sent \in Nat
  /\ missed \in BOOLEAN
  /\ ignored \in BOOLEAN
  /\ intruded \in BOOLEAN

\* Types of the variables; the queue never holds more than its capacity.
TypeOK == NetworkType /\ ListsType /\ RunnerType /\ HistoryType

Listed == [attributes |-> attributessubscribe_list, serverrpc |-> serverrpc_list]

\* While connected, the broker sends what a non-empty list waits for, unless
\* the event that makes the Runner subscribe is still queued or was dropped;
\* and it sends nothing that no entry waits for.  The lists change in callbacks
\* and in other tasks, the connection under the feet of all of them.
TopicsFollowLists ==
  \A k \in DOMAIN Listed :
    /\ k \in topics => Listed[k] # {}
    /\ Connected /\ Listed[k] # {} =>
         \/ k \in topics
         \/ missed
         \/ \E i \in 1..Len(queue) : queue[i].type = "CONNECTED"

\* No callback makes the Runner use an entry or a client that was freed.
NoUseAfterFree == ~fault

\* It is so but for two cases.  The walk went on after a callback had returned 1
\* or 2, as it does for an entry with all keys: the results are there for a
\* reason, and with them nested walks of nested tbcmh_disconnect calls are safe.
\* Or another task has unsubscribed meanwhile: it holds the lock, the walk does
\* not.
SafeIfResultsCount == fault => ignored \/ intruded

\* An entry made before or during a connection that stays is subscribed in
\* the end, however calls of tbcmh_run and tbcmh_disconnect are nested.
GetsSubscribed ==
  \A k \in {"attributes", "serverrpc"} :
    Connected /\ Listed[k] # {} ~> ~Connected \/ Listed[k] = {} \/ k \in topics \/ missed \/ fault
=============================================================================
