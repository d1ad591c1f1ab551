---------------------------- MODULE TbcmConnection ----------------------------
(***************************************************************************)
(* The life of a client: tbcm_init, tbcm_connect, tbcm_disconnect and      *)
(* tbcm_destroy of wapper/tbc_mqtt_wapper.c, called by tbcmh_init,         *)
(* tbcmh_connect, tbcmh_disconnect and tbcmh_destroy of                    *)
(* helper/tbc_mqtt_helper.c.                                               *)
(*                                                                         *)
(* Three tasks meet.  The application is inside at most one of these       *)
(* functions, at pc.  Each running esp-mqtt client has an MQTT task, and   *)
(* esp_timer has one task: both call on_event, which copies the event into *)
(* _xQueue of the client and may wait while that is full.                  *)
(*                                                                         *)
(* A client is a pair of a tbcmh_t and its tbcm_t, and is connected once.  *)
(***************************************************************************)
EXTENDS Integers, Sequences

CONSTANTS
  Client,       \* the clients made one after the other
  QueueSize,    \* capacity of _xQueue, 40 in the code
  MaxAttempts,  \* bound: attempts of an esp-mqtt client to connect
  MaxTicks      \* bound: ticks of respone_timer

ASSUME ConnectionAssumption ==
  /\ "none" \notin Client
  /\ QueueSize \in Nat \ {0}
  /\ MaxAttempts \in Nat
  /\ MaxTicks \in Nat

VARIABLES
  life,      \* of the memory of a client: "none", "open", "closing", "freed"
  handle,    \* mqtt_handle # NULL
  state,     \* tbcm_t.state
  handler,   \* on_event and context are set
  timer,     \* respone_timer is running
  esp,       \* the esp-mqtt client: "none", "waiting", "connecting", "connected"
  mqtt,      \* the event its MQTT task is copying into _xQueue, or Nothing
  queue,     \* _xQueue
  ticking,   \* the client whose tick the timer task is copying, or "none"
  \* The application.
  pc,        \* "out", "starting", "flush", "stop", "drain", "delete", "free"
  client,    \* the client of the last call
  destroying,  \* tbcmh_disconnect was called by tbcmh_destroy
  crash,     \* who has used what was not there, or NoCrash
  \* History.
  attempts,  \* attempts to connect
  ticks,     \* ticks of the timer
  skipped    \* tbcmh_destroy began while an esp-mqtt client waited to reconnect

memory      == <<life, handle, state, handler, timer, queue>>
tasks       == <<esp, mqtt, ticking>>
application == <<pc, client, destroying>>
counters    == <<attempts, ticks, skipped>>
vars        == <<memory, tasks, application, crash, counters>>

Event   == [type : {"BEFORE_CONNECT", "CONNECTED", "DISCONNECTED", "CHECK_TIMEOUT", "DATA"},
            number : Nat]
Nothing == [type |-> "NOTHING", number |-> 0]
Signal(type) == [type |-> type, number |-> 0]

NoCrash == <<"nobody", "nothing">>
Running == crash = NoCrash

InitConnection ==
  /\ life = [c \in Client |-> "none"]
  /\ handle = [c \in Client |-> FALSE]
  /\ state = [c \in Client |-> "DISCONNECTED"]
  /\ handler = [c \in Client |-> FALSE]
  /\ timer = [c \in Client |-> FALSE]
  /\ esp = [c \in Client |-> "none"]
  /\ mqtt = [c \in Client |-> Nothing]
  /\ queue = [c \in Client |-> << >>]
  /\ ticking = "none"
  /\ pc = "out" /\ client = "none" /\ destroying = FALSE /\ crash = NoCrash
  /\ attempts = [c \in Client |-> 0] /\ ticks = 0 /\ skipped = FALSE

-----------------------------------------------------------------------------
(* The MQTT task and the timer task.                                       *)

\* _on_mqtt_event_handle: the state changes, and on_event is called, whatever
\* it is.  A client without a queue drops the event.
MqttEvent(c, from, to, e) ==
  /\ Running
  /\ esp[c] \in from /\ mqtt[c] = Nothing
  /\ esp' = [esp EXCEPT ![c] = to]
  /\ state' = IF e.type \in {"CONNECTED", "DISCONNECTED"} THEN [state EXCEPT ![c] = e.type]
              ELSE state
  /\ timer' = IF e.type = "CONNECTED" THEN [timer EXCEPT ![c] = TRUE] ELSE timer
  /\ IF handler[c]
     THEN /\ mqtt' = IF life[c] = "open" THEN [mqtt EXCEPT ![c] = e] ELSE mqtt
          /\ UNCHANGED crash
     ELSE /\ crash' = IF life[c] = "freed" THEN <<"mqtt", "client">> ELSE <<"mqtt", "handler">>
          /\ UNCHANGED mqtt
  /\ UNCHANGED <<life, handle, handler, queue, ticking, application, ticks, skipped>>

BeforeConnect(c) ==
  /\ attempts[c] < MaxAttempts
  /\ attempts' = [attempts EXCEPT ![c] = @ + 1]
  /\ MqttEvent(c, {"waiting"}, "connecting", Signal("BEFORE_CONNECT"))

MqttConnected(c) ==
  /\ MqttEvent(c, {"connecting"}, "connected", Signal("CONNECTED"))
  /\ UNCHANGED attempts

\* The connection is lost, or could not be made.
MqttDisconnected(c) ==
  /\ MqttEvent(c, {"connecting", "connected"}, "waiting", Signal("DISCONNECTED"))
  /\ UNCHANGED attempts

MqttData(c, n) ==
  /\ MqttEvent(c, {"connected"}, "connected", [type |-> "DATA", number |-> n])
  /\ UNCHANGED attempts

\* Mutant: one event more than the queue holds.
PostOneTooMany(c, e) ==
  queue' = IF Len(queue[c]) <= QueueSize THEN [queue EXCEPT ![c] = Append(@, e)] ELSE queue

\* Mutant: whoever sends waits until there is room.
PostWaiting(c, e) ==
  /\ Len(queue[c]) < QueueSize
  /\ queue' = [queue EXCEPT ![c] = Append(@, e)]

\* A full queue is waited for twenty times, and then the event is dropped.
Post(c, e) ==
  queue' = IF Len(queue[c]) < QueueSize THEN [queue EXCEPT ![c] = Append(@, e)] ELSE queue

\* xQueueSend, of a task that has found _xQueue before.
Send(c, e, who) ==
  /\ Running
  /\ IF life[c] = "open" THEN Post(c, e) /\ UNCHANGED crash
                         ELSE crash' = <<who, "queue">> /\ UNCHANGED queue
  /\ UNCHANGED <<life, handle, state, handler, timer, esp, application, counters>>

MqttSend(c) ==
  /\ mqtt[c] # Nothing
  /\ Send(c, mqtt[c], "mqtt")
  /\ mqtt' = [mqtt EXCEPT ![c] = Nothing]
  /\ UNCHANGED ticking

\* __response_timer_timerout
TimerFires(c) ==
  /\ Running
  /\ timer[c] /\ ticking = "none"
  /\ ticks < MaxTicks
  /\ ticks' = ticks + 1
  /\ IF handler[c]
     THEN /\ ticking' = IF life[c] = "open" THEN c ELSE "none"
          /\ UNCHANGED crash
     ELSE /\ crash' = IF life[c] = "freed" THEN <<"timer", "client">> ELSE <<"timer", "handler">>
          /\ UNCHANGED ticking
  /\ UNCHANGED <<memory, esp, mqtt, application, attempts, skipped>>

TimerSend(c) ==
  /\ ticking = c
  /\ Send(c, Signal("CHECK_TIMEOUT"), "timer")
  /\ ticking' = "none"
  /\ UNCHANGED mqtt

-----------------------------------------------------------------------------
(* The functions of the client.                                            *)

Out == Running /\ pc = "out"

\* The application uses a client.  That it has been freed is not noticed.
UsesFreed(c) ==
  /\ Out
  /\ life[c] = "freed"
  /\ crash' = <<"app", "client">>
  /\ UNCHANGED <<memory, tasks, application, counters>>

tbcmh_init(c) ==
  /\ Out
  /\ life[c] = "none"
  /\ life' = [life EXCEPT ![c] = "open"]
  /\ client' = c
  /\ UNCHANGED <<handle, state, handler, timer, queue, tasks, pc, destroying, crash, counters>>

\* tbcmh_connect, up to the return of esp_mqtt_client_start.
StartConnect(c) ==
  /\ Out
  /\ life[c] = "open" /\ ~handle[c]
  /\ handle' = [handle EXCEPT ![c] = TRUE]
  /\ handler' = [handler EXCEPT ![c] = FALSE]
  /\ state' = [state EXCEPT ![c] = "DISCONNECTED"]
  /\ esp' = [esp EXCEPT ![c] = "waiting"]
  /\ pc' = "starting"
  /\ client' = c
  /\ UNCHANGED <<life, timer, queue, mqtt, ticking, destroying, crash, counters>>

\* The rest of tbcm_connect, whatever the MQTT task has done meanwhile.
FinishConnect(c) ==
  /\ Running /\ pc = "starting" /\ client = c
  /\ handler' = [handler EXCEPT ![c] = TRUE]
  /\ state' = [state EXCEPT ![c] = "CONNECTING"]
  /\ pc' = "out"
  /\ UNCHANGED <<life, handle, timer, queue, tasks, client, destroying, crash, counters>>

\* tbcmh_disconnect has nothing to do, although esp-mqtt may still be running.
Skips(c) == state[c] = "DISCONNECTED"

tbcmh_disconnect(c) ==
  /\ Out
  /\ life[c] = "open"
  /\ pc' = IF Skips(c) THEN "out" ELSE "flush"
  /\ client' = c
  /\ UNCHANGED <<memory, tasks, destroying, crash, counters>>

tbcmh_destroy(c) ==
  /\ Out
  /\ life[c] = "open"
  /\ pc' = IF Skips(c) THEN "delete" ELSE "flush"
  /\ client' = c
  /\ destroying' = TRUE
  /\ skipped' = (skipped \/ (state[c] = "DISCONNECTED" /\ esp[c] # "none"))
  /\ UNCHANGED <<memory, tasks, crash, attempts, ticks>>

At(c, where) == Running /\ pc = where /\ client = c

\* Mutant: on_event is cleared before esp-mqtt is stopped.
HandlerClearedFirst(c) == [handler EXCEPT ![c] = FALSE]

\* on_event while esp_mqtt_client_stop waits for the MQTT task to end.
HandlerWhileStopping(c) == handler

\* The queue is empty: tbcm_disconnect calls esp_mqtt_client_stop.
StartStop(c) ==
  /\ At(c, "flush")
  /\ queue[c] = << >>
  /\ pc' = "stop"
  /\ handler' = HandlerWhileStopping(c)
  /\ UNCHANGED <<life, handle, state, timer, queue, tasks, client, destroying, crash, counters>>

\* The MQTT task has ended, and the rest of tbcm_disconnect follows.  It does
\* not stop the timer.
FinishStop(c) ==
  /\ At(c, "stop")
  /\ mqtt[c] = Nothing
  /\ esp' = [esp EXCEPT ![c] = "none"]
  /\ handle' = [handle EXCEPT ![c] = FALSE]
  /\ handler' = [handler EXCEPT ![c] = FALSE]
  /\ state' = [state EXCEPT ![c] = "DISCONNECTED"]
  /\ pc' = IF life[c] = "closing" THEN "free" ELSE "drain"
  /\ UNCHANGED <<life, timer, queue, mqtt, ticking, client, destroying, crash, counters>>

\* The queue is empty again.
FinishDisconnect(c) ==
  /\ At(c, "drain")
  /\ queue[c] = << >>
  /\ pc' = IF destroying THEN "delete" ELSE "out"
  /\ UNCHANGED <<memory, tasks, client, destroying, crash, counters>>

\* Mutant: the esp-mqtt client is forgotten.
StopsEspNever(c) == FALSE

\* tbcm_destroy has an esp-mqtt client to stop.
StopsEsp(c) == handle[c]

\* tbcmh_destroy deletes the lock and the queue, and calls tbcm_destroy.
Delete(c) ==
  /\ At(c, "delete")
  /\ life' = [life EXCEPT ![c] = "closing"]
  /\ queue' = [queue EXCEPT ![c] = << >>]
  /\ pc' = IF StopsEsp(c) THEN "stop" ELSE "free"
  /\ UNCHANGED <<handle, state, handler, timer, tasks, client, destroying, crash, counters>>

\* Mutant: the timer is not stopped.
TimerKept(c) == timer

\* _response_timer_stop and _response_timer_destroy
TimerDestroyed(c) == [timer EXCEPT ![c] = FALSE]

\* The end of tbcm_destroy and of tbcmh_destroy.
Free(c) ==
  /\ At(c, "free")
  /\ timer' = TimerDestroyed(c)
  /\ life' = [life EXCEPT ![c] = "freed"]
  /\ pc' = "out"
  /\ destroying' = FALSE
  /\ UNCHANGED <<handle, state, handler, queue, tasks, client, crash, counters>>

\* tbcmh_run takes the next event out: called by the application, or by
\* tbcmh_disconnect until the queue is empty.
Receive(c, type) ==
  /\ Running
  /\ life[c] = "open"
  /\ pc = "out" \/ (pc \in {"flush", "drain"} /\ client = c)
  /\ queue[c] # << >>
  /\ Head(queue[c]).type = type
  /\ queue' = [queue EXCEPT ![c] = Tail(@)]
  /\ UNCHANGED <<life, handle, state, handler, timer, tasks, application, crash, counters>>

-----------------------------------------------------------------------------
TimerTask(c) == TimerFires(c) \/ TimerSend(c)

-----------------------------------------------------------------------------
(* Properties.                                                             *)

MemoryType ==
  /\ life \in [Client -> {"none", "open", "closing", "freed"}]
  /\ handle \in [Client -> BOOLEAN]
  /\ state \in [Client -> {"DISCONNECTED", "CONNECTING", "CONNECTED"}]
  /\ handler \in [Client -> BOOLEAN]
  /\ timer \in [Client -> BOOLEAN]

QueueType ==
  /\ queue \in [Client -> Seq(Event)]
  /\ \A c \in Client : Len(queue[c]) <= QueueSize

TasksType ==
  /\ esp \in [Client -> {"none", "waiting", "connecting", "connected"}]
  /\ mqtt \in [Client -> Event \cup {Nothing}]
  /\ ticking \in Client \cup {"none"}

ApplicationType ==
  /\ pc \in {"out", "starting", "flush", "stop", "drain", "delete", "free"}
  /\ client \in Client \cup {"none"}
  /\ destroying \in BOOLEAN
  /\ crash \in {"nobody", "mqtt", "timer", "app"} \X {"nothing", "handler", "queue", "client"}

CountersType ==
  /\ attempts \in [Client -> 0..MaxAttempts]
  /\ ticks \in 0..MaxTicks
  /\ skipped \in BOOLEAN

\* Types of the variables; a queue never holds more than its capacity.
TypeOKConnection == MemoryType /\ QueueType /\ TasksType /\ ApplicationType /\ CountersType

\* on_event is called when it is NULL in two cases only: by the MQTT task while
\* tbcm_connect has started esp-mqtt and not yet set it, and by the timer, which
\* outlives tbcm_disconnect.  In particular never while esp-mqtt is stopped.
HandlerIsMissing ==
  /\ crash = <<"mqtt", "handler">> => pc = "starting"
  /\ crash = <<"timer", "handler">> => ~handle[client]

\* The MQTT task uses a queue that was deleted only if tbcmh_destroy did not
\* stop it before, which it leaves out while esp-mqtt waits to reconnect.  No
\* task uses a client that was freed.
NoUseAfterDestroy ==
  /\ crash = <<"mqtt", "queue">> => skipped
  /\ crash \notin {<<"mqtt", "client">>, <<"timer", "client">>}
=============================================================================
