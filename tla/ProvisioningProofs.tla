-------------------------- MODULE ProvisioningProofs --------------------------
(***************************************************************************)
(* Proofs about Provisioning, and so about TbcmConnection: for queues of   *)
(* any size and any number of attempts, ticks, rounds and answers.         *)
(***************************************************************************)
EXTENDS Provisioning, TLAPS

-----------------------------------------------------------------------------
(* The inductive invariant.                                                *)

\* The memory of a client is in use.
Alive(c) == life[c] \in {"open", "closing"}
NoneAlive == \A c \in Client : ~Alive(c)

\* An esp-mqtt client, its task and the timer are there only for a client in
\* use, and there is one at a time, the one that was called last.
Lives ==
  \A c \in Client :
    /\ handle[c] <=> esp[c] # "none"
    /\ mqtt[c] # Nothing => handle[c]
    /\ handle[c] \/ timer[c] => Alive(c)
    /\ Alive(c) => client = c /\ tbcmh = c
    /\ handle[c] /\ ~handler[c] => pc = "starting"
    /\ life[c] = "closing" => pc \in {"stop", "free"}
    /\ life[c] = "closing" /\ handle[c] => skipped

\* What holds where a function of the client is.
Calls ==
  /\ pc \in {"out", "starting"} => ~destroying
  /\ pc # "out" => client \in Client /\ Alive(client)
  /\ pc = "starting" => handle[client] /\ ~handler[client]
  /\ pc = "starting" /\ Running => ~timer[client]
  /\ pc = "drain" => ~handle[client]
  /\ pc = "delete" /\ handle[client] => skipped
  /\ pc = "free" => ~handle[client] /\ life[client] = "closing"

\* What holds where mqtt_app_start is.
Places ==
  /\ app \in {"begin", "switched", "discard", "uninit", "done"} =>
       IF pc = "out" THEN NoneAlive ELSE destroying
  /\ app \in {"loop", "leave"} /\ tbcmh = "none" => pc = "out" /\ NoneAlive
  /\ app = "connect" => /\ pc = "out"
                        /\ tbcmh \in Client /\ life[tbcmh] = "open"
                        /\ ~handle[tbcmh] /\ ~timer[tbcmh]
  /\ app = "loop" => /\ pc \in {"out", "starting"}
                     /\ tbcmh = "front" => life["front"] = "open"
  /\ app = "switch" => round < Rounds /\ tbcmh # "none"
  /\ app = "done" => pc = "out" /\ _memory_credentials = None
  /\ tbcmh # "none" => (front <=> tbcmh = "front")

\* An event of data is an answer of the server to the front client.
IsAnswer(c, e, n) == e.type = "DATA" => c = "front" /\ e.number \in 1..n

AnswersQueued(n) ==
  \A c \in Client : \A i \in 1..Len(queue[c]) : IsAnswer(c, queue[c][i], n)

AnswersCopied(n) == \A c \in Client : IsAnswer(c, mqtt[c], n)

Answers ==
  /\ AnswersQueued(Len(answers)) /\ AnswersCopied(Len(answers))
  /\ _memory_credentials \in {latest, None}

\* Who may have used what was not there.
Faults == HandlerIsMissing /\ NoUseAfterDestroy /\ UsesFreedOnlyDiscarded

IInv == TypeOK /\ Lives /\ Calls /\ Places /\ Answers /\ Faults /\ ConnectsAsProvisioned

-----------------------------------------------------------------------------
(* The queue.                                                              *)

\* An event is put into it.
LEMMA PostInv ==
  ASSUME QueueType, NEW n \in Nat, AnswersQueued(n),
         NEW c \in Client, NEW e \in Event, IsAnswer(c, e, n), Post(c, e)
  PROVE  QueueType' /\ AnswersQueued(n)'
<1>1. CASE Len(queue[c]) < QueueSize
  <2>1. /\ Append(queue[c], e) \in Seq(Event) /\ Len(Append(queue[c], e)) = Len(queue[c]) + 1
        /\ Len(queue[c]) \in Nat
        /\ \A i \in 1..Len(queue[c]) : Append(queue[c], e)[i] = queue[c][i]
        /\ Append(queue[c], e)[Len(queue[c]) + 1] = e
    BY DEF QueueType
  <2>2. queue' = [queue EXCEPT ![c] = Append(queue[c], e)]
    BY <1>1 DEF Post
  <2>3. QueueType'
    BY <1>1, <2>1, <2>2, ConnectionAssumption DEF QueueType
  <2>4. ASSUME NEW d \in Client, NEW i \in 1..Len(queue'[d])
        PROVE  IsAnswer(d, queue'[d][i], n)
    <3>1. CASE d # c
      BY <2>2, <2>4, <3>1 DEF QueueType, AnswersQueued
    <3>2. CASE d = c
      <4>1. queue'[d] = Append(queue[c], e)
        BY <2>2, <3>2 DEF QueueType
      <4>2. CASE i = Len(queue[c]) + 1
        BY <2>1, <3>2, <4>1, <4>2
      <4>3. CASE i \in 1..Len(queue[c])
        BY <2>1, <3>2, <4>1, <4>3 DEF AnswersQueued
      <4> QED BY <2>1, <2>4, <4>1, <4>2, <4>3
    <3> QED BY <3>1, <3>2
  <2> QED BY <2>3, <2>4 DEF AnswersQueued
<1>2. CASE ~(Len(queue[c]) < QueueSize)
  BY <1>2 DEF Post, QueueType, AnswersQueued
<1> QED BY <1>1, <1>2

\* An event is taken out of it.
LEMMA ReceiveInv ==
  ASSUME QueueType, NEW n \in Nat, AnswersQueued(n), NEW c \in Client, NEW type, Receive(c, type)
  PROVE  /\ QueueType' /\ AnswersQueued(n)'
         /\ Head(queue[c]) \in Event /\ Head(queue[c]).type = type
         /\ IsAnswer(c, Head(queue[c]), n)
<1>1. queue[c] \in Seq(Event) /\ queue[c] # << >> /\ Len(queue[c]) <= QueueSize
  BY DEF QueueType, Receive
<1>2. /\ Tail(queue[c]) \in Seq(Event) /\ Len(Tail(queue[c])) = Len(queue[c]) - 1
      /\ Len(queue[c]) \in Nat \ {0} /\ Head(queue[c]) \in Event /\ Head(queue[c]) = queue[c][1]
      /\ \A i \in 1..(Len(queue[c]) - 1) : Tail(queue[c])[i] = queue[c][i + 1]
  BY <1>1
<1>3. queue' = [queue EXCEPT ![c] = Tail(queue[c])] /\ Head(queue[c]).type = type
  BY DEF Receive
<1>4. QueueType'
  BY <1>1, <1>2, <1>3, ConnectionAssumption DEF QueueType
<1>5. ASSUME NEW d \in Client, NEW i \in 1..Len(queue'[d])
      PROVE  IsAnswer(d, queue'[d][i], n)
  <2>1. CASE d # c
    BY <1>3, <1>5, <2>1 DEF QueueType, AnswersQueued
  <2>2. CASE d = c
    <3>1. queue'[d] = Tail(queue[c])
      BY <1>3, <2>2 DEF QueueType
    <3>2. i + 1 \in 1..Len(queue[c]) /\ i \in 1..(Len(queue[c]) - 1)
      BY <1>2, <1>5, <3>1
    <3> QED BY <1>2, <2>2, <3>1, <3>2 DEF AnswersQueued
  <2> QED BY <2>1, <2>2
<1>6. IsAnswer(c, Head(queue[c]), n)
  BY <1>2 DEF AnswersQueued
<1> QED BY <1>2, <1>3, <1>4, <1>5, <1>6 DEF AnswersQueued

-----------------------------------------------------------------------------
(* The MQTT task and the timer task.                                       *)

\* The variables of the application and its data are left alone.
LEMMA Frame ==
  ASSUME IInv, UNCHANGED <<appVars, data>>
  PROVE  AppType' /\ DataType'
BY DEF IInv, TypeOK, AppType, DataType, appVars, data

\* No step is made after a crash; before it there are no faults.
LEMMA NoFaultYet ==
  ASSUME Running, UNCHANGED crash
  PROVE  Faults'
BY DEF Running, NoCrash, Faults, HandlerIsMissing, NoUseAfterDestroy, UsesFreedOnlyDiscarded

\* An event of esp-mqtt.  If on_event is NULL, tbcm_connect has not set it yet.
LEMMA MqttEventInv ==
  ASSUME IInv, NEW c \in Client,
         NEW from \in SUBSET {"waiting", "connecting", "connected"},
         NEW to \in {"waiting", "connecting", "connected"},
         NEW e \in Event, IsAnswer(c, e, Len(answers')), MqttEvent(c, from, to, e),
         attempts' \in [Client -> 0..MaxAttempts],
         ServerType', Len(answers) <= Len(answers'),
         UNCHANGED <<appVars, data>>
  PROVE  IInv'
<1>1. /\ Running /\ esp[c] \in from /\ esp' = [esp EXCEPT ![c] = to]
      /\ state' = state \/ state' = [state EXCEPT ![c] = e.type]
      /\ state' # state => e.type \in {"CONNECTED", "DISCONNECTED"}
      /\ timer' = timer \/ timer' = [timer EXCEPT ![c] = TRUE]
      /\ mqtt' = mqtt \/ mqtt' = [mqtt EXCEPT ![c] = e]
      /\ handler[c] => crash' = crash
      /\ ~handler[c] => crash' = IF life[c] = "freed" THEN <<"mqtt", "client">>
                                 ELSE <<"mqtt", "handler">>
      /\ UNCHANGED <<life, handle, handler, queue, ticking, pc, client, destroying, ticks, skipped>>
  BY DEF MqttEvent, application
<1>2. /\ MemoryType /\ QueueType /\ TasksType /\ ApplicationType /\ CountersType
      /\ ServerType /\ Lives /\ Calls /\ Places /\ Answers /\ Faults
  BY DEF IInv, TypeOK, TypeOKConnection
<1>3. /\ handle[c] /\ Alive(c) /\ client = c /\ life[c] # "freed"
      /\ ~handler[c] => pc = "starting"
  BY <1>1, <1>2 DEF Lives, Alive, TasksType
<1>4. MemoryType' /\ QueueType' /\ TasksType' /\ CountersType'
  <2>1. MemoryType'
    <3>1. state' \in [Client -> {"DISCONNECTED", "CONNECTING", "CONNECTED"}]
      <4>1. CASE state' = state
        BY <1>2, <4>1 DEF MemoryType
      <4>2. CASE state' # state
        <5>1. state' = [state EXCEPT ![c] = e.type] /\ e.type \in {"CONNECTED", "DISCONNECTED"}
          BY <1>1, <4>2
        <5> QED BY <1>2, <5>1 DEF MemoryType
      <4> QED BY <4>1, <4>2
    <3>2. timer' \in [Client -> BOOLEAN]
      <4>1. timer' = timer \/ timer' = [timer EXCEPT ![c] = TRUE]
        BY <1>1
      <4> QED BY <1>2, <4>1 DEF MemoryType
    <3>3. life' = life /\ handle' = handle /\ handler' = handler
      BY <1>1
    <3> QED BY <1>2, <3>1, <3>2, <3>3 DEF MemoryType
  <2>2. QueueType' /\ CountersType'
    <3>1. queue' = queue /\ ticks' = ticks /\ skipped' = skipped
      BY <1>1
    <3> QED BY <1>2, <3>1 DEF QueueType, CountersType
  <2>3. TasksType'
    <3>1. esp' = [esp EXCEPT ![c] = to] /\ ticking' = ticking
          /\ (mqtt' = mqtt \/ mqtt' = [mqtt EXCEPT ![c] = e])
      BY <1>1
    <3> QED BY <1>2, <3>1 DEF TasksType
  <2> QED BY <2>1, <2>2, <2>3
<1>5. ApplicationType'
  BY <1>1, <1>2 DEF ApplicationType
<1>6. Lives'
  BY <1>1, <1>2, <1>3 DEF Lives, Alive, TasksType, MemoryType, appVars
<1>7. Calls'
  BY <1>1, <1>2, <1>3 DEF Calls, Alive, MemoryType, Running, NoCrash
<1>8. Places'
  BY <1>1, <1>2, <1>3 DEF Places, NoneAlive, Alive, MemoryType, appVars, data
<1>9. Answers'
  <2>1. Len(answers) \in Nat /\ Len(answers') \in Nat
    BY <1>2 DEF ServerType
  <2>2. AnswersQueued(Len(answers))'
    BY <1>1, <1>2, <2>1 DEF Answers, AnswersQueued, IsAnswer
  <2>3. AnswersCopied(Len(answers))'
    BY <1>1, <1>2, <2>1 DEF Answers, AnswersCopied, IsAnswer, TasksType
  <2> QED BY <1>2, <2>2, <2>3 DEF Answers, data
<1>10. Faults'
  <2>1. CASE handler[c]
    BY <1>1, <2>1, NoFaultYet
  <2>2. CASE ~handler[c]
    BY <1>1, <1>3, <2>2 DEF Faults, HandlerIsMissing, NoUseAfterDestroy, UsesFreedOnlyDiscarded
  <2> QED BY <2>1, <2>2
<1>11. ConnectsAsProvisioned'
  BY <1>1 DEF IInv, ConnectsAsProvisioned, appVars, data
<1> QED
  BY <1>4, <1>5, <1>6, <1>7, <1>8, <1>9, <1>10, <1>11, Frame DEF IInv, TypeOK, TypeOKConnection

LEMMA SignalType ==
  ASSUME NEW type \in {"BEFORE_CONNECT", "CONNECTED", "DISCONNECTED", "CHECK_TIMEOUT"}
  PROVE  /\ Signal(type) \in Event /\ Signal(type).type = type
         /\ \A c, n : IsAnswer(c, Signal(type), n)
BY DEF Signal, Event, IsAnswer

\* An event is copied into the queue.  The MQTT task misses the queue only if
\* tbcmh_destroy has left the esp-mqtt client running.
LEMMA SendInv ==
  ASSUME IInv, NEW c \in Client, NEW e \in Event, IsAnswer(c, e, Len(answers)),
         NEW who \in {"mqtt", "timer"}, Send(c, e, who), TasksType', AnswersCopied(Len(answers))',
         \A d \in Client : mqtt'[d] = mqtt[d] \/ mqtt'[d] = Nothing,
         who = "mqtt" => handle[c],
         UNCHANGED <<appVars, data, server>>
  PROVE  IInv'
<1>1. /\ Running
      /\ UNCHANGED <<life, handle, state, handler, timer, esp, pc, client, destroying,
                     attempts, ticks, skipped>>
      /\ IF life[c] = "open" THEN Post(c, e) /\ crash' = crash
                             ELSE crash' = <<who, "queue">> /\ queue' = queue
  BY DEF Send, application, counters
<1>2. /\ MemoryType /\ QueueType /\ TasksType /\ ApplicationType /\ CountersType
      /\ ServerType /\ Lives /\ Calls /\ Places /\ Answers /\ Faults
  BY DEF IInv, TypeOK, TypeOKConnection
<1>3. QueueType' /\ AnswersQueued(Len(answers))'
  <2>1. Len(answers) \in Nat /\ answers' = answers
    BY <1>2 DEF ServerType, server
  <2>2. CASE life[c] = "open"
    BY <1>1, <1>2, <2>1, <2>2, PostInv DEF Answers
  <2>3. CASE life[c] # "open"
    BY <1>1, <1>2, <2>1, <2>3 DEF Answers, QueueType, AnswersQueued
  <2> QED BY <2>2, <2>3
<1>4. MemoryType' /\ ApplicationType' /\ CountersType' /\ ServerType'
  <2>1. MemoryType' /\ CountersType' /\ ServerType'
    BY <1>1, <1>2 DEF MemoryType, CountersType, ServerType, server
  <2>2. ApplicationType'
    BY <1>1, <1>2 DEF ApplicationType
  <2> QED BY <2>1, <2>2
<1>5. Lives'
  BY <1>1, <1>2 DEF Lives, Alive, appVars
<1>6. Calls' /\ Places'
  BY <1>1, <1>2 DEF Calls, Places, NoneAlive, Alive, Running, NoCrash, appVars, data
<1>7. Answers'
  BY <1>2, <1>3 DEF Answers, data, server
<1>8. Faults'
  <2>1. CASE life[c] = "open"
    BY <1>1, <2>1, NoFaultYet
  <2>2. CASE life[c] # "open"
    <3>1. who = "mqtt" => skipped
      BY <1>2, <2>2 DEF Lives, Alive
    <3> QED
      BY <1>1, <2>2, <3>1
      DEF Faults, HandlerIsMissing, NoUseAfterDestroy, UsesFreedOnlyDiscarded
  <2> QED BY <2>1, <2>2
<1>9. ConnectsAsProvisioned'
  BY <1>1 DEF IInv, ConnectsAsProvisioned, appVars, data
<1> QED
  BY <1>3, <1>4, <1>5, <1>6, <1>7, <1>8, <1>9, Frame DEF IInv, TypeOK, TypeOKConnection

\* The timer outlives tbcm_disconnect, and only that leaves it without on_event.
LEMMA TimerFiresInv ==
  ASSUME IInv, NEW c \in Client, TimerFires(c), UNCHANGED <<appVars, data, server>>
  PROVE  IInv'
<1>1. /\ Running /\ timer[c] /\ ticks' = ticks + 1 /\ ticks < MaxTicks
      /\ ticking' \in {c, "none", ticking}
      /\ handler[c] => crash' = crash
      /\ ~handler[c] => crash' = IF life[c] = "freed" THEN <<"timer", "client">>
                                 ELSE <<"timer", "handler">>
      /\ UNCHANGED <<life, handle, state, handler, timer, queue, esp, mqtt, pc, client,
                     destroying, attempts, skipped>>
  BY DEF TimerFires, memory, application
<1>2. /\ MemoryType /\ QueueType /\ TasksType /\ ApplicationType /\ CountersType
      /\ ServerType /\ Lives /\ Calls /\ Places /\ Answers /\ Faults
  BY DEF IInv, TypeOK, TypeOKConnection
<1>3. /\ Alive(c) /\ client = c /\ life[c] # "freed"
      /\ ~handler[c] => ~handle[c]
  BY <1>1, <1>2 DEF Lives, Calls, Alive
<1>4. MemoryType' /\ QueueType' /\ TasksType' /\ CountersType' /\ ServerType'
  BY <1>1, <1>2, ConnectionAssumption
  DEF MemoryType, QueueType, TasksType, CountersType, ServerType, server
<1>5. ApplicationType'
  BY <1>1, <1>2 DEF ApplicationType
<1>6. Lives'
  BY <1>1, <1>2 DEF Lives, Alive, appVars
<1>7. Calls' /\ Places'
  BY <1>1, <1>2 DEF Calls, Places, NoneAlive, Alive, Running, NoCrash, appVars, data
<1>8. Answers'
  BY <1>1, <1>2 DEF Answers, AnswersQueued, AnswersCopied, IsAnswer, data, server
<1>9. Faults'
  <2>1. CASE handler[c]
    BY <1>1, <2>1, NoFaultYet
  <2>2. CASE ~handler[c]
    BY <1>1, <1>3, <2>2 DEF Faults, HandlerIsMissing, NoUseAfterDestroy, UsesFreedOnlyDiscarded
  <2> QED BY <2>1, <2>2
<1>10. ConnectsAsProvisioned'
  BY <1>1 DEF IInv, ConnectsAsProvisioned, appVars, data
<1> QED
  BY <1>4, <1>5, <1>6, <1>7, <1>8, <1>9, <1>10, Frame DEF IInv, TypeOK, TypeOKConnection

-----------------------------------------------------------------------------
(* Events, handled by tbcmh_run.                                           *)

\* The credentials of an answer that can be parsed.
LEMMA CredentialsType ==
  ASSUME ServerType, NEW n \in 1..Len(answers), Parsed(answers[n])
  PROVE  CredentialsOf(n) \in Credentials
<1>1. answers[n] \in Answer /\ Len(answers) \in Nat
  BY DEF ServerType
<1>2. /\ answers[n].type \in Types
      /\ answers[n].value \in {"given", "hollow"}
      /\ n \in 1..MaxAnswers
  BY <1>1, ProvisioningAssumption DEF ServerType, Answer, Parsed
<1> QED BY <1>2 DEF CredentialsOf, Credentials

\* An answer reaches the front client only, while the normal client has not
\* connected: what that will log in with is still open.
LEMMA RunInv ==
  ASSUME IInv, Run
  PROVE  IInv'
<1> DEFINE c == tbcmh
<1>1. /\ MemoryType /\ QueueType /\ TasksType /\ ApplicationType /\ CountersType
      /\ AppType /\ DataType /\ ServerType
      /\ Lives /\ Calls /\ Places /\ Answers /\ ConnectsAsProvisioned
  BY DEF IInv, TypeOK, TypeOKConnection
<1>2. c \in Client /\ app # "done" /\ HandleEvent(c)
  BY <1>1 DEF Run, Looping, AppType, Places
<1>3. PICK type : Receive(c, type)
  BY <1>2 DEF HandleEvent, OnConnected, OnDisconnected, OnData, OnCheckTimeout, OnBeforeConnect
<1>4. /\ Running /\ life[c] = "open"
      /\ UNCHANGED <<life, handle, state, handler, timer, esp, mqtt, ticking, pc, client,
                     destroying, crash, attempts, ticks, skipped>>
  BY <1>3 DEF Receive, tasks, application, counters
<1>5. /\ UNCHANGED <<app, front, tbcmh, round, schema, provision, login, answers>>
      /\ asked' \in Nat
      /\ deviceprovision_list' \in Nat
      /\ \/ UNCHANGED <<_memory_credentials, latest>>
         \/ OnData(c) /\ deviceprovision_list > 0 /\ Parsed(answers[Head(queue[c]).number])
  <2>1. CASE OnConnected(c)
    BY <1>1, <2>1 DEF OnConnected, appVars, DataType, ServerType
  <2>2. CASE OnDisconnected(c)
    BY <1>1, <2>2 DEF OnDisconnected, appVars, server, DataType, ServerType
  <2>3. CASE OnData(c)
    BY <1>1, <2>3 DEF OnData, appVars, server, DataType, ServerType
  <2>4. CASE OnCheckTimeout(c)
    BY <1>1, <2>4 DEF OnCheckTimeout, appVars, server, DataType, ServerType
  <2>5. CASE OnBeforeConnect(c)
    BY <1>1, <2>5 DEF OnBeforeConnect, appVars, data, server, DataType, ServerType
  <2> QED BY <1>2, <2>1, <2>2, <2>3, <2>4, <2>5 DEF HandleEvent
<1> HIDE DEF c
<1>6. /\ QueueType' /\ AnswersQueued(Len(answers))'
      /\ OnData(c) => c = "front" /\ Head(queue[c]).number \in 1..Len(answers)
  <2>1. Len(answers) \in Nat
    BY <1>1 DEF ServerType
  <2>2. QueueType' /\ AnswersQueued(Len(answers))'
    BY <1>1, <1>2, <1>3, <1>5, <2>1, ReceiveInv DEF Answers
  <2>3. ASSUME OnData(c) PROVE c = "front" /\ Head(queue[c]).number \in 1..Len(answers)
    <3>1. Receive(c, "DATA")
      BY <2>3 DEF OnData
    <3>2. Head(queue[c]).type = "DATA" /\ IsAnswer(c, Head(queue[c]), Len(answers))
      BY <1>1, <1>2, <2>1, <3>1, ReceiveInv DEF Answers
    <3> QED BY <3>2 DEF IsAnswer
  <2> QED BY <2>2, <2>3
<1>7. \/ UNCHANGED <<_memory_credentials, latest>>
      \/ /\ ~handle["normal"]
         /\ latest' \in Credentials /\ _memory_credentials' \in {latest', None}
  <2>1. CASE OnData(c) /\ deviceprovision_list > 0 /\ Parsed(answers[Head(queue[c]).number])
    <3> DEFINE n == Head(queue[c]).number
    <3>1. n \in 1..Len(answers) /\ c = "front"
      BY <1>6, <2>1
    <3>2. latest' = CredentialsOf(n) /\ _memory_credentials' \in {CredentialsOf(n), None}
      BY <2>1 DEF OnData, Cloned
    <3>3. latest' \in Credentials
      BY <1>1, <2>1, <3>1, <3>2, CredentialsType
    <3>4. ~handle["normal"]
      BY <1>1, <3>1, ProvisioningAssumption DEF Lives, c
    <3> QED BY <3>2, <3>3, <3>4
  <2> QED BY <1>5, <2>1
<1>8. MemoryType' /\ TasksType' /\ ApplicationType' /\ CountersType'
  BY <1>1, <1>4 DEF MemoryType, TasksType, ApplicationType, CountersType
<1>9. AppType' /\ DataType' /\ ServerType'
  BY <1>1, <1>5, <1>7 DEF AppType, DataType, ServerType
<1>10. Lives' /\ Calls'
  BY <1>1, <1>4, <1>5 DEF Lives, Calls, Alive, Running
<1>11. Places'
  BY <1>1, <1>2, <1>4, <1>5 DEF Places, NoneAlive, Alive
<1>12. Answers'
  <2>1. AnswersCopied(Len(answers))'
    BY <1>1, <1>4, <1>5 DEF Answers, AnswersCopied, IsAnswer
  <2> QED BY <1>1, <1>6, <1>7, <2>1 DEF Answers
<1>13. Faults'
  BY <1>4, NoFaultYet
<1>14. ConnectsAsProvisioned'
  BY <1>1, <1>4, <1>5, <1>7 DEF ConnectsAsProvisioned
<1> QED
  BY <1>6, <1>8, <1>9, <1>10, <1>11, <1>12, <1>13, <1>14 DEF IInv, TypeOK, TypeOKConnection

-----------------------------------------------------------------------------
(* Steps inside the functions of the client.                               *)

\* tbcm_connect sets on_event.
LEMMA FinishConnectInv ==
  ASSUME IInv, NEW c \in Client, FinishConnect(c),
         UNCHANGED <<appVars, _memory_credentials, login, latest, server>>,
         deviceprovision_list' \in {0, deviceprovision_list}
  PROVE  IInv'
<1>1. /\ MemoryType /\ QueueType /\ TasksType /\ ApplicationType /\ CountersType
      /\ AppType /\ DataType /\ ServerType
      /\ Lives /\ Calls /\ Places /\ Answers /\ ConnectsAsProvisioned
  BY DEF IInv, TypeOK, TypeOKConnection
<1>2. /\ Running
      /\ pc = "starting"
      /\ client = c
      /\ handler' = [handler EXCEPT ![c] = TRUE]
      /\ state' = [state EXCEPT ![c] = "CONNECTING"]
      /\ pc' = "out"
      /\ deviceprovision_list' \in {0, deviceprovision_list}
      /\ UNCHANGED <<life, handle, timer, queue, esp, mqtt, ticking, client, destroying,
                     attempts, ticks, skipped, app, front, tbcmh, round, schema,
                     provision, _memory_credentials, login, latest, asked, answers,
                     crash>>
  BY DEF FinishConnect, memory, tasks, application, counters, appVars, server
<1>3. MemoryType' /\ QueueType' /\ TasksType' /\ CountersType'
  BY <1>1, <1>2
  DEF MemoryType, QueueType, TasksType, CountersType
<1>4. ApplicationType'
  BY <1>1, <1>2
  DEF ApplicationType
<1>5. AppType' /\ DataType' /\ ServerType'
  BY <1>1, <1>2
  DEF AppType, DataType, ServerType
<1>6. Lives'
  BY <1>1, <1>2
  DEF Lives, Calls, Alive, MemoryType, TasksType
<1>7. Calls'
  BY <1>1, <1>2
  DEF Calls, Lives, Alive, MemoryType, Running
<1>8. Places'
  BY <1>1, <1>2
  DEF Places, NoneAlive, Lives, Calls, Alive, MemoryType
<1>9. Answers'
  BY <1>1, <1>2
  DEF Answers, AnswersQueued, AnswersCopied, IsAnswer
<1>10. Faults'
  BY <1>1, <1>2, NoFaultYet
<1>11. ConnectsAsProvisioned'
  BY <1>1, <1>2
  DEF ConnectsAsProvisioned, MemoryType
<1> QED
  BY <1>3, <1>4, <1>5, <1>6, <1>7, <1>8, <1>9, <1>10, <1>11 DEF IInv, TypeOK, TypeOKConnection

\* esp-mqtt is asked to stop; on_event stays set meanwhile.
LEMMA StartStopInv ==
  ASSUME IInv, NEW c \in Client, StartStop(c),
         UNCHANGED <<appVars, _memory_credentials, login, latest, server>>,
         deviceprovision_list' \in {0, deviceprovision_list}
  PROVE  IInv'
<1>1. /\ MemoryType /\ QueueType /\ TasksType /\ ApplicationType /\ CountersType
      /\ AppType /\ DataType /\ ServerType
      /\ Lives /\ Calls /\ Places /\ Answers /\ ConnectsAsProvisioned
  BY DEF IInv, TypeOK, TypeOKConnection
<1>2. /\ Running
      /\ pc = "flush"
      /\ client = c
      /\ pc' = "stop"
      /\ deviceprovision_list' \in {0, deviceprovision_list}
      /\ UNCHANGED <<life, handle, state, handler, timer, queue, esp, mqtt, ticking, client,
                     destroying, attempts, ticks, skipped, app, front, tbcmh, round,
                     schema, provision, _memory_credentials, login, latest, asked,
                     answers, crash>>
  BY DEF StartStop, At, HandlerWhileStopping, memory, tasks, application, counters, appVars, server
<1>3. MemoryType' /\ QueueType' /\ TasksType' /\ CountersType'
  BY <1>1, <1>2
  DEF MemoryType, QueueType, TasksType, CountersType
<1>4. ApplicationType'
  BY <1>1, <1>2
  DEF ApplicationType
<1>5. AppType' /\ DataType' /\ ServerType'
  BY <1>1, <1>2
  DEF AppType, DataType, ServerType
<1>6. Lives'
  BY <1>1, <1>2
  DEF Lives, Calls, Alive, MemoryType, TasksType
<1>7. Calls'
  BY <1>1, <1>2
  DEF Calls, Lives, Alive, MemoryType, Running
<1>8. Places'
  BY <1>1, <1>2
  DEF Places, NoneAlive, Lives, Calls, Alive, MemoryType
<1>9. Answers'
  BY <1>1, <1>2
  DEF Answers, AnswersQueued, AnswersCopied, IsAnswer
<1>10. Faults'
  BY <1>1, <1>2, NoFaultYet
<1>11. ConnectsAsProvisioned'
  BY <1>1, <1>2
  DEF ConnectsAsProvisioned, MemoryType
<1> QED
  BY <1>3, <1>4, <1>5, <1>6, <1>7, <1>8, <1>9, <1>10, <1>11 DEF IInv, TypeOK, TypeOKConnection

\* esp-mqtt has stopped.
LEMMA FinishStopInv ==
  ASSUME IInv, NEW c \in Client, FinishStop(c),
         UNCHANGED <<appVars, _memory_credentials, login, latest, server>>,
         deviceprovision_list' \in {0, deviceprovision_list}
  PROVE  IInv'
<1>1. /\ MemoryType /\ QueueType /\ TasksType /\ ApplicationType /\ CountersType
      /\ AppType /\ DataType /\ ServerType
      /\ Lives /\ Calls /\ Places /\ Answers /\ ConnectsAsProvisioned
  BY DEF IInv, TypeOK, TypeOKConnection
<1>2. /\ Running
      /\ pc = "stop"
      /\ client = c
      /\ mqtt[c] = Nothing
      /\ esp' = [esp EXCEPT ![c] = "none"]
      /\ handle' = [handle EXCEPT ![c] = FALSE]
      /\ handler' = [handler EXCEPT ![c] = FALSE]
      /\ state' = [state EXCEPT ![c] = "DISCONNECTED"]
      /\ pc' = IF life[c] = "closing" THEN "free" ELSE "drain"
      /\ deviceprovision_list' \in {0, deviceprovision_list}
      /\ UNCHANGED <<life, timer, queue, mqtt, ticking, client, destroying, attempts, ticks,
                     skipped, app, front, tbcmh, round, schema, provision,
                     _memory_credentials, login, latest, asked, answers, crash>>
  BY DEF FinishStop, At, memory, tasks, application, counters, appVars, server
<1>3. MemoryType' /\ QueueType' /\ TasksType' /\ CountersType'
  BY <1>1, <1>2
  DEF MemoryType, QueueType, TasksType, CountersType
<1>4. ApplicationType'
  BY <1>1, <1>2
  DEF ApplicationType
<1>5. AppType' /\ DataType' /\ ServerType'
  BY <1>1, <1>2
  DEF AppType, DataType, ServerType
<1>6. Lives'
  BY <1>1, <1>2
  DEF Lives, Calls, Alive, MemoryType, TasksType
<1>7. Calls'
  BY <1>1, <1>2
  DEF Calls, Lives, Alive, MemoryType, Running
<1>8. Places'
  BY <1>1, <1>2
  DEF Places, NoneAlive, Lives, Calls, Alive, MemoryType
<1>9. Answers'
  BY <1>1, <1>2
  DEF Answers, AnswersQueued, AnswersCopied, IsAnswer
<1>10. Faults'
  BY <1>1, <1>2, NoFaultYet
<1>11. ConnectsAsProvisioned'
  BY <1>1, <1>2
  DEF ConnectsAsProvisioned, MemoryType
<1> QED
  BY <1>3, <1>4, <1>5, <1>6, <1>7, <1>8, <1>9, <1>10, <1>11 DEF IInv, TypeOK, TypeOKConnection

\* tbcmh_disconnect returns, to tbcmh_destroy if that has called it.
LEMMA FinishDisconnectInv ==
  ASSUME IInv, NEW c \in Client, FinishDisconnect(c),
         UNCHANGED <<appVars, _memory_credentials, login, latest, server>>,
         deviceprovision_list' \in {0, deviceprovision_list}
  PROVE  IInv'
<1>1. /\ MemoryType /\ QueueType /\ TasksType /\ ApplicationType /\ CountersType
      /\ AppType /\ DataType /\ ServerType
      /\ Lives /\ Calls /\ Places /\ Answers /\ ConnectsAsProvisioned
  BY DEF IInv, TypeOK, TypeOKConnection
<1>2. /\ Running
      /\ pc = "drain"
      /\ client = c
      /\ pc' = IF destroying THEN "delete" ELSE "out"
      /\ deviceprovision_list' \in {0, deviceprovision_list}
      /\ UNCHANGED <<life, handle, state, handler, timer, queue, esp, mqtt, ticking, client,
                     destroying, attempts, ticks, skipped, app, front, tbcmh, round,
                     schema, provision, _memory_credentials, login, latest, asked,
                     answers, crash>>
  BY DEF FinishDisconnect, At, memory, tasks, application, counters, appVars, server
<1>3. MemoryType' /\ QueueType' /\ TasksType' /\ CountersType'
  BY <1>1, <1>2
  DEF MemoryType, QueueType, TasksType, CountersType
<1>4. ApplicationType'
  BY <1>1, <1>2
  DEF ApplicationType
<1>5. AppType' /\ DataType' /\ ServerType'
  BY <1>1, <1>2
  DEF AppType, DataType, ServerType
<1>6. Lives'
  BY <1>1, <1>2
  DEF Lives, Calls, Alive, MemoryType, TasksType
<1>7. Calls'
  BY <1>1, <1>2
  DEF Calls, Lives, Alive, MemoryType, Running
<1>8. Places'
  BY <1>1, <1>2
  DEF Places, NoneAlive, Lives, Calls, Alive, MemoryType
<1>9. Answers'
  BY <1>1, <1>2
  DEF Answers, AnswersQueued, AnswersCopied, IsAnswer
<1>10. Faults'
  BY <1>1, <1>2, NoFaultYet
<1>11. ConnectsAsProvisioned'
  BY <1>1, <1>2
  DEF ConnectsAsProvisioned, MemoryType
<1> QED
  BY <1>3, <1>4, <1>5, <1>6, <1>7, <1>8, <1>9, <1>10, <1>11 DEF IInv, TypeOK, TypeOKConnection

\* tbcmh_destroy deletes the queue, and stops esp-mqtt if it was left running.
LEMMA DeleteInv ==
  ASSUME IInv, NEW c \in Client, Delete(c),
         UNCHANGED <<appVars, _memory_credentials, login, latest, server>>,
         deviceprovision_list' \in {0, deviceprovision_list}
  PROVE  IInv'
<1>1. /\ MemoryType /\ QueueType /\ TasksType /\ ApplicationType /\ CountersType
      /\ AppType /\ DataType /\ ServerType
      /\ Lives /\ Calls /\ Places /\ Answers /\ ConnectsAsProvisioned
  BY DEF IInv, TypeOK, TypeOKConnection
<1>2. /\ Running
      /\ pc = "delete"
      /\ client = c
      /\ life' = [life EXCEPT ![c] = "closing"]
      /\ queue' = [queue EXCEPT ![c] = << >>]
      /\ pc' = IF handle[c] THEN "stop" ELSE "free"
      /\ deviceprovision_list' \in {0, deviceprovision_list}
      /\ UNCHANGED <<handle, state, handler, timer, esp, mqtt, ticking, client, destroying,
                     attempts, ticks, skipped, app, front, tbcmh, round, schema,
                     provision, _memory_credentials, login, latest, asked, answers,
                     crash>>
  BY DEF Delete, At, StopsEsp, memory, tasks, application, counters, appVars, server
<1>3. MemoryType' /\ QueueType' /\ TasksType' /\ CountersType'
  <2>1. << >> \in Seq(Event) /\ Len(<< >>) = 0
    OBVIOUS
  <2>2. QueueType'
    BY <1>1, <1>2, <2>1, ConnectionAssumption DEF QueueType
  <2> QED BY <1>1, <1>2, <2>2 DEF MemoryType, TasksType, CountersType
<1>4. ApplicationType'
  BY <1>1, <1>2
  DEF ApplicationType
<1>5. AppType' /\ DataType' /\ ServerType'
  BY <1>1, <1>2
  DEF AppType, DataType, ServerType
<1>6. Lives'
  BY <1>1, <1>2
  DEF Lives, Calls, Alive, MemoryType, TasksType
<1>7. Calls'
  BY <1>1, <1>2
  DEF Calls, Lives, Alive, MemoryType, Running
<1>8. Places'
  BY <1>1, <1>2
  DEF Places, NoneAlive, Lives, Calls, Alive, MemoryType
<1>9. Answers'
  BY <1>1, <1>2
  DEF Answers, AnswersQueued, AnswersCopied, IsAnswer
<1>10. Faults'
  BY <1>1, <1>2, NoFaultYet
<1>11. ConnectsAsProvisioned'
  BY <1>1, <1>2
  DEF ConnectsAsProvisioned, MemoryType
<1> QED
  BY <1>3, <1>4, <1>5, <1>6, <1>7, <1>8, <1>9, <1>10, <1>11 DEF IInv, TypeOK, TypeOKConnection

\* The client is freed, its timer gone and its esp-mqtt client stopped.
LEMMA FreeInv ==
  ASSUME IInv, NEW c \in Client, Free(c),
         UNCHANGED <<appVars, _memory_credentials, login, latest, server>>,
         deviceprovision_list' \in {0, deviceprovision_list}
  PROVE  IInv'
<1>1. /\ MemoryType /\ QueueType /\ TasksType /\ ApplicationType /\ CountersType
      /\ AppType /\ DataType /\ ServerType
      /\ Lives /\ Calls /\ Places /\ Answers /\ ConnectsAsProvisioned
  BY DEF IInv, TypeOK, TypeOKConnection
<1>2. /\ Running
      /\ pc = "free"
      /\ client = c
      /\ timer' = [timer EXCEPT ![c] = FALSE]
      /\ life' = [life EXCEPT ![c] = "freed"]
      /\ pc' = "out"
      /\ destroying' = FALSE
      /\ deviceprovision_list' \in {0, deviceprovision_list}
      /\ UNCHANGED <<handle, state, handler, queue, esp, mqtt, ticking, client, attempts,
                     ticks, skipped, app, front, tbcmh, round, schema, provision,
                     _memory_credentials, login, latest, asked, answers, crash>>
  BY DEF Free, At, TimerDestroyed, memory, tasks, application, counters, appVars, server
<1>3. MemoryType' /\ QueueType' /\ TasksType' /\ CountersType'
  BY <1>1, <1>2
  DEF MemoryType, QueueType, TasksType, CountersType
<1>4. ApplicationType'
  BY <1>1, <1>2
  DEF ApplicationType
<1>5. AppType' /\ DataType' /\ ServerType'
  BY <1>1, <1>2
  DEF AppType, DataType, ServerType
<1>6. Lives'
  BY <1>1, <1>2
  DEF Lives, Calls, Alive, MemoryType, TasksType
<1>7. Calls'
  BY <1>1, <1>2
  DEF Calls, Lives, Alive, MemoryType, Running
<1>8. Places'
  BY <1>1, <1>2
  DEF Places, NoneAlive, Lives, Calls, Alive, MemoryType
<1>9. Answers'
  BY <1>1, <1>2
  DEF Answers, AnswersQueued, AnswersCopied, IsAnswer
<1>10. Faults'
  BY <1>1, <1>2, NoFaultYet
<1>11. ConnectsAsProvisioned'
  BY <1>1, <1>2
  DEF ConnectsAsProvisioned, MemoryType
<1> QED
  BY <1>3, <1>4, <1>5, <1>6, <1>7, <1>8, <1>9, <1>10, <1>11 DEF IInv, TypeOK, TypeOKConnection

-----------------------------------------------------------------------------
(* Steps of mqtt_app_start.                                                *)

\* What a client may log in with.
LEMMA FilledType ==
  ASSUME DataType, NEW c
  PROVE  Filled(schema, ConfigOf(c)) \in Credentials \cup {None, Front, Refused}
BY DEF DataType, Filled, ConfigOf

\* A client is made when no other is in use.
LEMMA CreateInv ==
  ASSUME IInv, NEW c \in Client, Create(c)
  PROVE  IInv'
<1>1. /\ MemoryType /\ QueueType /\ TasksType /\ ApplicationType /\ CountersType
      /\ AppType /\ DataType /\ ServerType
      /\ Lives /\ Calls /\ Places /\ Answers /\ ConnectsAsProvisioned
  BY DEF IInv, TypeOK, TypeOKConnection
<1>2. /\ Running
      /\ pc = "out" /\ app \in {"begin", "switched"} /\ app' = "connect"
      /\ life[c] = "none"
      /\ life' = [life EXCEPT ![c] = "open"]
      /\ client' = c
      /\ tbcmh' = c
      /\ front' = (c = "front")
      /\ UNCHANGED <<handle, state, handler, timer, queue, esp, mqtt, ticking, pc,
                     destroying, attempts, ticks, skipped, round, schema, provision,
                     _memory_credentials, deviceprovision_list, login, latest,
                     asked, answers, crash>>
  BY DEF Create, tbcmh_init, App, Out, appVars, data, server, vars, memory, tasks, application,
         counters
<1>3. MemoryType' /\ QueueType' /\ TasksType' /\ CountersType'
  BY <1>1, <1>2 DEF MemoryType, QueueType, TasksType, CountersType
<1>4. ApplicationType'
  BY <1>1, <1>2 DEF ApplicationType, AppType
<1>5. AppType' /\ DataType' /\ ServerType'
  BY <1>1, <1>2 DEF AppType, DataType, ServerType
<1>6. Lives'
  BY <1>1, <1>2 DEF Lives, Calls, Places, NoneAlive, Alive, MemoryType, TasksType
<1>7. Calls'
  BY <1>1, <1>2 DEF Calls, Lives, Places, Alive, MemoryType, Skips
<1>8. Places'
  BY <1>1, <1>2 DEF Places, NoneAlive, Lives, Calls, Alive, MemoryType, AppType
<1>9. Answers'
  BY <1>1, <1>2 DEF Answers, AnswersQueued, AnswersCopied, IsAnswer
<1>10. Faults'
  BY <1>1, <1>2, NoFaultYet
<1>11. ConnectsAsProvisioned'
  BY <1>1, <1>2 DEF ConnectsAsProvisioned, MemoryType
<1> QED
  BY <1>3, <1>4, <1>5, <1>6, <1>7, <1>8, <1>9, <1>10, <1>11 DEF IInv, TypeOK, TypeOKConnection

\* A client cannot be made.
LEMMA CreateFailsInv ==
  ASSUME IInv, NEW c \in Client, CreateFails(c)
  PROVE  IInv'
<1>1. /\ MemoryType /\ QueueType /\ TasksType /\ ApplicationType /\ CountersType
      /\ AppType /\ DataType /\ ServerType
      /\ Lives /\ Calls /\ Places /\ Answers /\ ConnectsAsProvisioned
  BY DEF IInv, TypeOK, TypeOKConnection
<1>2. /\ Running
      /\ pc = "out" /\ app \in {"begin", "switched"} /\ app' = "leave"
      /\ tbcmh' = "none"
      /\ front' \in BOOLEAN
      /\ UNCHANGED <<life, handle, state, handler, timer, queue, esp, mqtt, ticking, pc,
                     client, destroying, attempts, ticks, skipped, round, schema,
                     provision, _memory_credentials, deviceprovision_list, login,
                     latest, asked, answers, crash>>
  BY DEF CreateFails, App, Out, appVars, data, server, vars, memory, tasks, application,
         counters
<1>3. MemoryType' /\ QueueType' /\ TasksType' /\ CountersType'
  BY <1>1, <1>2 DEF MemoryType, QueueType, TasksType, CountersType
<1>4. ApplicationType'
  BY <1>1, <1>2 DEF ApplicationType, AppType
<1>5. AppType' /\ DataType' /\ ServerType'
  BY <1>1, <1>2 DEF AppType, DataType, ServerType
<1>6. Lives'
  BY <1>1, <1>2 DEF Lives, Calls, Places, NoneAlive, Alive, MemoryType, TasksType
<1>7. Calls'
  BY <1>1, <1>2 DEF Calls, Lives, Places, Alive, MemoryType, Skips
<1>8. Places'
  BY <1>1, <1>2 DEF Places, NoneAlive, Lives, Calls, Alive, MemoryType, AppType
<1>9. Answers'
  BY <1>1, <1>2 DEF Answers, AnswersQueued, AnswersCopied, IsAnswer
<1>10. Faults'
  BY <1>1, <1>2, NoFaultYet
<1>11. ConnectsAsProvisioned'
  BY <1>1, <1>2 DEF ConnectsAsProvisioned, MemoryType
<1> QED
  BY <1>3, <1>4, <1>5, <1>6, <1>7, <1>8, <1>9, <1>10, <1>11 DEF IInv, TypeOK, TypeOKConnection

\* The normal client logs in with the credentials of the last answer, if it can.
LEMMA ConnectInv ==
  ASSUME IInv, Connect
  PROVE  IInv'
<1>1. /\ MemoryType /\ QueueType /\ TasksType /\ ApplicationType /\ CountersType
      /\ AppType /\ DataType /\ ServerType
      /\ Lives /\ Calls /\ Places /\ Answers /\ ConnectsAsProvisioned
  BY DEF IInv, TypeOK, TypeOKConnection
<1>2. /\ Running
      /\ pc = "out" /\ app = "connect" /\ app' = "loop"
      /\ handle' = [handle EXCEPT ![tbcmh] = TRUE]
      /\ handler' = [handler EXCEPT ![tbcmh] = FALSE]
      /\ state' = [state EXCEPT ![tbcmh] = "DISCONNECTED"]
      /\ esp' = [esp EXCEPT ![tbcmh] = "waiting"]
      /\ pc' = "starting"
      /\ client' = tbcmh
      /\ login' = [login EXCEPT ![tbcmh] = Filled(schema, ConfigOf(tbcmh))]
      /\ UNCHANGED <<life, timer, queue, mqtt, ticking, destroying, attempts, ticks, skipped,
                     front, tbcmh, round, schema, provision, _memory_credentials,
                     deviceprovision_list, latest, asked, answers, crash>>
  BY DEF Connect, StartConnect, App, Out, appVars, data, server, vars, memory, tasks, application,
         counters
<1>3. tbcmh \in Client /\ life[tbcmh] = "open"
       /\ Filled(schema, ConfigOf(tbcmh)) \in Credentials \cup {None, Front, Refused}
  BY <1>1, <1>2, FilledType DEF Places
<1>4. MemoryType' /\ QueueType' /\ TasksType' /\ CountersType'
  BY <1>1, <1>2, <1>3 DEF MemoryType, QueueType, TasksType, CountersType
<1>5. ApplicationType'
  BY <1>1, <1>2, <1>3 DEF ApplicationType, AppType
<1>6. AppType' /\ DataType' /\ ServerType'
  BY <1>1, <1>2, <1>3 DEF AppType, DataType, ServerType
<1>7. Lives'
  BY <1>1, <1>2, <1>3 DEF Lives, Calls, Places, NoneAlive, Alive, MemoryType, TasksType
<1>8. Calls'
  BY <1>1, <1>2, <1>3 DEF Calls, Lives, Places, Alive, MemoryType, Skips
<1>9. Places'
  BY <1>1, <1>2, <1>3, ConnectionAssumption DEF Places, NoneAlive, Lives, Calls, Alive,
     MemoryType, AppType
<1>10. Answers'
  BY <1>1, <1>2, <1>3 DEF Answers, AnswersQueued, AnswersCopied, IsAnswer
<1>11. Faults'
  BY <1>1, <1>2, <1>3, NoFaultYet
<1>12. ConnectsAsProvisioned'
  <2>1. CASE tbcmh = "normal"
    <3>1. login'["normal"] = Filled(schema, _memory_credentials)
      BY <1>1, <1>2, <1>3, <2>1 DEF DataType, ConfigOf
    <3>2. _memory_credentials \in {latest, None}
      BY <1>1 DEF Answers
    <3>3. latest # Refused /\ None # Refused
      BY <1>1 DEF DataType, Credentials, None, Refused
    <3>4. \/ login'["normal"] = _memory_credentials
          \/ /\ login'["normal"] = Refused
             /\ \/ schema \notin {"mqtt", "mqtts", "ws", "wss"}
                \/ _memory_credentials.type = "X509_CERTIFICATE" /\ ~UsesTls(schema)
                \/ _memory_credentials.value = "hollow"
      BY <3>1 DEF Filled
    <3>5. None.type # "X509_CERTIFICATE" /\ None.value # "hollow"
      BY DEF None
    <3> QED BY <1>2, <3>2, <3>3, <3>4, <3>5 DEF ConnectsAsProvisioned
  <2>2. CASE tbcmh # "normal"
    BY <1>1, <1>2, <1>3, <2>2 DEF ConnectsAsProvisioned, MemoryType, DataType
  <2> QED BY <2>1, <2>2
<1> QED
  BY <1>4, <1>5, <1>6, <1>7, <1>8, <1>9, <1>10, <1>11, <1>12 DEF IInv, TypeOK, TypeOKConnection

\* A client that cannot connect is destroyed.
LEMMA ConnectFailsInv ==
  ASSUME IInv, ConnectFails
  PROVE  IInv'
<1>1. /\ MemoryType /\ QueueType /\ TasksType /\ ApplicationType /\ CountersType
      /\ AppType /\ DataType /\ ServerType
      /\ Lives /\ Calls /\ Places /\ Answers /\ ConnectsAsProvisioned
  BY DEF IInv, TypeOK, TypeOKConnection
<1>2. /\ Running
      /\ pc = "out" /\ app = "connect" /\ app' = "discard"
      /\ life[tbcmh] = "open"
      /\ pc' = IF Skips(tbcmh) THEN "delete" ELSE "flush"
      /\ client' = tbcmh
      /\ destroying' = TRUE
      /\ skipped' = (skipped \/ (state[tbcmh] = "DISCONNECTED" /\ esp[tbcmh] # "none"))
      /\ UNCHANGED <<life, handle, state, handler, timer, queue, esp, mqtt, ticking,
                     attempts, ticks, front, tbcmh, round, schema, provision,
                     _memory_credentials, deviceprovision_list, login, latest,
                     asked, answers, crash>>
  BY DEF ConnectFails, tbcmh_destroy, App, Out, appVars, data, server, vars, memory, tasks,
     application,
         counters
<1>3. tbcmh \in Client
  BY <1>1, <1>2 DEF Places, AppType
<1>4. MemoryType' /\ QueueType' /\ TasksType' /\ CountersType'
  BY <1>1, <1>2, <1>3 DEF MemoryType, QueueType, TasksType, CountersType
<1>5. ApplicationType'
  BY <1>1, <1>2, <1>3 DEF ApplicationType, AppType
<1>6. AppType' /\ DataType' /\ ServerType'
  BY <1>1, <1>2, <1>3, ProvisioningAssumption DEF AppType, DataType, ServerType, Places
<1>7. Lives'
  BY <1>1, <1>2, <1>3 DEF Lives, Calls, Places, NoneAlive, Alive, MemoryType, TasksType
<1>8. Calls'
  BY <1>1, <1>2, <1>3 DEF Calls, Lives, Places, Alive, MemoryType, Skips
<1>9. Places'
  BY <1>1, <1>2, <1>3 DEF Places, NoneAlive, Lives, Calls, Alive, MemoryType, AppType
<1>10. Answers'
  BY <1>1, <1>2, <1>3 DEF Answers, AnswersQueued, AnswersCopied, IsAnswer
<1>11. Faults'
  BY <1>1, <1>2, <1>3, NoFaultYet
<1>12. ConnectsAsProvisioned'
  BY <1>1, <1>2, <1>3 DEF ConnectsAsProvisioned, MemoryType
<1> QED
  BY <1>4, <1>5, <1>6, <1>7, <1>8, <1>9, <1>10, <1>11, <1>12 DEF IInv, TypeOK, TypeOKConnection

\* What the function that made it returns.
LEMMA DiscardedInv ==
  ASSUME IInv, Discarded
  PROVE  IInv'
<1>1. /\ MemoryType /\ QueueType /\ TasksType /\ ApplicationType /\ CountersType
      /\ AppType /\ DataType /\ ServerType
      /\ Lives /\ Calls /\ Places /\ Answers /\ ConnectsAsProvisioned
  BY DEF IInv, TypeOK, TypeOKConnection
<1>2. /\ Running
      /\ pc = "out" /\ app = "discard" /\ app' = "loop"
      /\ tbcmh' \in {"none", tbcmh} /\ (tbcmh = "front" => tbcmh' = "none")
      /\ UNCHANGED <<life, handle, state, handler, timer, queue, esp, mqtt, ticking, pc,
                     client, destroying, attempts, ticks, skipped, front, round,
                     schema, provision, _memory_credentials, deviceprovision_list,
                     login, latest, asked, answers, crash>>
  BY DEF Discarded, Returned, App, Out, appVars, data, server, vars, memory, tasks, application,
         counters
<1>3. MemoryType' /\ QueueType' /\ TasksType' /\ CountersType'
  BY <1>1, <1>2 DEF MemoryType, QueueType, TasksType, CountersType
<1>4. ApplicationType'
  BY <1>1, <1>2 DEF ApplicationType, AppType
<1>5. AppType' /\ DataType' /\ ServerType'
  BY <1>1, <1>2 DEF AppType, DataType, ServerType
<1>6. Lives'
  BY <1>1, <1>2 DEF Lives, Calls, Places, NoneAlive, Alive, MemoryType, TasksType
<1>7. Calls'
  BY <1>1, <1>2 DEF Calls, Lives, Places, Alive, MemoryType, Skips
<1>8. Places'
  BY <1>1, <1>2 DEF Places, NoneAlive, Lives, Calls, Alive, MemoryType, AppType
<1>9. Answers'
  BY <1>1, <1>2 DEF Answers, AnswersQueued, AnswersCopied, IsAnswer
<1>10. Faults'
  BY <1>1, <1>2, NoFaultYet
<1>11. ConnectsAsProvisioned'
  BY <1>1, <1>2 DEF ConnectsAsProvisioned, MemoryType
<1> QED
  BY <1>3, <1>4, <1>5, <1>6, <1>7, <1>8, <1>9, <1>10, <1>11 DEF IInv, TypeOK, TypeOKConnection

\* The front client is disconnected.
LEMMA SwitchInv ==
  ASSUME IInv, Switch
  PROVE  IInv'
<1>1. /\ MemoryType /\ QueueType /\ TasksType /\ ApplicationType /\ CountersType
      /\ AppType /\ DataType /\ ServerType
      /\ Lives /\ Calls /\ Places /\ Answers /\ ConnectsAsProvisioned
  BY DEF IInv, TypeOK, TypeOKConnection
<1>2. /\ Running
      /\ pc = "out" /\ app = "loop" /\ app' = "switch"
      /\ tbcmh # "none" /\ life[tbcmh] = "open" /\ round < Rounds
      /\ pc' = IF Skips(tbcmh) THEN "out" ELSE "flush"
      /\ client' = tbcmh
      /\ UNCHANGED <<life, handle, state, handler, timer, queue, esp, mqtt, ticking,
                     destroying, attempts, ticks, skipped, front, tbcmh, round,
                     schema, provision, _memory_credentials, deviceprovision_list,
                     login, latest, asked, answers, crash>>
  BY DEF Switch, Handled, Looping, tbcmh_disconnect, App, Out, appVars, data, server, vars,
     memory, tasks, application,
         counters
<1>3. tbcmh \in Client
  BY <1>1, <1>2 DEF AppType
<1>4. MemoryType' /\ QueueType' /\ TasksType' /\ CountersType'
  BY <1>1, <1>2, <1>3 DEF MemoryType, QueueType, TasksType, CountersType
<1>5. ApplicationType'
  BY <1>1, <1>2, <1>3 DEF ApplicationType, AppType
<1>6. AppType' /\ DataType' /\ ServerType'
  BY <1>1, <1>2, <1>3 DEF AppType, DataType, ServerType
<1>7. Lives'
  BY <1>1, <1>2, <1>3 DEF Lives, Calls, Places, NoneAlive, Alive, MemoryType, TasksType
<1>8. Calls'
  BY <1>1, <1>2, <1>3 DEF Calls, Lives, Places, Alive, MemoryType, Skips
<1>9. Places'
  BY <1>1, <1>2, <1>3 DEF Places, NoneAlive, Lives, Calls, Alive, MemoryType, AppType
<1>10. Answers'
  BY <1>1, <1>2, <1>3 DEF Answers, AnswersQueued, AnswersCopied, IsAnswer
<1>11. Faults'
  BY <1>1, <1>2, <1>3, NoFaultYet
<1>12. ConnectsAsProvisioned'
  BY <1>1, <1>2, <1>3 DEF ConnectsAsProvisioned, MemoryType
<1> QED
  BY <1>4, <1>5, <1>6, <1>7, <1>8, <1>9, <1>10, <1>11, <1>12 DEF IInv, TypeOK, TypeOKConnection

\* The front client is destroyed.
LEMMA SwitchDestroysInv ==
  ASSUME IInv, SwitchDestroys
  PROVE  IInv'
<1>1. /\ MemoryType /\ QueueType /\ TasksType /\ ApplicationType /\ CountersType
      /\ AppType /\ DataType /\ ServerType
      /\ Lives /\ Calls /\ Places /\ Answers /\ ConnectsAsProvisioned
  BY DEF IInv, TypeOK, TypeOKConnection
<1>2. /\ Running
      /\ pc = "out" /\ app = "switch" /\ app' = "switched"
      /\ life[tbcmh] = "open"
      /\ pc' = IF Skips(tbcmh) THEN "delete" ELSE "flush"
      /\ client' = tbcmh
      /\ destroying' = TRUE
      /\ skipped' = (skipped \/ (state[tbcmh] = "DISCONNECTED" /\ esp[tbcmh] # "none"))
      /\ round' = round + 1
      /\ UNCHANGED <<life, handle, state, handler, timer, queue, esp, mqtt, ticking,
                     attempts, ticks, front, tbcmh, schema, provision,
                     _memory_credentials, deviceprovision_list, login, latest,
                     asked, answers, crash>>
  BY DEF SwitchDestroys, tbcmh_destroy, App, Out, appVars, data, server, vars, memory, tasks,
     application,
         counters
<1>3. tbcmh \in Client
  BY <1>1, <1>2 DEF Places, AppType
<1>4. MemoryType' /\ QueueType' /\ TasksType' /\ CountersType'
  BY <1>1, <1>2, <1>3 DEF MemoryType, QueueType, TasksType, CountersType
<1>5. ApplicationType'
  BY <1>1, <1>2, <1>3 DEF ApplicationType, AppType
<1>6. AppType' /\ DataType' /\ ServerType'
  BY <1>1, <1>2, <1>3, ProvisioningAssumption DEF AppType, DataType, ServerType, Places
<1>7. Lives'
  BY <1>1, <1>2, <1>3 DEF Lives, Calls, Places, NoneAlive, Alive, MemoryType, TasksType
<1>8. Calls'
  BY <1>1, <1>2, <1>3 DEF Calls, Lives, Places, Alive, MemoryType, Skips
<1>9. Places'
  BY <1>1, <1>2, <1>3 DEF Places, NoneAlive, Lives, Calls, Alive, MemoryType, AppType
<1>10. Answers'
  BY <1>1, <1>2, <1>3 DEF Answers, AnswersQueued, AnswersCopied, IsAnswer
<1>11. Faults'
  BY <1>1, <1>2, <1>3, NoFaultYet
<1>12. ConnectsAsProvisioned'
  BY <1>1, <1>2, <1>3 DEF ConnectsAsProvisioned, MemoryType
<1> QED
  BY <1>4, <1>5, <1>6, <1>7, <1>8, <1>9, <1>10, <1>11, <1>12 DEF IInv, TypeOK, TypeOKConnection

\* A round without anything to do.
LEMMA SleepInv ==
  ASSUME IInv, Sleep
  PROVE  IInv'
<1>1. /\ MemoryType /\ QueueType /\ TasksType /\ ApplicationType /\ CountersType
      /\ AppType /\ DataType /\ ServerType
      /\ Lives /\ Calls /\ Places /\ Answers /\ ConnectsAsProvisioned
  BY DEF IInv, TypeOK, TypeOKConnection
<1>2. /\ Running
      /\ app = "loop" /\ app' = "loop"
      /\ round < Rounds /\ round' = round + 1
      /\ UNCHANGED <<life, handle, state, handler, timer, queue, esp, mqtt, ticking, pc,
                     client, destroying, attempts, ticks, skipped, app, front,
                     tbcmh, schema, provision, _memory_credentials,
                     deviceprovision_list, login, latest, asked, answers, crash>>
  BY DEF Sleep, Handled, Looping, App, Out, appVars, data, server, vars, memory, tasks, application,
         counters
<1>3. MemoryType' /\ QueueType' /\ TasksType' /\ CountersType'
  BY <1>1, <1>2 DEF MemoryType, QueueType, TasksType, CountersType
<1>4. ApplicationType'
  BY <1>1, <1>2 DEF ApplicationType, AppType
<1>5. AppType' /\ DataType' /\ ServerType'
  BY <1>1, <1>2, ProvisioningAssumption DEF AppType, DataType, ServerType
<1>6. Lives'
  BY <1>1, <1>2 DEF Lives, Calls, Places, NoneAlive, Alive, MemoryType, TasksType
<1>7. Calls'
  BY <1>1, <1>2 DEF Calls, Lives, Places, Alive, MemoryType, Skips
<1>8. Places'
  BY <1>1, <1>2 DEF Places, NoneAlive, Lives, Calls, Alive, MemoryType, AppType
<1>9. Answers'
  BY <1>1, <1>2 DEF Answers, AnswersQueued, AnswersCopied, IsAnswer
<1>10. Faults'
  BY <1>1, <1>2, NoFaultYet
<1>11. ConnectsAsProvisioned'
  BY <1>1, <1>2 DEF ConnectsAsProvisioned, MemoryType
<1> QED
  BY <1>3, <1>4, <1>5, <1>6, <1>7, <1>8, <1>9, <1>10, <1>11 DEF IInv, TypeOK, TypeOKConnection

\* The rounds are over: the client, if there is one, is disconnected.
LEMMA LeaveInv ==
  ASSUME IInv, Leave, tbcmh # "none"
  PROVE  IInv'
<1>1. /\ MemoryType /\ QueueType /\ TasksType /\ ApplicationType /\ CountersType
      /\ AppType /\ DataType /\ ServerType
      /\ Lives /\ Calls /\ Places /\ Answers /\ ConnectsAsProvisioned
  BY DEF IInv, TypeOK, TypeOKConnection
<1>2. /\ Running
      /\ pc = "out" /\ app = "loop" /\ app' = "leave"
      /\ tbcmh # "none" /\ life[tbcmh] = "open"
      /\ pc' = IF Skips(tbcmh) THEN "out" ELSE "flush"
      /\ client' = tbcmh
      /\ UNCHANGED <<life, handle, state, handler, timer, queue, esp, mqtt, ticking,
                     destroying, attempts, ticks, skipped, front, tbcmh, round,
                     schema, provision, _memory_credentials, deviceprovision_list,
                     login, latest, asked, answers, crash>>
  BY DEF Leave, tbcmh_disconnect, App, Out, appVars, data, server, vars, memory, tasks, application,
         counters
<1>3. tbcmh \in Client
  BY <1>1, <1>2 DEF AppType
<1>4. MemoryType' /\ QueueType' /\ TasksType' /\ CountersType'
  BY <1>1, <1>2, <1>3 DEF MemoryType, QueueType, TasksType, CountersType
<1>5. ApplicationType'
  BY <1>1, <1>2, <1>3 DEF ApplicationType, AppType
<1>6. AppType' /\ DataType' /\ ServerType'
  BY <1>1, <1>2, <1>3 DEF AppType, DataType, ServerType
<1>7. Lives'
  BY <1>1, <1>2, <1>3 DEF Lives, Calls, Places, NoneAlive, Alive, MemoryType, TasksType
<1>8. Calls'
  BY <1>1, <1>2, <1>3 DEF Calls, Lives, Places, Alive, MemoryType, Skips
<1>9. Places'
  BY <1>1, <1>2, <1>3 DEF Places, NoneAlive, Lives, Calls, Alive, MemoryType, AppType
<1>10. Answers'
  BY <1>1, <1>2, <1>3 DEF Answers, AnswersQueued, AnswersCopied, IsAnswer
<1>11. Faults'
  BY <1>1, <1>2, <1>3, NoFaultYet
<1>12. ConnectsAsProvisioned'
  BY <1>1, <1>2, <1>3 DEF ConnectsAsProvisioned, MemoryType
<1> QED
  BY <1>4, <1>5, <1>6, <1>7, <1>8, <1>9, <1>10, <1>11, <1>12 DEF IInv, TypeOK, TypeOKConnection

\* There is none.
LEMMA LeaveWithoutInv ==
  ASSUME IInv, Leave \/ LeaveDestroys, tbcmh = "none"
  PROVE  IInv'
<1>1. /\ MemoryType /\ QueueType /\ TasksType /\ ApplicationType /\ CountersType
      /\ AppType /\ DataType /\ ServerType
      /\ Lives /\ Calls /\ Places /\ Answers /\ ConnectsAsProvisioned
  BY DEF IInv, TypeOK, TypeOKConnection
<1>2. /\ Running
      /\ pc = "out"
      /\ tbcmh = "none"
      /\ \/ app = "loop" /\ app' = "leave"
         \/ app = "leave" /\ app' = "uninit"
      /\ UNCHANGED <<life, handle, state, handler, timer, queue, esp, mqtt, ticking, pc,
                     client, destroying, attempts, ticks, skipped, front, tbcmh,
                     round, schema, provision, _memory_credentials,
                     deviceprovision_list, login, latest, asked, answers, crash>>
  BY DEF Leave, LeaveDestroys, App, Out, appVars, data, server, vars, memory, tasks, application,
         counters
<1>3. MemoryType' /\ QueueType' /\ TasksType' /\ CountersType'
  BY <1>1, <1>2 DEF MemoryType, QueueType, TasksType, CountersType
<1>4. ApplicationType'
  BY <1>1, <1>2 DEF ApplicationType, AppType
<1>5. AppType' /\ DataType' /\ ServerType'
  BY <1>1, <1>2 DEF AppType, DataType, ServerType
<1>6. Lives'
  BY <1>1, <1>2 DEF Lives, Calls, Places, NoneAlive, Alive, MemoryType, TasksType
<1>7. Calls'
  BY <1>1, <1>2 DEF Calls, Lives, Places, Alive, MemoryType, Skips
<1>8. Places'
  BY <1>1, <1>2 DEF Places, NoneAlive, Lives, Calls, Alive, MemoryType, AppType
<1>9. Answers'
  BY <1>1, <1>2 DEF Answers, AnswersQueued, AnswersCopied, IsAnswer
<1>10. Faults'
  BY <1>1, <1>2, NoFaultYet
<1>11. ConnectsAsProvisioned'
  BY <1>1, <1>2 DEF ConnectsAsProvisioned, MemoryType
<1> QED
  BY <1>3, <1>4, <1>5, <1>6, <1>7, <1>8, <1>9, <1>10, <1>11 DEF IInv, TypeOK, TypeOKConnection

\* The client is destroyed.
LEMMA LeaveDestroysInv ==
  ASSUME IInv, LeaveDestroys, tbcmh # "none"
  PROVE  IInv'
<1>1. /\ MemoryType /\ QueueType /\ TasksType /\ ApplicationType /\ CountersType
      /\ AppType /\ DataType /\ ServerType
      /\ Lives /\ Calls /\ Places /\ Answers /\ ConnectsAsProvisioned
  BY DEF IInv, TypeOK, TypeOKConnection
<1>2. /\ Running
      /\ pc = "out" /\ app = "leave" /\ app' = "uninit"
      /\ tbcmh # "none" /\ life[tbcmh] = "open"
      /\ pc' = IF Skips(tbcmh) THEN "delete" ELSE "flush"
      /\ client' = tbcmh
      /\ destroying' = TRUE
      /\ skipped' = (skipped \/ (state[tbcmh] = "DISCONNECTED" /\ esp[tbcmh] # "none"))
      /\ UNCHANGED <<life, handle, state, handler, timer, queue, esp, mqtt, ticking,
                     attempts, ticks, front, tbcmh, round, schema, provision,
                     _memory_credentials, deviceprovision_list, login, latest,
                     asked, answers, crash>>
  BY DEF LeaveDestroys, tbcmh_destroy, App, Out, appVars, data, server, vars, memory, tasks,
     application,
         counters
<1>3. tbcmh \in Client
  BY <1>1, <1>2 DEF AppType
<1>4. MemoryType' /\ QueueType' /\ TasksType' /\ CountersType'
  BY <1>1, <1>2, <1>3 DEF MemoryType, QueueType, TasksType, CountersType
<1>5. ApplicationType'
  BY <1>1, <1>2, <1>3 DEF ApplicationType, AppType
<1>6. AppType' /\ DataType' /\ ServerType'
  BY <1>1, <1>2, <1>3 DEF AppType, DataType, ServerType
<1>7. Lives'
  BY <1>1, <1>2, <1>3 DEF Lives, Calls, Places, NoneAlive, Alive, MemoryType, TasksType
<1>8. Calls'
  BY <1>1, <1>2, <1>3 DEF Calls, Lives, Places, Alive, MemoryType, Skips
<1>9. Places'
  BY <1>1, <1>2, <1>3 DEF Places, NoneAlive, Lives, Calls, Alive, MemoryType, AppType
<1>10. Answers'
  BY <1>1, <1>2, <1>3 DEF Answers, AnswersQueued, AnswersCopied, IsAnswer
<1>11. Faults'
  BY <1>1, <1>2, <1>3, NoFaultYet
<1>12. ConnectsAsProvisioned'
  BY <1>1, <1>2, <1>3 DEF ConnectsAsProvisioned, MemoryType
<1> QED
  BY <1>4, <1>5, <1>6, <1>7, <1>8, <1>9, <1>10, <1>11, <1>12 DEF IInv, TypeOK, TypeOKConnection

\* The credentials are forgotten.
LEMMA UninitInv ==
  ASSUME IInv, Uninit
  PROVE  IInv'
<1>1. /\ MemoryType /\ QueueType /\ TasksType /\ ApplicationType /\ CountersType
      /\ AppType /\ DataType /\ ServerType
      /\ Lives /\ Calls /\ Places /\ Answers /\ ConnectsAsProvisioned
  BY DEF IInv, TypeOK, TypeOKConnection
<1>2. /\ Running
      /\ pc = "out" /\ app = "uninit" /\ app' = "done"
      /\ tbcmh' = "none" /\ _memory_credentials' = None
      /\ UNCHANGED <<life, handle, state, handler, timer, queue, esp, mqtt, ticking, pc,
                     client, destroying, attempts, ticks, skipped, front, round,
                     schema, provision, deviceprovision_list, login, latest, asked,
                     answers, crash>>
  BY DEF Uninit, App, Out, appVars, data, server, vars, memory, tasks, application,
         counters
<1>3. MemoryType' /\ QueueType' /\ TasksType' /\ CountersType'
  BY <1>1, <1>2 DEF MemoryType, QueueType, TasksType, CountersType
<1>4. ApplicationType'
  BY <1>1, <1>2 DEF ApplicationType, AppType
<1>5. AppType' /\ DataType' /\ ServerType'
  BY <1>1, <1>2 DEF AppType, DataType, ServerType
<1>6. Lives'
  BY <1>1, <1>2 DEF Lives, Calls, Places, NoneAlive, Alive, MemoryType, TasksType
<1>7. Calls'
  BY <1>1, <1>2 DEF Calls, Lives, Places, Alive, MemoryType, Skips
<1>8. Places'
  BY <1>1, <1>2 DEF Places, NoneAlive, Lives, Calls, Alive, MemoryType, AppType
<1>9. Answers'
  BY <1>1, <1>2 DEF Answers, AnswersQueued, AnswersCopied, IsAnswer
<1>10. Faults'
  BY <1>1, <1>2, NoFaultYet
<1>11. ConnectsAsProvisioned'
  BY <1>1, <1>2 DEF ConnectsAsProvisioned, MemoryType
<1> QED
  BY <1>3, <1>4, <1>5, <1>6, <1>7, <1>8, <1>9, <1>10, <1>11 DEF IInv, TypeOK, TypeOKConnection

\* A client that has been freed is used: only the normal one can be in the loop.
LEMMA UsesDiscardedInv ==
  ASSUME IInv, UsesDiscarded
  PROVE  IInv'
<1>1. /\ MemoryType /\ QueueType /\ TasksType /\ ApplicationType /\ CountersType
      /\ AppType /\ DataType /\ ServerType
      /\ Lives /\ Calls /\ Places /\ Answers /\ ConnectsAsProvisioned
  BY DEF IInv, TypeOK, TypeOKConnection
<1>2. /\ Running
      /\ pc = "out" /\ app = "loop" /\ tbcmh # "none" /\ life[tbcmh] = "freed"
      /\ crash' = <<"app", "client">>
      /\ UNCHANGED <<life, handle, state, handler, timer, queue, esp, mqtt, ticking, pc,
                     client, destroying, attempts, ticks, skipped, app, front,
                     tbcmh, round, schema, provision, _memory_credentials,
                     deviceprovision_list, login, latest, asked, answers>>
  BY DEF UsesDiscarded, UsesFreed, App, Out, appVars, data, server, vars, memory, tasks,
     application,
         counters
<1>3. tbcmh = "normal" /\ ~front
  BY <1>1, <1>2, ProvisioningAssumption DEF Places, AppType
<1>4. MemoryType' /\ QueueType' /\ TasksType' /\ CountersType'
  BY <1>1, <1>2, <1>3 DEF MemoryType, QueueType, TasksType, CountersType
<1>5. ApplicationType'
  BY <1>1, <1>2, <1>3 DEF ApplicationType, AppType
<1>6. AppType' /\ DataType' /\ ServerType'
  BY <1>1, <1>2, <1>3 DEF AppType, DataType, ServerType
<1>7. Lives'
  BY <1>1, <1>2, <1>3 DEF Lives, Calls, Places, NoneAlive, Alive, MemoryType, TasksType
<1>8. Calls'
  BY <1>1, <1>2, <1>3 DEF Calls, Lives, Places, Alive, MemoryType, Skips
<1>9. Places'
  BY <1>1, <1>2, <1>3 DEF Places, NoneAlive, Lives, Calls, Alive, MemoryType, AppType
<1>10. Answers'
  BY <1>1, <1>2, <1>3 DEF Answers, AnswersQueued, AnswersCopied, IsAnswer
<1>11. Faults'
  BY <1>2, <1>3 DEF Faults, HandlerIsMissing, NoUseAfterDestroy, UsesFreedOnlyDiscarded
<1>12. ConnectsAsProvisioned'
  BY <1>1, <1>2, <1>3 DEF ConnectsAsProvisioned, MemoryType
<1> QED
  BY <1>4, <1>5, <1>6, <1>7, <1>8, <1>9, <1>10, <1>11, <1>12 DEF IInv, TypeOK, TypeOKConnection

-----------------------------------------------------------------------------
(* The theorems.                                                           *)

LEMMA InitInv == Init => IInv
<1> SUFFICES ASSUME Init PROVE IInv
  OBVIOUS
<1>1. MemoryType /\ TasksType /\ ApplicationType /\ CountersType
  <2>1. MemoryType
    BY DEF Init, InitConnection, MemoryType
  <2>2. TasksType
    BY DEF Init, InitConnection, TasksType
  <2>3. ApplicationType
    <3>1. NoCrash \in {"nobody", "mqtt", "timer", "app"}
                        \X {"nothing", "handler", "queue", "client"}
      BY DEF NoCrash
    <3>2. pc = "out" /\ client = "none" /\ destroying = FALSE /\ crash = NoCrash
      BY Zenon DEF Init, InitConnection
    <3>3. destroying \in BOOLEAN
      BY <3>2
    <3> QED BY <3>1, <3>2, <3>3 DEF ApplicationType
  <2>4. CountersType
    <3>1. attempts = [c \in Client |-> 0] /\ ticks = 0 /\ skipped = FALSE
      BY Zenon DEF Init, InitConnection
    <3>2. 0 \in 0..MaxAttempts /\ 0 \in 0..MaxTicks
      BY ConnectionAssumption
    <3>3. attempts \in [Client -> 0..MaxAttempts] /\ ticks \in 0..MaxTicks
      BY <3>1, <3>2
    <3>4. skipped \in BOOLEAN
      BY <3>1
    <3> QED BY <3>3, <3>4 DEF CountersType
  <2> QED BY <2>1, <2>2, <2>3, <2>4
<1>2. QueueType
  <2>1. << >> \in Seq(Event) /\ Len(<< >>) = 0
    OBVIOUS
  <2> QED BY <2>1, ConnectionAssumption DEF Init, InitConnection, QueueType
<1>3. AppType /\ DataType /\ ServerType
  <2>1. << >> \in Seq(Answer) /\ Len(<< >>) = 0
    OBVIOUS
  <2> QED BY <2>1, ProvisioningAssumption DEF Init, AppType, DataType, ServerType
<1>4. Lives /\ Calls /\ Places
  BY ConnectionAssumption, ProvisioningAssumption
  DEF Init, InitConnection, Lives, Calls, Places, NoneAlive, Alive
<1>5. Answers
  BY DEF Init, InitConnection, Answers, AnswersQueued, AnswersCopied, IsAnswer, Nothing
<1>6. Faults /\ ConnectsAsProvisioned
  BY ProvisioningAssumption
  DEF Init, InitConnection, Faults, HandlerIsMissing, NoUseAfterDestroy, UsesFreedOnlyDiscarded,
      ConnectsAsProvisioned, NoCrash
<1> QED BY <1>1, <1>2, <1>3, <1>4, <1>5, <1>6 DEF IInv, TypeOK, TypeOKConnection

\* The steps of the MQTT tasks and of the timer task.
LEMMA TasksInv ==
  ASSUME IInv, NEW c \in Client, Elsewhere(c) \/ ConnectionLost(c)
  PROVE  IInv'
<1>1. /\ CountersType /\ ServerType /\ TasksType /\ Lives /\ Answers
      /\ Len(answers) \in Nat
  BY DEF IInv, TypeOK, TypeOKConnection, ServerType
<1>2. UNCHANGED <<appVars, data>> /\ answers' = answers /\ asked' \in {0, asked}
  BY DEF Elsewhere, ConnectionLost, server
<1>3. ServerType' /\ Len(answers) <= Len(answers')
  BY <1>1, <1>2 DEF ServerType
<1>4. CASE BeforeConnect(c)
  <2>1. attempts' \in [Client -> 0..MaxAttempts]
    BY <1>1, <1>4, ConnectionAssumption DEF BeforeConnect, CountersType
  <2>2. MqttEvent(c, {"waiting"}, "connecting", Signal("BEFORE_CONNECT"))
    BY <1>4 DEF BeforeConnect
  <2>3. /\ Signal("BEFORE_CONNECT") \in Event
        /\ IsAnswer(c, Signal("BEFORE_CONNECT"), Len(answers'))
    BY SignalType
  <2>4. {"waiting"} \in SUBSET {"waiting", "connecting", "connected"}
    OBVIOUS
  <2> QED BY <1>2, <1>3, <2>1, <2>2, <2>3, <2>4, MqttEventInv
<1>5. CASE MqttConnected(c)
  <2>1. attempts' \in [Client -> 0..MaxAttempts]
    BY <1>1, <1>5 DEF MqttConnected, CountersType
  <2>2. MqttEvent(c, {"connecting"}, "connected", Signal("CONNECTED"))
    BY <1>5 DEF MqttConnected
  <2>3. /\ Signal("CONNECTED") \in Event
        /\ IsAnswer(c, Signal("CONNECTED"), Len(answers'))
    BY SignalType
  <2>4. {"connecting"} \in SUBSET {"waiting", "connecting", "connected"}
    OBVIOUS
  <2> QED BY <1>2, <1>3, <2>1, <2>2, <2>3, <2>4, MqttEventInv
<1>6. CASE MqttDisconnected(c)
  <2>1. attempts' \in [Client -> 0..MaxAttempts]
    BY <1>1, <1>6 DEF MqttDisconnected, CountersType
  <2>2. MqttEvent(c, {"connecting", "connected"}, "waiting", Signal("DISCONNECTED"))
    BY <1>6 DEF MqttDisconnected
  <2>3. /\ Signal("DISCONNECTED") \in Event
        /\ IsAnswer(c, Signal("DISCONNECTED"), Len(answers'))
    BY SignalType
  <2>4. {"connecting", "connected"} \in SUBSET {"waiting", "connecting", "connected"}
    OBVIOUS
  <2> QED BY <1>2, <1>3, <2>1, <2>2, <2>3, <2>4, MqttEventInv
<1>7. CASE Elsewhere(c) /\ MqttSend(c)
  <2>1. mqtt[c] \in Event /\ IsAnswer(c, mqtt[c], Len(answers)) /\ handle[c]
    BY <1>1, <1>7 DEF MqttSend, TasksType, Answers, AnswersCopied, Lives
  <2>2. Send(c, mqtt[c], "mqtt") /\ mqtt' = [mqtt EXCEPT ![c] = Nothing] /\ ticking' = ticking
    BY <1>7 DEF MqttSend
  <2>3. TasksType' /\ AnswersCopied(Len(answers))'
    BY <1>1, <1>2, <2>2 DEF TasksType, Send, Answers, AnswersCopied, IsAnswer, Nothing
  <2>4. \A d \in Client : mqtt'[d] = mqtt[d] \/ mqtt'[d] = Nothing
    BY <1>1, <2>2 DEF TasksType
  <2>5. UNCHANGED <<appVars, data, server>>
    BY <1>7 DEF Elsewhere
  <2> QED BY <2>1, <2>2, <2>3, <2>4, <2>5, SendInv
<1>8. CASE Elsewhere(c) /\ TimerFires(c)
  BY <1>8, TimerFiresInv DEF Elsewhere
<1>9. CASE Elsewhere(c) /\ TimerSend(c)
  <2> DEFINE e == Signal("CHECK_TIMEOUT")
  <2>1. e \in Event /\ IsAnswer(c, e, Len(answers))
    BY SignalType
  <2>2. Send(c, e, "timer") /\ mqtt' = mqtt /\ ticking' = "none"
    BY <1>9 DEF TimerSend
  <2> HIDE DEF e
  <2>3. TasksType' /\ AnswersCopied(Len(answers))'
    BY <1>1, <1>2, <2>2 DEF TasksType, Send, Answers, AnswersCopied, IsAnswer
  <2>4. UNCHANGED <<appVars, data, server>>
    BY <1>9 DEF Elsewhere
  <2> QED BY <2>1, <2>2, <2>3, <2>4, SendInv
<1> QED
  BY <1>4, <1>5, <1>6, <1>7, <1>8, <1>9 DEF Elsewhere, ConnectionLost, TimerTask

\* An answer of the server, with the next number.
LEMMA MqttAnswerInv ==
  ASSUME IInv, NEW a \in Answer, MqttAnswer(a)
  PROVE  IInv'
<1> DEFINE e == [type |-> "DATA", number |-> Len(answers) + 1]
<1>1. /\ CountersType /\ ServerType /\ Len(answers) \in Nat /\ "front" \in Client
  BY ProvisioningAssumption DEF IInv, TypeOK, TypeOKConnection, ServerType
<1>2. /\ MqttEvent("front", {"connected"}, "connected", e) /\ attempts' = attempts
      /\ asked > 0 /\ asked' = asked - 1
      /\ Len(answers) < MaxAnswers /\ answers' = Append(answers, a)
      /\ UNCHANGED <<appVars, data>>
  BY DEF MqttAnswer, MqttData
<1>3. answers' \in Seq(Answer) /\ Len(answers') = Len(answers) + 1
  BY <1>1, <1>2 DEF ServerType
<1>4. ServerType' /\ Len(answers) <= Len(answers') /\ attempts' \in [Client -> 0..MaxAttempts]
  BY <1>1, <1>2, <1>3, ProvisioningAssumption DEF ServerType, CountersType
<1>5. e \in Event /\ IsAnswer("front", e, Len(answers'))
  BY <1>1, <1>3 DEF Event, IsAnswer
<1> HIDE DEF e
<1>6. {"connected"} \in SUBSET {"waiting", "connecting", "connected"}
  OBVIOUS
<1> QED BY <1>1, <1>2, <1>3, <1>4, <1>5, <1>6, MqttEventInv

LEMMA InsideInv ==
  ASSUME IInv, NEW c \in Client, Inside(c)
  PROVE  IInv'
<1>1. /\ UNCHANGED <<appVars, _memory_credentials, login, latest, server>>
      /\ deviceprovision_list' \in {0, deviceprovision_list}
  BY DEF Inside
<1> QED
  BY <1>1, FinishConnectInv, StartStopInv, FinishStopInv, FinishDisconnectInv, DeleteInv, FreeInv
  DEF Inside

LEMMA StepInv == IInv /\ [Next]_allVars => IInv'
<1> SUFFICES ASSUME IInv, [Next]_allVars PROVE IInv'
  OBVIOUS
<1>1. CASE Application
  <2>1. CASE Leave
    BY <2>1, LeaveInv, LeaveWithoutInv
  <2>2. CASE LeaveDestroys
    BY <2>2, LeaveDestroysInv, LeaveWithoutInv
  <2> QED
    BY <1>1, <2>1, <2>2, CreateInv, CreateFailsInv, ConnectInv, ConnectFailsInv,
       DiscardedInv, RunInv,
       SwitchInv, SwitchDestroysInv, SleepInv, UninitInv, UsesDiscardedInv, InsideInv
    DEF Application
<1>2. CASE \E c \in Client : Elsewhere(c) \/ ConnectionLost(c)
  BY <1>2, TasksInv
<1>3. CASE \E a \in Answer : MqttAnswer(a)
  BY <1>3, MqttAnswerInv
<1>4. CASE UNCHANGED allVars
  <2>1. TypeOK'
    BY <1>4 DEF IInv, TypeOK, TypeOKConnection, MemoryType, QueueType, TasksType, ApplicationType,
                CountersType, AppType, DataType, ServerType, allVars, vars, memory, tasks,
                application, counters, appVars, data, server
  <2>2. Lives' /\ Calls' /\ Places' /\ Answers'
    BY <1>4 DEF IInv, Lives, Calls, Places, NoneAlive, Alive, Answers, AnswersQueued, AnswersCopied,
                IsAnswer, Running, allVars, vars, memory, tasks, application, counters, appVars,
                data, server
  <2>3. Faults' /\ ConnectsAsProvisioned'
    BY <1>4 DEF IInv, Faults, HandlerIsMissing, NoUseAfterDestroy, UsesFreedOnlyDiscarded,
                ConnectsAsProvisioned, allVars, vars, memory, tasks, application, counters,
                appVars, data, server
  <2> QED BY <2>1, <2>2, <2>3 DEF IInv
<1> QED BY <1>1, <1>2, <1>3, <1>4 DEF Next, Finished

THEOREM Invariance == Spec => []IInv
BY InitInv, StepInv, PTL DEF Spec

\* The types of all variables, and queues within their capacity, whatever their
\* size and however often the connection is made and lost.
THEOREM TypeCorrect == Spec => []TypeOK
<1>1. IInv => TypeOK
  BY DEF IInv
<1> QED BY <1>1, Invariance, PTL

\* on_event is found missing in two windows of the code only: by the MQTT task
\* while tbcm_connect has not set it, and by the timer after tbcm_disconnect.
THEOREM HandlerIsMissingOnly == Spec => []HandlerIsMissing
<1>1. IInv => HandlerIsMissing
  BY DEF IInv, Faults
<1> QED BY <1>1, Invariance, PTL

\* tbcmh_destroy pulls the queue from under the MQTT task only when it has left
\* the esp-mqtt client running, and no task uses a freed client.
THEOREM DestroyIsSafeOnly == Spec => []NoUseAfterDestroy
<1>1. IInv => NoUseAfterDestroy
  BY DEF IInv, Faults
<1> QED BY <1>1, Invariance, PTL

\* The example uses a freed client only if the normal client could not connect.
THEOREM DiscardedOnly == Spec => []UsesFreedOnlyDiscarded
<1>1. IInv => UsesFreedOnlyDiscarded
  BY DEF IInv, Faults
<1> QED BY <1>1, Invariance, PTL

\* The normal client logs in with the credentials of the last answer of the
\* server that had any, however many came, or with none, or is refused for a
\* reason in its configuration.
THEOREM NormalLogsIn == Spec => []ConnectsAsProvisioned
<1>1. IInv => ConnectsAsProvisioned
  BY DEF IInv
<1> QED BY <1>1, Invariance, PTL

\* Two esp-mqtt clients never run at the same time.
THEOREM OneAtATime == Spec => []OneConnection
<1>1. IInv => OneConnection
  BY DEF IInv, OneConnection, Lives
<1> QED BY <1>1, Invariance, PTL

\* The example leaves no client, no timer and no credentials behind.
THEOREM AllIsFreed == Spec => []NothingIsLeft
<1>1. IInv => NothingIsLeft
  BY DEF IInv, NothingIsLeft, Places, NoneAlive, Lives, Alive, TypeOK, TypeOKConnection,
         MemoryType
<1> QED BY <1>1, Invariance, PTL

=============================================================================
