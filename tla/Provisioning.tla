----------------------------- MODULE Provisioning -----------------------------
(***************************************************************************)
(* The example examples/provision/px00_device_provisioning on top of       *)
(* TbcmConnection.  Its front client provisions the device and saves the   *)
(* credentials it gets; then it is destroyed, and a normal client connects *)
(* with these credentials.  The configuration goes from one record of      *)
(* strings to the next, in transport/, and into esp-mqtt.                  *)
(*                                                                         *)
(* A client's request for provisioning is in deviceprovision_list, whose   *)
(* handling TbcmhSession has in detail.                                    *)
(***************************************************************************)
EXTENDS TbcmConnection

CONSTANTS
  Schemas,     \* address.schema, among "mqtt", "mqtts", "ws", "wss", "http"
  Provisions,  \* configurations of the request: provisionType and the fields set
  Rounds,      \* rounds of mqtt_app_start, 40 in the code
  MaxAnswers   \* bound: answers of the server

ASSUME ProvisioningAssumption ==
  /\ Client = {"front", "normal"}
  /\ \A p \in Provisions : p.fields \subseteq {"key", "secret", "token", "clientId", "username", "hash"}
  /\ Rounds \in Nat
  /\ MaxAnswers \in Nat

VARIABLES
  app,        \* where mqtt_app_start is
  front,      \* is_front_connection
  tbcmh,      \* its variable client: a client, "none" for NULL
  round,      \* i
  schema,     \* _address.schema
  provision,  \* _provision
  _memory_credentials,
  deviceprovision_list,  \* requests of the front client, as a number
  login,      \* what each esp-mqtt client logs in with
  \* The server and history.
  asked,      \* requests that the server may still answer
  answers,    \* its answers
  latest      \* the credentials of the last answer that was not a failure

appVars == <<app, front, tbcmh, round, schema, provision>>
data    == <<_memory_credentials, deviceprovision_list, login, latest>>
server  == <<asked, answers>>
allVars == <<vars, appVars, data, server>>

\* Credentials: their value was given by the server's answer of that number, or
\* is hollow, without any of the members that MQTT_BASIC needs.
None == [type |-> "NONE", value |-> "none", answer |-> 0]

\* What a client logs in with: the user "provision" at the front, and nothing
\* at all if the configuration was refused.
Front   == [None EXCEPT !.value = "provision"]
Refused == [None EXCEPT !.value = "refused"]

Types == {"ACCESS_TOKEN", "MQTT_BASIC", "X509_CERTIFICATE"}

Credentials == [type : Types, value : {"given", "hollow"}, answer : 1..MaxAnswers]

\* The answers to a request: a failure, which has neither a type nor a value, or
\* credentials of a type, whose value may be missing.
Answer == {a \in [status : {"FAILURE", "SUCCESS"}, type : Types,
                  value : {"given", "hollow", "missing"}] :
             /\ a.status = "FAILURE" => a.type = "ACCESS_TOKEN" /\ a.value = "missing"
             /\ a.value = "hollow" => a.type = "MQTT_BASIC"}

Init ==
  /\ InitConnection
  /\ app = "begin" /\ front = TRUE /\ tbcmh = "none" /\ round = 0
  /\ schema \in Schemas /\ provision \in Provisions
  /\ _memory_credentials = None
  /\ deviceprovision_list = 0
  /\ login = [c \in Client |-> None]
  /\ asked = 0 /\ answers = << >> /\ latest = None

-----------------------------------------------------------------------------
(* The configuration.                                                      *)

UsesTls(s) == s \in {"mqtts", "wss"}

\* _tbc_transport_config_fill_to_mqtt_client_config, whose result NULL is not
\* looked at: esp-mqtt gets what was filled in until then.  A certificate of
\* the server is configured for the schemas that need one.
Filled(s, credentials) ==
  IF \/ s \notin {"mqtt", "mqtts", "ws", "wss"}
     \/ credentials.type = "X509_CERTIFICATE" /\ ~UsesTls(s)
     \/ credentials.value = "hollow"
  THEN Refused
  ELSE credentials

\* What tbcmh_frontconn_create and mqtt_app_start put into the configuration.
ConfigOf(c) == IF c = "front" THEN Front ELSE _memory_credentials

\* Fields that a request of a type needs, one of each set.
Needed(type) ==
  {{"key"}, {"secret"}} \cup
    (CASE type = "SERVER_GENERATES"  -> {}
       [] type = "ACCESS_TOKEN"      -> {{"token"}}
       [] type = "MQTT_BASIC"        -> {{"clientId", "username"}}
       [] type = "X509_CERTIFICATE"  -> {{"hash"}})

\* __params_of_...: the request can be made of the configuration.
HasParams(p) == \A fields \in Needed(p.type) : fields \cap p.fields # {}

\* __parse_provision_response: the answer has credentials.  Of MQTT_BASIC the
\* object must be there, its members need not.
Parsed(a) == a.status = "SUCCESS" /\ a.value # "missing"

\* Mutant: memory_save keeps the record it is given, which is freed at once.
ClonedNot(credentials) == [credentials EXCEPT !.value = "freed"]

\* tbc_transport_credentials_clone
Cloned(credentials) == credentials

-----------------------------------------------------------------------------
(* The server.                                                             *)

\* It answers a request, with credentials of the type that was asked for.
MqttAnswer(a) ==
  /\ asked > 0 /\ Len(answers) < MaxAnswers
  /\ a.status = "SUCCESS" /\ provision.type # "SERVER_GENERATES" => a.type = provision.type
  /\ MqttData("front", Len(answers) + 1)
  /\ asked' = asked - 1
  /\ answers' = Append(answers, a)
  /\ UNCHANGED <<appVars, data>>

\* With the connection, the server forgets what it was asked, unless esp-mqtt
\* still has the request and sends it again (qos 1).
ConnectionLost(c) ==
  /\ MqttDisconnected(c)
  /\ asked' \in {0, asked}
  /\ UNCHANGED <<appVars, data, answers>>

-----------------------------------------------------------------------------
(* Events, handled by tbcmh_run.                                           *)

\* __on_tbcm_connected: tb_frontconn_on_connected asks for provisioning, if
\* the client is still connected; asking may fail.
OnConnected(c) ==
  /\ Receive(c, "CONNECTED")
  /\ \/ /\ c = "front" /\ state[c] = "CONNECTED" /\ HasParams(provision)
        /\ deviceprovision_list' = deviceprovision_list + 1
        /\ asked' = asked + 1
     \/ UNCHANGED <<deviceprovision_list, asked>>
  /\ UNCHANGED <<appVars, _memory_credentials, login, latest, answers>>

\* __on_tbcm_disonnected: requests are timed out.
OnDisconnected(c) ==
  /\ Receive(c, "DISCONNECTED")
  /\ deviceprovision_list' = 0
  /\ UNCHANGED <<appVars, _memory_credentials, login, latest, server>>

\* The credentials of an answer.
CredentialsOf(n) == [type |-> answers[n].type, value |-> answers[n].value, answer |-> n]

\* _tbcmh_provision_on_data: the oldest request is answered.  The credentials
\* replace those in memory, which are gone even if there is no room to clone.
OnData(c) ==
  LET n == Head(queue[c]).number
  IN /\ Receive(c, "DATA")
     /\ deviceprovision_list' = IF deviceprovision_list = 0 THEN 0 ELSE deviceprovision_list - 1
     /\ IF deviceprovision_list > 0 /\ Parsed(answers[n])
        THEN /\ latest' = CredentialsOf(n)
             /\ _memory_credentials' \in {Cloned(CredentialsOf(n)), None}
        ELSE UNCHANGED <<_memory_credentials, latest>>
     /\ UNCHANGED <<appVars, login, server>>

\* __on_tbcm_check_timeout: it is too early, or requests are timed out.
OnCheckTimeout(c) ==
  /\ Receive(c, "CHECK_TIMEOUT")
  /\ deviceprovision_list' \in 0..deviceprovision_list
  /\ UNCHANGED <<appVars, _memory_credentials, login, latest, server>>

OnBeforeConnect(c) ==
  /\ Receive(c, "BEFORE_CONNECT")
  /\ UNCHANGED <<appVars, data, server>>

HandleEvent(c) ==
  \/ OnConnected(c)
  \/ OnDisconnected(c)
  \/ OnData(c)
  \/ OnCheckTimeout(c)
  \/ OnBeforeConnect(c)

-----------------------------------------------------------------------------
(* mqtt_app_start, while no function of the client is running.             *)

App(from, to) ==
  /\ Out
  /\ app = from
  /\ app' = to

\* tbcmh_frontconn_create or tbcmh_normalconn_create; tbcmh_init may fail.
Create(c) ==
  /\ App(IF c = "front" THEN "begin" ELSE "switched", "connect")
  /\ tbcmh_init(c)
  /\ tbcmh' = c
  /\ front' = (c = "front")
  /\ UNCHANGED <<round, schema, provision, data, server>>

CreateFails(c) ==
  /\ App(IF c = "front" THEN "begin" ELSE "switched", "leave")
  /\ tbcmh' = "none"
  /\ front' = (c = "front")
  /\ UNCHANGED <<vars, round, schema, provision, data, server>>

Connect ==
  /\ App("connect", "loop")
  /\ StartConnect(tbcmh)
  /\ login' = [login EXCEPT ![tbcmh] = Filled(schema, ConfigOf(tbcmh))]
  /\ UNCHANGED <<front, tbcmh, round, schema, provision, server, _memory_credentials,
                 deviceprovision_list, latest>>

\* esp_mqtt_client_init or esp_mqtt_client_start fails.
ConnectFails ==
  /\ App("connect", "discard")
  /\ tbcmh_destroy(tbcmh)
  /\ UNCHANGED <<front, tbcmh, round, schema, provision, data, server>>

\* Mutant: tbcmh_frontconn_create returns the destroyed client as well.
ReturnedDestroyed(c) == c

\* After the failure, tbcmh_frontconn_create returns NULL.
\* tbcmh_normalconn_create returns the client it has destroyed.
Returned(c) == IF c = "front" THEN "none" ELSE c

Discarded ==
  /\ App("discard", "loop")
  /\ tbcmh' = Returned(tbcmh)
  /\ UNCHANGED <<vars, front, round, schema, provision, data, server>>

Looping == app = "loop" /\ tbcmh # "none" /\ round < Rounds

\* tbcmh_run, until there is no event.
Run ==
  /\ tbcmh # "none"
  /\ pc = "out" => Looping
  /\ HandleEvent(tbcmh)

\* In a round of the loop, all events have been handled.
Handled == Looping /\ life[tbcmh] = "open" /\ queue[tbcmh] = << >>

\* The credentials have come: the front client is given up.
Switch ==
  /\ App("loop", "switch")
  /\ Handled
  /\ front /\ _memory_credentials # None
  /\ tbcmh_disconnect(tbcmh)
  /\ UNCHANGED <<front, tbcmh, round, schema, provision, data, server>>

SwitchDestroys ==
  /\ App("switch", "switched")
  /\ tbcmh_destroy(tbcmh)
  /\ round' = round + 1
  /\ UNCHANGED <<front, tbcmh, schema, provision, data, server>>

\* Nothing to do in this round but to sleep.
Sleep ==
  /\ App("loop", "loop")
  /\ Handled
  /\ ~(front /\ _memory_credentials # None)
  /\ round' = round + 1
  /\ UNCHANGED <<vars, front, tbcmh, schema, provision, data, server>>

Leave ==
  /\ App("loop", "leave")
  /\ ~Looping
  /\ IF tbcmh = "none" THEN UNCHANGED vars ELSE tbcmh_disconnect(tbcmh)
  /\ UNCHANGED <<front, tbcmh, round, schema, provision, data, server>>

LeaveDestroys ==
  /\ App("leave", "uninit")
  /\ IF tbcmh = "none" THEN UNCHANGED vars ELSE tbcmh_destroy(tbcmh)
  /\ UNCHANGED <<front, tbcmh, round, schema, provision, data, server>>

\* tbc_transport_credentials_memory_uninit
Uninit ==
  /\ App("uninit", "done")
  /\ tbcmh' = "none"
  /\ _memory_credentials' = None
  /\ UNCHANGED <<vars, front, round, schema, provision, deviceprovision_list, login,
                 latest, server>>

\* What tbcmh_normalconn_create has returned is used.
UsesDiscarded ==
  /\ tbcmh # "none" /\ app = "loop"
  /\ UsesFreed(tbcmh)
  /\ UNCHANGED <<appVars, data, server>>

\* A step inside a function.  tbcmh_disconnect ends with every request timed out.
Inside(c) ==
  /\ \/ /\ FinishDisconnect(c)
        /\ deviceprovision_list' = 0
     \/ /\ \/ FinishConnect(c) \/ StartStop(c) \/ FinishStop(c) \/ Delete(c) \/ Free(c)
        /\ UNCHANGED deviceprovision_list
  /\ UNCHANGED <<appVars, _memory_credentials, login, latest, server>>

\* Steps of the other tasks that leave the application alone.
Elsewhere(c) ==
  /\ BeforeConnect(c) \/ MqttConnected(c) \/ MqttSend(c) \/ TimerTask(c)
  /\ UNCHANGED <<appVars, data, server>>

Application ==
  \/ \E c \in Client : Create(c) \/ CreateFails(c)
  \/ Connect \/ ConnectFails \/ Discarded
  \/ Run \/ Switch \/ SwitchDestroys \/ Sleep
  \/ Leave \/ LeaveDestroys \/ Uninit
  \/ UsesDiscarded
  \/ \E c \in Client : Inside(c)

\* The program has ended, or has crashed.
Finished == (app = "done" \/ ~Running) /\ UNCHANGED allVars

Next ==
  \/ Application
  \/ \E c \in Client : Elsewhere(c) \/ ConnectionLost(c)
  \/ \E a \in Answer : MqttAnswer(a)
  \/ Finished

Spec == Init /\ [][Next]_allVars

\* The tasks are scheduled: mqtt_app_start goes on, and so does a task that is
\* copying an event.  Nothing is asked of the network or of the server.
FairSpec ==
  /\ Spec
  /\ WF_allVars(Application)
  /\ \A c \in Client :
       /\ WF_allVars(MqttSend(c) /\ UNCHANGED <<appVars, data, server>>)
       /\ WF_allVars(TimerSend(c) /\ UNCHANGED <<appVars, data, server>>)

-----------------------------------------------------------------------------
(* Properties.                                                             *)

AppType ==
  /\ app \in {"begin", "connect", "loop", "discard", "switch", "switched", "leave", "uninit", "done"}
  /\ front \in BOOLEAN
  /\ tbcmh \in Client \cup {"none"}
  /\ round \in 0..Rounds
  /\ schema \in Schemas
  /\ provision \in Provisions

DataType ==
  /\ _memory_credentials \in Credentials \cup {None}
  /\ deviceprovision_list \in Nat
  /\ login \in [Client -> Credentials \cup {None, Front, Refused}]
  /\ latest \in Credentials \cup {None}

ServerType ==
  /\ asked \in Nat
  /\ answers \in Seq(Answer) /\ Len(answers) <= MaxAnswers

\* Types of the variables; a queue never holds more than its capacity.
TypeOK == TypeOKConnection /\ AppType /\ DataType /\ ServerType

\* The normal client logs in with the credentials of the last answer that
\* has any, though further answers may come while the front client is being
\* disconnected.  It logs in with none if these could not be kept, and is
\* refused only for a reason that is in the configuration.
ConnectsAsProvisioned ==
  handle["normal"] =>
    /\ login["normal"] \in {latest, None, Refused}
    /\ login["normal"] = Refused =>
         \/ schema \notin {"mqtt", "mqtts", "ws", "wss"}
         \/ latest.type = "X509_CERTIFICATE" /\ ~UsesTls(schema)
         \/ latest.value = "hollow"

\* There is one esp-mqtt client at a time: the front client has been stopped
\* before the normal client connects.
OneConnection == \A c, d \in Client : esp[c] # "none" /\ esp[d] # "none" => c = d

\* When mqtt_app_start returns, no esp-mqtt client, timer or credentials are
\* left, and every client that was made has been freed.
NothingIsLeft ==
  app = "done" =>
    /\ \A c \in Client : life[c] \in {"none", "freed"} /\ esp[c] = "none" /\ ~timer[c]
    /\ _memory_credentials = None

\* The application uses a client that has been freed in one case: the normal
\* client could not connect, and was returned nevertheless.
UsesFreedOnlyDiscarded == crash = <<"app", "client">> => tbcmh = "normal" /\ ~front

\* mqtt_app_start comes to its end, or the program has crashed: no function of
\* the client waits forever for the MQTT task, which may be waiting for room in
\* the queue.
ApplicationEnds == <>(app = "done" \/ ~Running)
=============================================================================
