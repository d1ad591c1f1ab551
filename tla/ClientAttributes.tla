--------------------------- MODULE ClientAttributes ---------------------------
(***************************************************************************)
(* What a device publishes: the client-side attributes of                  *)
(* extension/tbc_extension_clientattributes.c, the time series of          *)
(* extension/tbc_extension_timeseriesdata.c, and claims; and how the       *)
(* attributes get the values back that the server has kept, for instance   *)
(* from before a restart of the device.                                    *)
(*                                                                         *)
(* One task calls all functions and runs tbcmh_run.  Everything is         *)
(* published with qos 1: esp-mqtt keeps it until the server has            *)
(* acknowledged it, and sends it again after a reconnection, in order.     *)
(* TbcmhSession has the requests in detail, with their ids and topics.     *)
(***************************************************************************)
EXTENDS Integers, Sequences, FiniteSets, Functions

CONSTANTS
  Key,            \* keys of attributes
  Axis,           \* keys of time series
  MaxRegistered,  \* bound: registrations of attributes
  MaxPerRequest,  \* max_attributes_per_request
  QueueSize,      \* capacity of _xQueue, 40 in the code
  MaxChanges,     \* bound: changes of attributes by the device
  MaxAccepted,    \* bound: messages published
  MaxConnects     \* bound: connections made

ASSUME ClientAttributesAssumption ==
  /\ MaxPerRequest \in Nat \ {0}
  /\ QueueSize \in Nat \ {0}
  /\ {MaxRegistered, MaxChanges, MaxAccepted, MaxConnects} \subseteq Nat

VARIABLES
  link,      \* of the client: "off", "waiting", "up"; tbcm_is_connected if "up"
  queue,     \* _xQueue
  outbox,    \* messages that esp-mqtt keeps
  clientattribute_list,    \* numbers of the registered attributes
  key,       \* keys of the attributes, in the order of registration
  on_set,    \* whether they have on_set
  timeseriesaxis_list,     \* registered time series
  attributesrequest_list,  \* requests for values
  device,    \* values of the attributes in the device
  server,    \* values of the attributes in the server, Absent for none
  \* Bounds and history.
  connects, changes,
  accepted,  \* number of the last message accepted
  arrived,   \* numbers of the messages that the server has got
  discarded, \* numbers of the messages thrown away by tbcmh_disconnect
  known,     \* keys of which device and server should have the same value
  dirty,     \* keys changed since they were published or set
  raced      \* keys published or changed while a request for them was open

network  == <<link, queue, outbox>>
lists    == <<clientattribute_list, key, on_set>>
values   == <<device, server, changes>>
messages == <<accepted, arrived, discarded>>
exchange == <<known, dirty, raced>>
vars     == <<network, lists, timeseriesaxis_list, attributesrequest_list, connects, values,
              messages, exchange>>

Absent  == 0  \* no value
Default == 1  \* of a device that has started
Kept    == 2  \* by a server, from before
Value   == 0..(2 + MaxChanges)

NoValues == [k \in Key |-> Absent]

Message == [type : {"attributes", "request", "telemetry", "claim"}, number : 1..MaxAccepted,
            values : [Key -> Value], keys : SUBSET Key]
Event   == [type : {"CONNECTED", "DISCONNECTED", "RESPONSE"}, number : 0..MaxAccepted,
            values : [Key -> Value]]

Init ==
  /\ link = "off" /\ queue = << >> /\ outbox = << >>
  /\ clientattribute_list = {} /\ timeseriesaxis_list = {} /\ attributesrequest_list = {}
  /\ key = << >> /\ on_set = << >>
  /\ device = [k \in Key |-> Default] /\ server \in [Key -> {Absent, Kept}]
  /\ connects = 0 /\ changes = 0
  /\ accepted = 0 /\ arrived = {} /\ discarded = {}
  /\ known = {} /\ dirty = Key /\ raced = {}

-----------------------------------------------------------------------------
(* The connection and the server.                                          *)

\* Mutant: the queue is taken to have one place more.
PostOneTooMany(e) == queue' = IF Len(queue) <= QueueSize THEN Append(queue, e) ELSE queue

\* An event is dropped if the queue stays full.
Post(e) == queue' = IF Len(queue) < QueueSize THEN Append(queue, e) ELSE queue

Signal(type) == [type |-> type, number |-> 0, values |-> NoValues]

tbcmh_connect ==
  /\ link = "off" /\ connects < MaxConnects
  /\ link' = "waiting"
  /\ UNCHANGED <<queue, outbox, lists, timeseriesaxis_list, attributesrequest_list, connects,
                 values, messages, exchange>>

Connected ==
  /\ link = "waiting" /\ connects < MaxConnects
  /\ link' = "up"
  /\ connects' = connects + 1
  /\ Post(Signal("CONNECTED"))
  /\ UNCHANGED <<outbox, lists, timeseriesaxis_list, attributesrequest_list, values, messages,
                 exchange>>

\* Mutant: what is published with qos 0 is not sent again.
Qos0 == 0

\* Every message is published with qos 1.
Qos == 1

\* The connection is lost.
Disconnected ==
  /\ link = "up"
  /\ link' = "waiting"
  /\ outbox' = IF Qos > 0 THEN outbox ELSE << >>
  /\ Post(Signal("DISCONNECTED"))
  /\ UNCHANGED <<lists, timeseriesaxis_list, attributesrequest_list, connects, values, messages,
                 exchange>>

\* The server gets the next message.  It acknowledges it, or the connection is
\* lost before that.  An answer, with qos 0, may be lost.
Arrives(acknowledged) ==
  LET m == Head(outbox)
  IN /\ link = "up" /\ outbox # << >>
     /\ arrived' = arrived \cup {m.number}
     /\ server' = IF m.type = "attributes"
                  THEN [k \in Key |-> IF k \in m.keys THEN m.values[k] ELSE server[k]]
                  ELSE server
     /\ \/ /\ acknowledged
           /\ outbox' = Tail(outbox)
           /\ \/ /\ m.type = "request"
                 /\ Post([type |-> "RESPONSE", number |-> m.number,
                          values |-> [k \in Key |-> IF k \in m.keys THEN server[k] ELSE Absent]])
              \/ UNCHANGED queue
           /\ UNCHANGED link
        \/ /\ ~acknowledged
           /\ link' = "waiting"
           /\ Post(Signal("DISCONNECTED"))
           /\ UNCHANGED outbox
     /\ UNCHANGED <<lists, timeseriesaxis_list, attributesrequest_list, connects, device, changes,
                    accepted, discarded, exchange>>

\* tbcmh_disconnect, once it has handled the events: esp-mqtt is destroyed, with
\* the messages it keeps, and the requests are timed out.
tbcmh_disconnect ==
  /\ link # "off" /\ queue = << >>
  /\ link' = "off"
  /\ outbox' = << >>
  /\ discarded' = discarded \cup ({m.number : m \in Range(outbox)} \ arrived)
  /\ attributesrequest_list' = {}
  /\ known' = known \ UNION {m.keys : m \in Range(outbox) \cup attributesrequest_list}
  /\ UNCHANGED <<queue, lists, timeseriesaxis_list, connects, values, accepted, arrived,
                 dirty, raced>>

-----------------------------------------------------------------------------
(* The attributes.                                                         *)

Registered(k) == {n \in clientattribute_list : key[n] = k}
First(S) == CHOOSE n \in S : \A m \in S : n <= m

\* tbce_clientattributes_register, and .._register_with_set if it has on_set.
tbce_clientattributes_register(k, with_set) ==
  /\ Len(key) < MaxRegistered
  /\ clientattribute_list' = clientattribute_list \cup {Len(key) + 1}
  /\ key' = Append(key, k)
  /\ on_set' = Append(on_set, with_set)
  /\ UNCHANGED <<network, timeseriesaxis_list, attributesrequest_list, connects, values,
                 messages, exchange>>

tbce_clientattributes_unregister(k) ==
  /\ Registered(k) # {}
  /\ clientattribute_list' = clientattribute_list \ {First(Registered(k))}
  /\ UNCHANGED <<network, key, on_set, timeseriesaxis_list, attributesrequest_list,
                 connects, values, messages, exchange>>

\* The keys that a request is open for.
Open == UNION {m.keys : m \in attributesrequest_list}

\* The device changes what an attribute stands for.
Change(k) ==
  /\ changes < MaxChanges
  /\ changes' = changes + 1
  /\ device' = [device EXCEPT ![k] = Kept + changes + 1]
  /\ dirty' = dirty \cup {k}
  /\ raced' = raced \cup ({k} \cap Open)
  /\ UNCHANGED <<network, lists, timeseriesaxis_list, attributesrequest_list, connects, server,
                 messages, known>>

\* esp_mqtt_client_publish: a client that is not connected keeps the messages.
Publish(ms) ==
  /\ link # "off"
  /\ accepted + Len(ms) <= MaxAccepted
  /\ accepted' = accepted + Len(ms)
  /\ outbox' = outbox \o ms
  /\ UNCHANGED <<link, queue, arrived, discarded>>

NewMessage(type, n, keys) ==
  [type |-> type, number |-> n, keys |-> keys,
   values |-> [k \in Key |-> IF type = "attributes" /\ k \in keys THEN device[k] ELSE Absent]]

\* The keys of an update that are in the list; the others are left out.
Found(keys) == {k \in keys : Registered(k) # {}}

tbce_clientattributes_update(keys) ==
  LET found == Found(keys)
  IN /\ found # {}
     /\ Publish(<<NewMessage("attributes", accepted + 1, found)>>)
     /\ known' = known \cup found
     /\ dirty' = dirty \ found
     /\ raced' = (raced \ found) \cup (found \cap Open)
     /\ UNCHANGED <<lists, timeseriesaxis_list, attributesrequest_list, connects, values>>

Settable == {n \in clientattribute_list : on_set[n]}

\* The batch, from 1, in which attribute n is asked for.
Batch(n) == ((Cardinality({m \in Settable : m <= n}) - 1) \div MaxPerRequest) + 1
Batches == {Batch(n) : n \in Settable}
KeysOf(batches) == {key[n] : n \in {m \in Settable : Batch(m) \in batches}}

\* Mutant: only the first batch is asked for.
FirstBatch == Batches \cap {1}

\* The batches that are asked for.
AskedBatches == Batches

\* Any of the requests may fail, and fails if the client is not connected.  The
\* caller is not told.
tbce_clientattributes_initialize ==
  \E made \in SUBSET AskedBatches :
    LET batch == [i \in 1..Cardinality(made) |->
                    CHOOSE b \in made : Cardinality({c \in made : c <= b}) = i]
        ms    == [i \in 1..Cardinality(made) |->
                    NewMessage("request", accepted + i, KeysOf({batch[i]}))]
    IN /\ link = "up" /\ made # {}
       /\ Publish(ms)
       /\ attributesrequest_list' = attributesrequest_list \cup Range(ms)
       /\ known' = known \cup IF made = AskedBatches THEN KeysOf(Batches) ELSE KeysOf(made)
       /\ UNCHANGED <<lists, timeseriesaxis_list, connects, values, dirty, raced>>

-----------------------------------------------------------------------------
(* Time series and claims.                                                 *)

tbce_timeseriesdata_register(a) ==
  /\ a \notin timeseriesaxis_list
  /\ timeseriesaxis_list' = timeseriesaxis_list \cup {a}
  /\ UNCHANGED <<network, lists, attributesrequest_list, connects, values, messages, exchange>>

tbce_timeseriesdata_unregister(a) ==
  /\ a \in timeseriesaxis_list
  /\ timeseriesaxis_list' = timeseriesaxis_list \ {a}
  /\ UNCHANGED <<network, lists, attributesrequest_list, connects, values, messages, exchange>>

tbce_timeseriesdata_upload(a) ==
  /\ a \in timeseriesaxis_list
  /\ Publish(<<NewMessage("telemetry", accepted + 1, {})>>)
  /\ UNCHANGED <<lists, timeseriesaxis_list, attributesrequest_list, connects, values, exchange>>

tbcmh_claiming_device_initiate_using_device_side_key ==
  /\ Publish(<<NewMessage("claim", accepted + 1, {})>>)
  /\ UNCHANGED <<lists, timeseriesaxis_list, attributesrequest_list, connects, values, exchange>>

-----------------------------------------------------------------------------
(* Events, handled by tbcmh_run.                                           *)

Receive(type) == queue # << >> /\ Head(queue).type = type /\ queue' = Tail(queue)

OnConnected ==
  /\ Receive("CONNECTED")
  /\ UNCHANGED <<link, outbox, lists, timeseriesaxis_list, attributesrequest_list, connects, values,
                 messages, exchange>>

\* All requests are timed out.
OnDisconnected ==
  /\ Receive("DISCONNECTED")
  /\ attributesrequest_list' = {}
  /\ known' = known \ Open
  /\ UNCHANGED <<link, outbox, lists, timeseriesaxis_list, connects, values, messages, dirty,
                 raced>>

\* A request is timed out; it has no on_timeout.
OnCheckTimeout(m) ==
  /\ m \in attributesrequest_list
  /\ attributesrequest_list' = attributesrequest_list \ {m}
  /\ known' = known \ m.keys
  /\ UNCHANGED <<network, lists, timeseriesaxis_list, connects, values, messages, dirty, raced>>

\* A response to a request that is not in the list any more.
OnStaleResponse ==
  /\ Receive("RESPONSE")
  /\ \A m \in attributesrequest_list : m.number # Head(queue).number
  /\ UNCHANGED <<link, outbox, lists, timeseriesaxis_list, attributesrequest_list, connects, values,
                 messages, exchange>>

\* The attributes that have on_set, and a value in a response.
Hits(v) == {n \in Settable : v[key[n]] # Absent}

\* _tbce_clientattributes_on_initialized: on_set is called in the order of the
\* list.  If an on_set unregisters an attribute, it returns 1 and is the last.
OnResponse ==
  LET v    == Head(queue).values
      set(S) == {key[n] : n \in S}
      hits == Hits(v)
  IN /\ Receive("RESPONSE")
     /\ \E m \in attributesrequest_list :
          /\ m.number = Head(queue).number
          /\ attributesrequest_list' = attributesrequest_list \ {m}
          /\ \E S \in SUBSET hits :
               /\ \/ S = hits /\ UNCHANGED clientattribute_list
                  \/ \E n \in hits, k \in Key :
                       /\ S = {h \in hits : h <= n}
                       /\ Registered(k) # {}
                       /\ clientattribute_list' = clientattribute_list \ {First(Registered(k))}
               /\ device' = [k \in Key |-> IF k \in set(S) THEN v[k] ELSE device[k]]
               /\ dirty' = dirty \ set(S)
               /\ known' = known \ (m.keys \ set(IF clientattribute_list' = clientattribute_list
                                                 THEN Settable ELSE S))
     /\ UNCHANGED <<link, outbox, key, on_set, timeseriesaxis_list, connects, server,
                    changes, messages, raced>>

-----------------------------------------------------------------------------
Network == Connected \/ Disconnected \/ \E acknowledged \in BOOLEAN : Arrives(acknowledged)

Attributes ==
  \/ \E k \in Key : \E with_set \in BOOLEAN : tbce_clientattributes_register(k, with_set)
  \/ \E k \in Key : tbce_clientattributes_unregister(k)
  \/ \E k \in Key : Change(k)
  \/ \E keys \in SUBSET Key : tbce_clientattributes_update(keys)
  \/ tbce_clientattributes_initialize

Others ==
  \/ \E a \in Axis : \/ tbce_timeseriesdata_register(a)
                     \/ tbce_timeseriesdata_unregister(a)
                     \/ tbce_timeseriesdata_upload(a)
  \/ tbcmh_claiming_device_initiate_using_device_side_key

Run ==
  \/ OnConnected \/ OnDisconnected
  \/ \E m \in attributesrequest_list : OnCheckTimeout(m)
  \/ OnStaleResponse \/ OnResponse

Next == tbcmh_connect \/ tbcmh_disconnect \/ Network \/ Attributes \/ Others \/ Run

Spec == Init /\ [][Next]_vars

-----------------------------------------------------------------------------
(* Properties.                                                             *)

NetworkType ==
  /\ link \in {"off", "waiting", "up"}
  /\ queue \in Seq(Event) /\ Len(queue) <= QueueSize
  /\ outbox \in Seq(Message)

ListsType ==
  /\ clientattribute_list \subseteq DOMAIN key
  /\ key \in Seq(Key) /\ on_set \in Seq(BOOLEAN) /\ Len(on_set) = Len(key)
  /\ timeseriesaxis_list \subseteq Axis
  /\ \A m \in attributesrequest_list : m \in Message

ValuesType ==
  /\ device \in [Key -> Value] /\ server \in [Key -> Value]
  /\ connects \in 0..MaxConnects
  /\ changes \in 0..MaxChanges

MessagesType ==
  /\ accepted \in 0..MaxAccepted
  /\ arrived \subseteq 1..MaxAccepted /\ discarded \subseteq 1..MaxAccepted

ExchangeType == known \subseteq Key /\ dirty \subseteq Key /\ raced \subseteq Key

\* Types of the variables; a queue never holds more than its capacity.
TypeOK == NetworkType /\ ListsType /\ ValuesType /\ MessagesType /\ ExchangeType

\* A message for which a function has returned a message id is with the server,
\* or is still kept, or was thrown away by tbcmh_disconnect, whatever happens to
\* the connection meanwhile.
AcceptedArrives ==
  \A n \in 1..accepted : n \in arrived \cup discarded \cup {m.number : m \in Range(outbox)}

\* When nothing is on its way, device and server agree on every attribute that
\* was published, or asked for by requests none of which failed, was lost or
\* was cut short.  The exceptions are a change that was not published, and a
\* value that was published or changed while a request was open: the response
\* then overwrites it with an older one.
SettledAgrees ==
  /\ outbox = << >> /\ attributesrequest_list = {}
  => \A k \in known \ (dirty \cup raced) : server[k] # Absent => device[k] = server[k]
=============================================================================
