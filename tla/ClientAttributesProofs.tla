------------------------ MODULE ClientAttributesProofs ------------------------
(***************************************************************************)
(* Proofs about ClientAttributes: for every set of keys and all bounds.    *)
(***************************************************************************)
EXTENDS ClientAttributes, FiniteSetTheorems, WellFoundedInduction, TLAPS

\* The inductive invariant.
IInv == TypeOK /\ AcceptedArrives

-----------------------------------------------------------------------------
(* Sequences.                                                              *)

\* What the range of a sequence is.
LEMMA RangeIs ==
  ASSUME NEW S, NEW s \in Seq(S)
  PROVE  /\ Range(s) \subseteq S
         /\ \A x : x \in Range(s) <=> \E i \in 1..Len(s) : s[i] = x
BY DEF Range

\* Functions that are sequences.
LEMMA LenOfFunction ==
  ASSUME NEW n \in Nat, NEW f, f = [i \in 1..n |-> f[i]]
  PROVE  Len(f) = n
OBVIOUS

LEMMA FunctionIsSeq ==
  ASSUME NEW S, NEW n \in Nat, NEW f, f = [i \in 1..n |-> f[i]], \A i \in 1..n : f[i] \in S
  PROVE  f \in Seq(S) /\ Len(f) = n
OBVIOUS

\* The head of a sequence, and the rest.
LEMMA RangeOfTail ==
  ASSUME NEW S, NEW s \in Seq(S), s # << >>
  PROVE  /\ Tail(s) \in Seq(S)
         /\ Head(s) \in S
         /\ Range(s) = {Head(s)} \cup Range(Tail(s))
<1>1. Tail(s) \in Seq(S) /\ Head(s) \in S /\ Len(Tail(s)) = Len(s) - 1 /\ Len(s) \in Nat \ {0}
  OBVIOUS
<1>2. \A i \in 1..Len(Tail(s)) : Tail(s)[i] = s[i + 1]
  BY <1>1
<1>3. ASSUME NEW x \in Range(s) PROVE x = Head(s) \/ x \in Range(Tail(s))
  <2>1. PICK i \in 1..Len(s) : s[i] = x
    BY <1>3 DEF Range
  <2>2. CASE i = 1
    BY <2>1, <2>2
  <2>3. CASE i # 1
    <3>1. i - 1 \in 1..Len(Tail(s)) /\ Tail(s)[i - 1] = x
      BY <1>1, <1>2, <2>1, <2>3
    <3> DEFINE t == Tail(s)
    <3>2. t \in Seq(S) /\ i - 1 \in 1..Len(t) /\ t[i - 1] = x
      BY <1>1, <3>1
    <3> HIDE DEF t
    <3>3. x \in Range(t)
      BY <3>2 DEF Range
    <3> QED BY <3>3 DEF t
  <2> QED BY <2>2, <2>3
<1>4. Head(s) \in Range(s)
  BY <1>1, RangeIs
<1>5. ASSUME NEW x \in Range(Tail(s)) PROVE x \in Range(s)
  <2>1. PICK i \in 1..Len(Tail(s)) : Tail(s)[i] = x
    BY <1>1, <1>5, RangeIs
  <2>2. i + 1 \in 1..Len(s) /\ s[i + 1] = x
    BY <1>1, <1>2, <2>1
  <2> QED BY <2>2, RangeIs
<1> QED BY <1>1, <1>3, <1>4, <1>5

LEMMA RangeOfConcat ==
  ASSUME NEW S, NEW s \in Seq(S), NEW t \in Seq(S)
  PROVE  s \o t \in Seq(S) /\ Range(s \o t) = Range(s) \cup Range(t)
<1>1. s \o t \in Seq(S) /\ Len(s \o t) = Len(s) + Len(t) /\ Len(s) \in Nat /\ Len(t) \in Nat
  OBVIOUS
<1>2. /\ \A i \in 1..Len(s) : (s \o t)[i] = s[i]
      /\ \A i \in 1..Len(t) : (s \o t)[Len(s) + i] = t[i]
  BY <1>1
<1>3. ASSUME NEW x \in Range(s \o t) PROVE x \in Range(s) \/ x \in Range(t)
  <2>1. PICK i \in 1..Len(s \o t) : (s \o t)[i] = x
    BY <1>1, <1>3, RangeIs
  <2>2. CASE i <= Len(s)
    <3>1. i \in 1..Len(s) /\ s[i] = x
      BY <1>1, <1>2, <2>1, <2>2
    <3> QED BY <3>1, RangeIs
  <2>3. CASE i > Len(s)
    <3>1. i - Len(s) \in 1..Len(t) /\ i = Len(s) + (i - Len(s))
      BY <1>1, <2>1, <2>3
    <3>2. t[i - Len(s)] = x
      BY <1>2, <2>1, <3>1
    <3> QED BY <3>1, <3>2, RangeIs
  <2> QED BY <1>1, <2>1, <2>2, <2>3
<1>4. ASSUME NEW x \in Range(s) PROVE x \in Range(s \o t)
  <2>1. PICK i \in 1..Len(s) : s[i] = x
    BY <1>4, RangeIs
  <2>2. i \in 1..Len(s \o t) /\ (s \o t)[i] = x
    BY <1>1, <1>2, <2>1
  <2> QED BY <1>1, <2>2, RangeIs
<1>5. ASSUME NEW x \in Range(t) PROVE x \in Range(s \o t)
  <2>1. PICK i \in 1..Len(t) : t[i] = x
    BY <1>5, RangeIs
  <2>2. Len(s) + i \in 1..Len(s \o t) /\ (s \o t)[Len(s) + i] = x
    BY <1>1, <1>2, <2>1
  <2> QED BY <1>1, <2>2, RangeIs
<1> QED BY <1>1, <1>3, <1>4, <1>5

-----------------------------------------------------------------------------
(* Events and messages.                                                    *)

LEMMA ValuesAre == Absent \in Value /\ Default \in Value /\ Kept \in Value
BY ClientAttributesAssumption DEF Absent, Default, Kept, Value

\* Putting an event into the queue.
LEMMA PostType ==
  ASSUME queue \in Seq(Event), Len(queue) <= QueueSize, NEW e \in Event, Post(e)
  PROVE  queue' \in Seq(Event) /\ Len(queue') <= QueueSize
BY ClientAttributesAssumption DEF Post

\* Taking one out.
LEMMA ReceiveType ==
  ASSUME queue \in Seq(Event), Len(queue) <= QueueSize, NEW type, Receive(type)
  PROVE  queue' \in Seq(Event) /\ Len(queue') <= QueueSize /\ Head(queue) \in Event
<1>1. queue # << >> /\ queue' = Tail(queue)
  BY DEF Receive
<1>2. Tail(queue) \in Seq(Event) /\ Len(Tail(queue)) = Len(queue) - 1 /\ Head(queue) \in Event
      /\ Len(queue) \in Nat
  BY <1>1
<1> QED BY <1>1, <1>2, ClientAttributesAssumption

LEMMA SignalType ==
  ASSUME NEW type \in {"CONNECTED", "DISCONNECTED"}
  PROVE  Signal(type) \in Event
<1>1. NoValues \in [Key -> Value]
  BY ValuesAre DEF NoValues
<1>2. 0 \in 0..MaxAccepted
  BY ClientAttributesAssumption
<1> QED BY <1>1, <1>2 DEF Signal, Event

LEMMA MessageType ==
  ASSUME ValuesType, NEW type \in {"attributes", "request", "telemetry", "claim"},
         NEW n \in 1..MaxAccepted, NEW K \in SUBSET Key
  PROVE  NewMessage(type, n, K) \in Message /\ NewMessage(type, n, K).number = n
<1>1. [k \in Key |-> IF type = "attributes" /\ k \in K THEN device[k] ELSE Absent] \in [Key -> Value]
  BY ValuesAre DEF ValuesType
<1> QED BY <1>1 DEF NewMessage, Message

\* Messages numbered on from the last one are accepted and kept.
LEMMA PublishInv ==
  ASSUME IInv, NEW ms \in Seq(Message), Publish(ms),
         \A i \in 1..Len(ms) : ms[i].number = accepted + i
  PROVE  NetworkType' /\ MessagesType' /\ AcceptedArrives'
<1>1. /\ outbox \in Seq(Message) /\ accepted \in 0..MaxAccepted /\ MaxAccepted \in Nat
      /\ Len(ms) \in Nat
  BY ClientAttributesAssumption DEF IInv, TypeOK, NetworkType, MessagesType
<1>2. /\ accepted + Len(ms) <= MaxAccepted /\ accepted' = accepted + Len(ms)
      /\ outbox' = outbox \o ms /\ UNCHANGED <<link, queue, arrived, discarded>>
  BY DEF Publish
<1>3. outbox' \in Seq(Message) /\ Range(outbox') = Range(outbox) \cup Range(ms)
  BY <1>1, <1>2, RangeOfConcat
<1>4. NetworkType'
  BY <1>2, <1>3 DEF IInv, TypeOK, NetworkType
<1>5. MessagesType'
  BY <1>1, <1>2 DEF IInv, TypeOK, MessagesType
<1>6. ASSUME NEW n \in 1..accepted'
      PROVE  n \in arrived' \cup discarded' \cup {m.number : m \in Range(outbox')}
  <2>1. CASE n \in 1..accepted
    BY <1>2, <1>3, <2>1 DEF IInv, AcceptedArrives
  <2>2. CASE n \notin 1..accepted
    <3>1. n - accepted \in 1..Len(ms) /\ accepted + (n - accepted) = n
      BY <1>1, <1>2, <2>2
    <3>2. ms[n - accepted].number = n /\ ms[n - accepted] \in Range(ms)
      BY <3>1, RangeIs
    <3> QED BY <1>3, <3>2
  <2> QED BY <2>1, <2>2
<1> QED BY <1>4, <1>5, <1>6 DEF AcceptedArrives

LEMMA PublishOneInv ==
  ASSUME IInv, NEW type \in {"attributes", "request", "telemetry", "claim"}, NEW K \in SUBSET Key,
         Publish(<<NewMessage(type, accepted + 1, K)>>)
  PROVE  NetworkType' /\ MessagesType' /\ AcceptedArrives'
<1> DEFINE m == NewMessage(type, accepted + 1, K)
<1>1. Len(<<m>>) = 1 /\ <<m>>[1] = m
  OBVIOUS
<1>2. accepted + 1 \in 1..MaxAccepted
  BY <1>1, ClientAttributesAssumption DEF IInv, TypeOK, MessagesType, Publish
<1>3. m \in Message /\ m.number = accepted + 1
  BY <1>2, MessageType DEF IInv, TypeOK
<1> HIDE DEF m
<1>4. <<m>> \in Seq(Message) /\ \A i \in 1..Len(<<m>>) : <<m>>[i].number = accepted + i
  BY <1>1, <1>3
<1> QED BY <1>4, PublishInv DEF m

-----------------------------------------------------------------------------
(* The attributes.                                                         *)

LEMMA KeysAre ==
  ASSUME ListsType, NEW B
  PROVE  KeysOf(B) \subseteq Key
BY DEF ListsType, KeysOf, Settable

\* The requests of an initialization are a sequence of messages.
LEMMA BatchesFinite ==
  ASSUME ListsType
  PROVE  IsFiniteSet(Batches)
<1>1. IsFiniteSet(1..Len(key))
  BY FS_Interval DEF ListsType
<1>2. Settable \subseteq 1..Len(key)
  BY DEF ListsType, Settable
<1>3. IsFiniteSet(Settable)
  BY <1>1, <1>2, FS_Subset
<1> DEFINE f == [n \in Settable |-> Batch(n)]
<1>4. f \in Surjection(Settable, Batches)
  BY DEF Batches, Surjection
<1> HIDE DEF f
<1> QED BY <1>3, <1>4, FS_Surjection

\* A message for each batch that is asked for.
Requests(made) ==
  LET batch == [i \in 1..Cardinality(made) |->
                  CHOOSE b \in made : Cardinality({c \in made : c <= b}) = i]
  IN [i \in 1..Cardinality(made) |-> NewMessage("request", accepted + i, KeysOf({batch[i]}))]

\* What an initialization publishes and asks for.
Initializes(made) ==
  /\ Publish(Requests(made))
  /\ attributesrequest_list' = attributesrequest_list \cup Range(Requests(made))
  /\ known' = known \cup KeysOf(made)
  /\ UNCHANGED <<lists, timeseriesaxis_list, connects, values, dirty, raced>>

LEMMA InitializeIs ==
  ASSUME IInv, tbce_clientattributes_initialize
  PROVE  \E made \in SUBSET Batches :
           /\ Initializes(made)
           /\ Requests(made) \in Seq(Message) /\ Len(Requests(made)) = Cardinality(made)
           /\ \A i \in 1..Cardinality(made) : /\ Requests(made)[i].number = accepted + i
                                              /\ Requests(made)[i].type = "request"
<1>1. PICK made \in SUBSET Batches : Initializes(made)
  BY DEF tbce_clientattributes_initialize, Requests, Initializes, AskedBatches
<1>2. ListsType /\ ValuesType /\ MessagesType
  BY DEF IInv, TypeOK
<1>3. Cardinality(made) \in Nat
  BY <1>2, BatchesFinite, FS_Subset, FS_CardinalityType
<1> DEFINE N == Cardinality(made)
<1>4. \A i \in 1..N : \E K \in SUBSET Key : Requests(made)[i] = NewMessage("request", accepted + i, K)
  BY <1>2, KeysAre DEF Requests
<1>5. Requests(made) = [i \in 1..N |-> Requests(made)[i]]
  BY DEF Requests
<1> HIDE DEF N
<1>6. N \in Nat /\ accepted + N <= MaxAccepted
  <2>1. Len(Requests(made)) = N
    BY <1>3, <1>5, LenOfFunction DEF N
  <2> QED BY <1>1, <1>3, <2>1 DEF Initializes, Publish, N
<1>7. \A i \in 1..N : accepted + i \in 1..MaxAccepted
  BY <1>2, <1>6, ClientAttributesAssumption DEF MessagesType
<1>8. \A i \in 1..N : /\ Requests(made)[i] \in Message
                      /\ Requests(made)[i].number = accepted + i
                      /\ Requests(made)[i].type = "request"
  <2> SUFFICES ASSUME NEW i \in 1..N
               PROVE  /\ Requests(made)[i] \in Message
                      /\ Requests(made)[i].number = accepted + i
                      /\ Requests(made)[i].type = "request"
    OBVIOUS
  <2>1. PICK K \in SUBSET Key : Requests(made)[i] = NewMessage("request", accepted + i, K)
    BY <1>4
  <2>2. accepted + i \in 1..MaxAccepted
    BY <1>7
  <2>3. NewMessage("request", accepted + i, K).type = "request"
    BY DEF NewMessage
  <2> QED BY <1>2, <2>1, <2>2, <2>3, MessageType
<1>9. Requests(made) \in Seq(Message) /\ Len(Requests(made)) = N
  BY <1>5, <1>6, <1>8, FunctionIsSeq
<1> QED BY <1>1, <1>8, <1>9 DEF N

LEMMA InitializeInv ==
  ASSUME IInv, tbce_clientattributes_initialize
  PROVE  TypeOK' /\ AcceptedArrives'
<1>1. PICK made \in SUBSET Batches :
        /\ Initializes(made)
        /\ Requests(made) \in Seq(Message) /\ Len(Requests(made)) = Cardinality(made)
        /\ \A i \in 1..Cardinality(made) : Requests(made)[i].number = accepted + i
  BY InitializeIs
<1>2. NetworkType' /\ MessagesType' /\ AcceptedArrives'
  BY <1>1, PublishInv DEF Initializes
<1>3. ListsType'
  <2>1. Range(Requests(made)) \subseteq Message
    BY <1>1, RangeIs
  <2> QED BY <1>1, <2>1 DEF Initializes, IInv, TypeOK, ListsType, lists
<1>4. ValuesType'
  BY <1>1 DEF Initializes, IInv, TypeOK, ValuesType, values
<1>5. ExchangeType'
  BY <1>1, KeysAre DEF Initializes, IInv, TypeOK, ListsType, ExchangeType
<1> QED BY <1>2, <1>3, <1>4, <1>5 DEF TypeOK

\* Attributes of the lists are registered and removed.
LEMMA RegisterInv ==
  ASSUME IInv, NEW k \in Key, NEW with_set \in BOOLEAN, tbce_clientattributes_register(k, with_set)
  PROVE  TypeOK' /\ AcceptedArrives'
<1>1. ListsType'
  <2>1. /\ key' \in Seq(Key) /\ on_set' \in Seq(BOOLEAN)
        /\ Len(key') = Len(key) + 1 /\ Len(on_set') = Len(on_set) + 1 /\ Len(key) \in Nat
    BY DEF IInv, TypeOK, ListsType, tbce_clientattributes_register
  <2>2. DOMAIN key = 1..Len(key) /\ DOMAIN key' = 1..(Len(key) + 1)
    BY <2>1 DEF IInv, TypeOK, ListsType
  <2>3. clientattribute_list' \subseteq DOMAIN key'
    BY <2>1, <2>2 DEF IInv, TypeOK, ListsType, tbce_clientattributes_register
  <2> QED BY <2>1, <2>3 DEF IInv, TypeOK, ListsType, tbce_clientattributes_register
<1>2. UNCHANGED <<network, values, messages, exchange, connects>>
  BY DEF tbce_clientattributes_register
<1> QED
  BY <1>1, <1>2 DEF IInv, TypeOK, NetworkType, ValuesType, MessagesType, ExchangeType,
                    AcceptedArrives, network, values, messages, exchange

LEMMA UnregisterInv ==
  ASSUME IInv, NEW k \in Key, tbce_clientattributes_unregister(k)
  PROVE  TypeOK' /\ AcceptedArrives'
<1>1. ListsType'
  BY DEF IInv, TypeOK, ListsType, tbce_clientattributes_unregister
<1>2. UNCHANGED <<network, values, messages, exchange, connects>>
  BY DEF tbce_clientattributes_unregister
<1> QED
  BY <1>1, <1>2 DEF IInv, TypeOK, NetworkType, ValuesType, MessagesType, ExchangeType,
                    AcceptedArrives, network, values, messages, exchange

\* A change has a value of its own.
LEMMA ChangeInv ==
  ASSUME IInv, NEW k \in Key, Change(k)
  PROVE  TypeOK' /\ AcceptedArrives'
<1>1. ValuesType'
  <2>1. Kept + changes + 1 \in Value
    BY ClientAttributesAssumption DEF IInv, TypeOK, ValuesType, Change, Kept, Value
  <2>2. device' \in [Key -> Value]
    BY <2>1 DEF IInv, TypeOK, ValuesType, Change
  <2>3. changes' \in 0..MaxChanges
    BY ClientAttributesAssumption DEF IInv, TypeOK, ValuesType, Change
  <2> QED BY <2>2, <2>3 DEF IInv, TypeOK, ValuesType, Change
<1>2. ExchangeType'
  BY DEF IInv, TypeOK, ExchangeType, Change
<1>3. UNCHANGED <<network, lists, timeseriesaxis_list, attributesrequest_list, messages>>
  BY DEF Change
<1> QED
  BY <1>1, <1>2, <1>3 DEF IInv, TypeOK, NetworkType, ListsType, MessagesType,
                          AcceptedArrives, network, lists, messages

LEMMA UpdateInv ==
  ASSUME IInv, NEW keys \in SUBSET Key, tbce_clientattributes_update(keys)
  PROVE  TypeOK' /\ AcceptedArrives'
<1>1. Found(keys) \in SUBSET Key
  BY DEF Found
<1>2. Publish(<<NewMessage("attributes", accepted + 1, Found(keys))>>)
  BY DEF tbce_clientattributes_update
<1>3. NetworkType' /\ MessagesType' /\ AcceptedArrives'
  BY <1>1, <1>2, PublishOneInv
<1>4. ExchangeType'
  BY <1>1 DEF IInv, TypeOK, ExchangeType, tbce_clientattributes_update
<1>5. UNCHANGED <<lists, timeseriesaxis_list, attributesrequest_list, connects, values>>
  BY DEF tbce_clientattributes_update
<1> QED
  BY <1>3, <1>4, <1>5 DEF IInv, TypeOK, ListsType, ValuesType, lists, values

LEMMA OthersInv ==
  ASSUME IInv, Others
  PROVE  TypeOK' /\ AcceptedArrives'
<1>1. ASSUME NEW a \in Axis,
             tbce_timeseriesdata_register(a) \/ tbce_timeseriesdata_unregister(a)
      PROVE  TypeOK' /\ AcceptedArrives'
  <2>1. ListsType'
    BY <1>1 DEF IInv, TypeOK, ListsType, lists, tbce_timeseriesdata_register,
                tbce_timeseriesdata_unregister
  <2>2. UNCHANGED <<network, values, messages, exchange, connects>>
    BY <1>1 DEF tbce_timeseriesdata_register, tbce_timeseriesdata_unregister
  <2> QED
    BY <2>1, <2>2 DEF IInv, TypeOK, NetworkType, ValuesType, MessagesType, ExchangeType,
                      AcceptedArrives, network, values, messages, exchange
<1>2. ASSUME NEW type \in {"telemetry", "claim"},
             Publish(<<NewMessage(type, accepted + 1, {})>>),
             UNCHANGED <<lists, timeseriesaxis_list, attributesrequest_list, connects, values,
                         exchange>>
      PROVE  TypeOK' /\ AcceptedArrives'
  <2>1. {} \in SUBSET Key
    OBVIOUS
  <2>2. NetworkType' /\ MessagesType' /\ AcceptedArrives'
    BY <1>2, <2>1, PublishOneInv
  <2> QED
    BY <1>2, <2>2 DEF IInv, TypeOK, ListsType, ValuesType, ExchangeType, lists, values, exchange
<1>3. ASSUME NEW a \in Axis, tbce_timeseriesdata_upload(a)
      PROVE  TypeOK' /\ AcceptedArrives'
  BY <1>2, <1>3 DEF tbce_timeseriesdata_upload
<1>4. CASE tbcmh_claiming_device_initiate_using_device_side_key
  BY <1>2, <1>4 DEF tbcmh_claiming_device_initiate_using_device_side_key
<1> QED BY <1>1, <1>3, <1>4 DEF Others

-----------------------------------------------------------------------------
(* The connection.                                                         *)

LEMMA ConnectInv ==
  ASSUME IInv, tbcmh_connect \/ Connected \/ Disconnected
  PROVE  TypeOK' /\ AcceptedArrives'
<1>1. Signal("CONNECTED") \in Event /\ Signal("DISCONNECTED") \in Event
  BY SignalType
<1>2. NetworkType'
  <2>1. CASE tbcmh_connect
    BY <2>1 DEF IInv, TypeOK, NetworkType, tbcmh_connect
  <2>2. CASE Connected
    <3>1. queue' \in Seq(Event) /\ Len(queue') <= QueueSize
      BY <1>1, <2>2, PostType DEF IInv, TypeOK, NetworkType, Connected
    <3> QED BY <2>2, <3>1 DEF IInv, TypeOK, NetworkType, Connected
  <2>3. CASE Disconnected
    <3>1. queue' \in Seq(Event) /\ Len(queue') <= QueueSize
      BY <1>1, <2>3, PostType DEF IInv, TypeOK, NetworkType, Disconnected
    <3> QED BY <2>3, <3>1 DEF IInv, TypeOK, NetworkType, Disconnected, Qos
  <2> QED BY <2>1, <2>2, <2>3
<1>3. ValuesType'
  BY ClientAttributesAssumption
  DEF IInv, TypeOK, ValuesType, values, tbcmh_connect, Connected, Disconnected
<1>4. /\ UNCHANGED <<lists, timeseriesaxis_list, attributesrequest_list, messages, exchange>>
      /\ outbox' = outbox
  BY DEF tbcmh_connect, Connected, Disconnected, Qos
<1> QED
  BY <1>2, <1>3, <1>4 DEF IInv, TypeOK, ListsType, MessagesType, ExchangeType, AcceptedArrives,
                          lists, messages, exchange

\* A message leaves the outbox only when the server has it.
LEMMA ArrivesInv ==
  ASSUME IInv, NEW acknowledged \in BOOLEAN, Arrives(acknowledged)
  PROVE  TypeOK' /\ AcceptedArrives'
<1> DEFINE m == Head(outbox)
           response == [type |-> "RESPONSE", number |-> m.number,
                        values |-> [k \in Key |-> IF k \in m.keys THEN server[k] ELSE Absent]]
<1>1. /\ outbox \in Seq(Message) /\ outbox # << >>
      /\ queue \in Seq(Event) /\ Len(queue) <= QueueSize
  BY DEF IInv, TypeOK, NetworkType, Arrives
<1>2. /\ Tail(outbox) \in Seq(Message) /\ m \in Message
      /\ Range(outbox) = {m} \cup Range(Tail(outbox))
  BY <1>1, RangeOfTail
<1>3. m.number \in 1..MaxAccepted /\ m.keys \subseteq Key /\ m.values \in [Key -> Value]
  BY <1>2 DEF Message
<1>4. response \in Event
  <2>1. [k \in Key |-> IF k \in m.keys THEN server[k] ELSE Absent] \in [Key -> Value]
    BY ValuesAre DEF IInv, TypeOK, ValuesType
  <2>2. m.number \in 0..MaxAccepted
    BY <1>3, ClientAttributesAssumption
  <2> QED BY <2>1, <2>2 DEF Event
<1>5. /\ arrived' = arrived \cup {m.number}
      /\ server' = IF m.type = "attributes"
                   THEN [k \in Key |-> IF k \in m.keys THEN m.values[k] ELSE server[k]]
                   ELSE server
      /\ UNCHANGED <<lists, timeseriesaxis_list, attributesrequest_list, connects, device, changes,
                     accepted, discarded, exchange>>
  BY DEF Arrives
<1>6. \/ outbox' = Tail(outbox) /\ link' = link /\ (Post(response) \/ queue' = queue)
      \/ outbox' = outbox /\ link' = "waiting" /\ Post(Signal("DISCONNECTED"))
  BY DEF Arrives
<1>7. queue' \in Seq(Event) /\ Len(queue') <= QueueSize
  <2>1. Signal("DISCONNECTED") \in Event
    BY SignalType
  <2> HIDE DEF response
  <2> QED BY <1>1, <1>4, <1>6, <2>1, PostType
<1>8. outbox' \in Seq(Message) /\ Range(outbox) \subseteq Range(outbox') \cup {m}
  BY <1>1, <1>2, <1>6
<1> HIDE DEF m
<1>9. NetworkType'
  BY <1>6, <1>7, <1>8 DEF IInv, TypeOK, NetworkType
<1>10. ValuesType'
  BY <1>3, <1>5 DEF IInv, TypeOK, ValuesType
<1>11. MessagesType'
  BY <1>3, <1>5 DEF IInv, TypeOK, MessagesType
<1>12. AcceptedArrives'
  BY <1>5, <1>8 DEF IInv, AcceptedArrives
<1> QED
  BY <1>5, <1>9, <1>10, <1>11, <1>12 DEF IInv, TypeOK, ListsType, ExchangeType, lists, exchange

\* What is kept is thrown away.
LEMMA DisconnectInv ==
  ASSUME IInv, tbcmh_disconnect
  PROVE  TypeOK' /\ AcceptedArrives'
<1>1. outbox \in Seq(Message)
  BY DEF IInv, TypeOK, NetworkType
<1>2. {m.number : m \in Range(outbox)} \subseteq 1..MaxAccepted
  <2>1. Range(outbox) \subseteq Message
    BY <1>1, RangeIs
  <2> QED BY <2>1 DEF Message
<1>3. NetworkType'
  <2>1. << >> \in Seq(Message)
    OBVIOUS
  <2> QED BY <2>1 DEF IInv, TypeOK, NetworkType, tbcmh_disconnect
<1>4. MessagesType'
  BY <1>2 DEF IInv, TypeOK, MessagesType, tbcmh_disconnect
<1>5. ListsType' /\ ValuesType' /\ ExchangeType'
  BY DEF IInv, TypeOK, ListsType, ValuesType, ExchangeType, tbcmh_disconnect, lists, values
<1>6. AcceptedArrives'
  BY DEF IInv, AcceptedArrives, tbcmh_disconnect
<1> QED BY <1>3, <1>4, <1>5, <1>6 DEF TypeOK

-----------------------------------------------------------------------------
(* The events.                                                             *)

LEMMA RunInv ==
  ASSUME IInv, Run
  PROVE  TypeOK' /\ AcceptedArrives'
<1>1. queue \in Seq(Event) /\ Len(queue) <= QueueSize
  BY DEF IInv, TypeOK, NetworkType
<1>2. NetworkType'
  <2>1. CASE \E m \in attributesrequest_list : OnCheckTimeout(m)
    BY <2>1 DEF IInv, TypeOK, NetworkType, OnCheckTimeout, network
  <2>2. CASE OnConnected \/ OnDisconnected \/ OnStaleResponse \/ OnResponse
    <3>1. \E type \in {"CONNECTED", "DISCONNECTED", "RESPONSE"} : Receive(type)
      BY <2>2 DEF OnConnected, OnDisconnected, OnStaleResponse, OnResponse
    <3>2. queue' \in Seq(Event) /\ Len(queue') <= QueueSize
      BY <1>1, <3>1, ReceiveType
    <3>3. UNCHANGED <<link, outbox>>
      BY <2>2 DEF OnConnected, OnDisconnected, OnStaleResponse, OnResponse
    <3> QED BY <3>2, <3>3 DEF IInv, TypeOK, NetworkType
  <2> QED BY <2>1, <2>2 DEF Run
<1>3. outbox' = outbox /\ UNCHANGED messages
  BY DEF Run, OnConnected, OnDisconnected, OnCheckTimeout, OnStaleResponse, OnResponse, network,
         messages
<1>4. MessagesType' /\ AcceptedArrives'
  BY <1>3 DEF IInv, TypeOK, MessagesType, AcceptedArrives, messages
<1>5. CASE ~OnResponse
  <2>1. ListsType' /\ ValuesType' /\ ExchangeType'
    BY <1>5 DEF IInv, TypeOK, ListsType, ValuesType, ExchangeType, Run, OnConnected,
                OnDisconnected, OnCheckTimeout, OnStaleResponse, lists, values, exchange
  <2> QED BY <1>2, <1>4, <2>1 DEF TypeOK
<1>6. CASE OnResponse
  <2> DEFINE v == Head(queue).values
  <2>1. PICK m \in attributesrequest_list, S \in SUBSET Hits(v) :
          /\ attributesrequest_list' = attributesrequest_list \ {m}
          /\ \/ UNCHANGED clientattribute_list
             \/ \E n \in Hits(v), k \in Key :
                  clientattribute_list' = clientattribute_list \ {First(Registered(k))}
          /\ device' = [k \in Key |-> IF k \in {key[n] : n \in S} THEN v[k] ELSE device[k]]
          /\ dirty' = dirty \ {key[n] : n \in S}
          /\ known' = known \ (m.keys \ {key[n] : n \in IF clientattribute_list' = clientattribute_list
                                                       THEN Settable ELSE S})
    BY <1>6, Zenon DEF OnResponse
  <2>2. Receive("RESPONSE")
    BY <1>6 DEF OnResponse
  <2>3. v \in [Key -> Value]
    BY <1>1, <2>2, ReceiveType DEF Event
  <2>4. UNCHANGED <<key, on_set, timeseriesaxis_list, connects, server, changes, raced>>
    BY <1>6 DEF OnResponse
  <2> HIDE DEF v
  <2>5. ListsType'
    BY <2>1, <2>4 DEF IInv, TypeOK, ListsType
  <2>6. ValuesType'
    BY <2>1, <2>3, <2>4 DEF IInv, TypeOK, ValuesType
  <2>7. ExchangeType'
    BY <2>1, <2>4 DEF IInv, TypeOK, ExchangeType
  <2> QED BY <1>2, <1>4, <2>5, <2>6, <2>7 DEF TypeOK
<1> QED BY <1>5, <1>6

-----------------------------------------------------------------------------
(* The theorems.                                                           *)

LEMMA InitInv == Init => IInv
<1> SUFFICES ASSUME Init PROVE TypeOK /\ AcceptedArrives
  BY DEF IInv
<1>1. NetworkType
  <2>1. << >> \in Seq(Event) /\ << >> \in Seq(Message) /\ Len(<< >>) = 0
    OBVIOUS
  <2> QED BY <2>1, ClientAttributesAssumption DEF Init, NetworkType
<1>2. ListsType
  <2>1. << >> \in Seq(Key) /\ << >> \in Seq(BOOLEAN) /\ Len(<< >>) = 0
    OBVIOUS
  <2> QED BY <2>1 DEF Init, ListsType
<1>3. ValuesType
  BY ValuesAre, ClientAttributesAssumption DEF Init, ValuesType
<1>4. MessagesType /\ ExchangeType /\ AcceptedArrives
  BY ClientAttributesAssumption DEF Init, MessagesType, ExchangeType, AcceptedArrives
<1> QED BY <1>1, <1>2, <1>3, <1>4 DEF TypeOK

LEMMA StepInv == IInv /\ [Next]_vars => IInv'
<1> SUFFICES ASSUME IInv, [Next]_vars PROVE TypeOK' /\ AcceptedArrives'
  BY DEF IInv
<1>1. CASE tbcmh_connect
  BY <1>1, ConnectInv
<1>2. CASE tbcmh_disconnect
  BY <1>2, DisconnectInv
<1>3. CASE Network
  BY <1>3, ConnectInv, ArrivesInv DEF Network
<1>4. CASE Attributes
  BY <1>4, RegisterInv, UnregisterInv, ChangeInv, UpdateInv, InitializeInv DEF Attributes
<1>5. CASE Others
  BY <1>5, OthersInv
<1>6. CASE Run
  BY <1>6, RunInv
<1>7. CASE UNCHANGED vars
  BY <1>7 DEF IInv, TypeOK, NetworkType, ListsType, ValuesType, MessagesType, ExchangeType,
              AcceptedArrives, vars, network, lists, values, messages, exchange
<1> QED BY <1>1, <1>2, <1>3, <1>4, <1>5, <1>6, <1>7 DEF Next

\* The types of all variables, and a queue within its capacity, whatever the
\* device, the server and the connection do.
THEOREM TypeCorrect == Spec => []TypeOK
<1>1. IInv => TypeOK
  BY DEF IInv
<1> QED BY <1>1, InitInv, StepInv, PTL DEF Spec

\* A message for which a function returned a message id is with the server, is
\* still kept by esp-mqtt, or was thrown away by tbcmh_disconnect: publishing
\* with qos 1 loses none over any number of lost connections.
THEOREM AcceptedStays == Spec => []AcceptedArrives
<1>1. IInv => AcceptedArrives
  BY DEF IInv
<1> QED BY <1>1, InitInv, StepInv, PTL DEF Spec

-----------------------------------------------------------------------------
(* Device and server.                                                      *)

\* Messages are kept in the order of their numbers, which are drawn one by one.
InOrder ==
  /\ \A i, j \in 1..Len(outbox) : i < j => outbox[i].number < outbox[j].number
  /\ \A x \in Range(outbox) : x.number <= accepted

\* What the server will be told of an attribute.
Updates(k) == {x \in Range(outbox) : x.type = "attributes" /\ k \in x.keys}

\* A request that is still kept is the one in the list.  Unless a key has been
\* published or changed meanwhile, its request comes after all its updates.
Requested ==
  \A m \in attributesrequest_list :
    /\ m.type = "request" /\ m.number <= accepted
    /\ \A x \in Range(outbox) : x.number = m.number => x = m
    /\ \A k \in m.keys \ raced : \A x \in Updates(k) : x.number < m.number

\* A response was sent before all that is still kept; its values are those the
\* server still has.
Fits(e) ==
  /\ e.number <= accepted
  /\ \A x \in Range(outbox) : e.number < x.number
  /\ \A m \in attributesrequest_list : m.number = e.number =>
       /\ \A k \in m.keys \ raced : e.values[k] = server[k]
       /\ \A k \in Key \ m.keys : e.values[k] = Absent

Responded == \A e \in Range(queue) : e.type = "RESPONSE" => Fits(e)

\* The last update of k has the value of the device; without one the server has
\* this value already, or none.
Agrees(k) ==
  /\ Updates(k) = {} => server[k] \in {Absent, device[k]}
  /\ \A x \in Updates(k) :
       (\A y \in Updates(k) : y.number <= x.number) => x.values[k] = device[k]

\* The keys for which device and server have to agree.
Settled == known \ (dirty \cup raced \cup Open)

Agreed == \A k \in Settled : Agrees(k)

SInv == InOrder /\ Requested /\ Responded /\ Agreed

\* Putting an event into the queue, and taking one out.
LEMMA PostRange ==
  ASSUME queue \in Seq(Event), NEW e \in Event, Post(e)
  PROVE  Range(queue') \subseteq Range(queue) \cup {e}
<1>1. CASE queue' = queue
  BY <1>1
<1>2. CASE queue' = Append(queue, e)
  <2> DEFINE t == <<e>>
  <2>1. queue' = queue \o t /\ t \in Seq(Event)
    BY <1>2
  <2>2. Range(t) = {e}
    BY DEF Range
  <2> HIDE DEF t
  <2>3. Range(queue \o t) = Range(queue) \cup Range(t)
    BY <2>1, RangeOfConcat
  <2> QED BY <2>1, <2>2, <2>3
<1> QED BY <1>1, <1>2 DEF Post

LEMMA ReceiveRange ==
  ASSUME queue \in Seq(Event), NEW type, Receive(type)
  PROVE  /\ Range(queue') \subseteq Range(queue)
         /\ Head(queue) \in Range(queue) /\ Head(queue) \in Event /\ Head(queue).type = type
BY RangeOfTail DEF Receive

\* Steps that touch nothing of this but the queue.
LEMMA SameAgreed ==
  ASSUME SInv, \A e \in Range(queue') \ Range(queue) : e.type # "RESPONSE",
         UNCHANGED <<outbox, accepted, server, device, known, dirty, raced, attributesrequest_list>>
  PROVE  SInv'
<1>1. Settled' = Settled /\ \A k : Updates(k)' = Updates(k)
  BY DEF Settled, Open, Updates
<1>2. InOrder' /\ Requested'
  BY <1>1 DEF SInv, InOrder, Requested
<1>3. Responded'
  BY DEF SInv, Responded, Fits
<1>4. Agreed'
  BY <1>1 DEF SInv, Agreed, Agrees
<1> QED BY <1>2, <1>3, <1>4 DEF SInv

\* Requests end without an answer.
LEMMA FewerRequests ==
  ASSUME SInv, UNCHANGED <<outbox, accepted, server, device, dirty, raced>>,
         Range(queue') \subseteq Range(queue), attributesrequest_list' \subseteq attributesrequest_list,
         known' \subseteq known, known' \cap Open \subseteq Open'
  PROVE  SInv'
<1>1. Settled' \subseteq Settled /\ \A k : Updates(k)' = Updates(k)
  BY DEF Settled, Updates
<1>2. InOrder' /\ Requested'
  BY <1>1 DEF SInv, InOrder, Requested
<1>3. Responded'
  BY DEF SInv, Responded, Fits
<1>4. Agreed'
  BY <1>1 DEF SInv, Agreed, Agrees
<1> QED BY <1>2, <1>3, <1>4 DEF SInv

LEMMA TimedOutAgreed ==
  ASSUME IInv, SInv, OnDisconnected \/ \E m \in attributesrequest_list : OnCheckTimeout(m)
  PROVE  SInv'
<1>1. CASE OnDisconnected
  <2>1. Range(queue') \subseteq Range(queue)
    BY <1>1, ReceiveRange DEF OnDisconnected, IInv, TypeOK, NetworkType
  <2> QED BY <1>1, <2>1, FewerRequests DEF OnDisconnected, values, messages
<1>2. ASSUME NEW m \in attributesrequest_list, OnCheckTimeout(m) PROVE SInv'
  <2>1. known' = known \ m.keys /\ attributesrequest_list' = attributesrequest_list \ {m}
    BY <1>2 DEF OnCheckTimeout
  <2>2. known' \cap Open \subseteq Open'
    BY <2>1 DEF Open
  <2> QED BY <1>2, <2>1, <2>2, FewerRequests DEF OnCheckTimeout, network, values, messages
<1> QED BY <1>1, <1>2

\* What is thrown away is not known any more.
LEMMA DisconnectAgreed ==
  ASSUME SInv, tbcmh_disconnect
  PROVE  SInv'
<1>1. /\ outbox' = << >> /\ attributesrequest_list' = {} /\ queue' = << >>
      /\ known' = known \ UNION {m.keys : m \in Range(outbox) \cup attributesrequest_list}
      /\ UNCHANGED <<server, device, dirty, raced>>
  BY DEF tbcmh_disconnect, values
<1>2. Range(outbox') = {} /\ Range(queue') = {} /\ \A i \in 1..Len(outbox') : FALSE
  BY <1>1 DEF Range
<1>3. InOrder' /\ Requested' /\ Responded'
  BY <1>1, <1>2 DEF InOrder, Requested, Responded
<1>4. ASSUME NEW k \in Settled' PROVE Agrees(k)'
  <2>1. k \in Settled /\ Updates(k) = {}
    BY <1>1, <1>4 DEF Settled, Open, Updates
  <2>2. Updates(k)' = {}
    BY <1>2 DEF Updates
  <2> QED BY <1>1, <2>1, <2>2 DEF SInv, Agreed, Agrees
<1> QED BY <1>3, <1>4 DEF SInv, Agreed

\* New messages come after all others.
LEMMA PublishOrder ==
  ASSUME IInv, SInv, NEW ms \in Seq(Message), Publish(ms),
         \A i \in 1..Len(ms) : ms[i].number = accepted + i
  PROVE  /\ InOrder'
         /\ Range(outbox') = Range(outbox) \cup Range(ms)
         /\ accepted \in Nat /\ accepted' \in Nat /\ accepted <= accepted'
         /\ \A x \in Range(outbox) : x \in Message /\ x.number <= accepted
         /\ \A x \in Range(ms) : x \in Message /\ accepted < x.number /\ x.number <= accepted'
<1>1. /\ outbox \in Seq(Message) /\ accepted \in Nat /\ MaxAccepted \in Nat
      /\ Len(ms) \in Nat /\ Len(outbox) \in Nat
  BY ClientAttributesAssumption DEF IInv, TypeOK, NetworkType, MessagesType
<1>2. accepted' = accepted + Len(ms) /\ outbox' = outbox \o ms
  BY DEF Publish
<1>3. Range(outbox') = Range(outbox) \cup Range(ms)
  BY <1>1, <1>2, RangeOfConcat
<1>4. \A x \in Range(outbox) : x \in Message /\ x.number <= accepted
  BY <1>1, RangeIs DEF SInv, InOrder
<1>5. \A x \in Range(ms) : x \in Message /\ accepted < x.number /\ x.number <= accepted'
  <2> SUFFICES ASSUME NEW x \in Range(ms)
               PROVE  x \in Message /\ accepted < x.number /\ x.number <= accepted'
    OBVIOUS
  <2>1. PICK i \in 1..Len(ms) : ms[i] = x
    BY RangeIs
  <2>2. x.number = accepted + i
    BY <2>1
  <2> QED BY <1>1, <1>2, <2>1, <2>2
<1>6. \A x \in Message : x.number \in Nat
  BY DEF Message
<1>7. ASSUME NEW i \in 1..Len(outbox'), NEW j \in 1..Len(outbox'), i < j
      PROVE  outbox'[i].number < outbox'[j].number
  <2>1. Len(outbox') = Len(outbox) + Len(ms)
    BY <1>1, <1>2
  <2>2. \A n \in 1..Len(outbox) : outbox'[n] = outbox[n] /\ outbox[n] \in Range(outbox)
    BY <1>1, <1>2, RangeIs
  <2>3. \A n \in 1..Len(outbox') : n > Len(outbox) =>
          n - Len(outbox) \in 1..Len(ms) /\ outbox'[n] = ms[n - Len(outbox)]
    BY <1>1, <1>2, <2>1
  <2>4. CASE j <= Len(outbox)
    <3>1. i \in 1..Len(outbox) /\ j \in 1..Len(outbox)
      BY <1>1, <1>7, <2>1, <2>4
    <3> QED BY <1>7, <2>2, <3>1 DEF SInv, InOrder
  <2>5. CASE j > Len(outbox) /\ i <= Len(outbox)
    <3>1. i \in 1..Len(outbox)
      BY <1>1, <2>1, <2>5
    <3>2. outbox'[i] \in Message /\ outbox'[i].number <= accepted
      BY <1>4, <2>2, <3>1
    <3>3. j - Len(outbox) \in 1..Len(ms) /\ outbox'[j].number = accepted + (j - Len(outbox))
      BY <2>3, <2>5
    <3> QED BY <1>1, <1>6, <3>2, <3>3
  <2>6. CASE j > Len(outbox) /\ i > Len(outbox)
    <3>1. /\ outbox'[i].number = accepted + (i - Len(outbox))
          /\ outbox'[j].number = accepted + (j - Len(outbox))
      BY <2>3, <2>6
    <3> QED BY <1>1, <1>7, <2>1, <3>1
  <2> QED BY <1>1, <2>1, <2>4, <2>5, <2>6
<1>8. \A x \in Range(outbox') : x.number <= accepted'
  BY <1>1, <1>2, <1>3, <1>4, <1>5, <1>6
<1>9. InOrder'
  BY <1>7, <1>8 DEF InOrder
<1> QED BY <1>1, <1>2, <1>3, <1>4, <1>5, <1>9

\* Responses stay as they are when something is published.
LEMMA PublishResponded ==
  ASSUME IInv, SInv, NEW ms \in Seq(Message), Publish(ms),
         \A i \in 1..Len(ms) : ms[i].number = accepted + i,
         UNCHANGED server, Open \cap raced \subseteq raced',
         attributesrequest_list' \subseteq attributesrequest_list \cup Range(ms)
  PROVE  Responded'
<1>1. queue' = queue /\ Range(queue) \subseteq Event
  <2>1. queue \in Seq(Event)
    BY DEF IInv, TypeOK, NetworkType
  <2> QED BY <2>1, RangeIs DEF Publish
<1> SUFFICES ASSUME NEW e \in Range(queue), e.type = "RESPONSE" PROVE Fits(e)'
  BY <1>1 DEF Responded
<1>2. Fits(e) /\ e.number \in Nat
  BY <1>1 DEF SInv, Responded, Event
<1>3. \A x \in Message : x.number \in Nat
  BY DEF Message
<1>4. \A x \in Range(ms) : e.number < x.number
  BY <1>2, <1>3, PublishOrder DEF Fits
<1>5. e.number <= accepted'
  BY <1>2, PublishOrder DEF Fits
<1>6. \A x \in Range(outbox') : e.number < x.number
  BY <1>2, <1>4, PublishOrder DEF Fits
<1>7. ASSUME NEW m \in attributesrequest_list', m.number = e.number
      PROVE  /\ \A k \in m.keys \ raced' : e.values[k] = server[k]
             /\ \A k \in Key \ m.keys : e.values[k] = Absent
  <2>1. m \in attributesrequest_list
    BY <1>2, <1>4, <1>7
  <2>2. m.keys \ raced' \subseteq m.keys \ raced
    BY <2>1 DEF Open
  <2> QED BY <1>2, <1>7, <2>1, <2>2 DEF Fits
<1> QED BY <1>5, <1>6, <1>7 DEF Fits

\* Messages that update nothing: requests, telemetry and claims.
LEMMA OthersPublished ==
  ASSUME IInv, SInv, NEW ms \in Seq(Message), Publish(ms),
         \A i \in 1..Len(ms) : ms[i].number = accepted + i /\ ms[i].type # "attributes",
         UNCHANGED <<server, device, dirty, raced>>,
         attributesrequest_list \subseteq attributesrequest_list',
         attributesrequest_list' \subseteq
           attributesrequest_list \cup {x \in Range(ms) : x.type = "request"},
         known' \subseteq known \cup Open'
  PROVE  SInv'
<1>1. /\ InOrder'
      /\ Range(outbox') = Range(outbox) \cup Range(ms)
      /\ accepted \in Nat /\ accepted' \in Nat /\ accepted <= accepted'
      /\ \A x \in Range(outbox) : x \in Message /\ x.number <= accepted
      /\ \A x \in Range(ms) : x \in Message /\ accepted < x.number /\ x.number <= accepted'
  BY PublishOrder
<1>2. \A x \in Message : x.number \in Nat
  BY DEF Message
<1>3. \A k : Updates(k)' = Updates(k)
  <2>1. \A x \in Range(ms) : x.type # "attributes"
    BY RangeIs
  <2> QED BY <1>1, <2>1 DEF Updates
<1>4. ASSUME NEW m \in attributesrequest_list'
      PROVE  /\ m.type = "request" /\ m.number <= accepted'
             /\ \A x \in Range(outbox') : x.number = m.number => x = m
             /\ \A k \in m.keys \ raced' : \A x \in Updates(k)' : x.number < m.number
  <2>1. CASE m \in attributesrequest_list
    <3>1. m.number \in Nat /\ m.number <= accepted
      BY <1>2, <2>1 DEF SInv, Requested, IInv, TypeOK, ListsType
    <3>2. \A x \in Range(ms) : x.number # m.number
      BY <1>1, <1>2, <3>1
    <3> QED BY <1>1, <1>3, <2>1, <3>1, <3>2 DEF SInv, Requested
  <2>2. CASE m \in Range(ms) /\ m.type = "request"
    <3>1. m \in Message /\ accepted < m.number /\ m.number <= accepted'
      BY <1>1, <2>2
    <3>2. \A x \in Range(outbox) : x.number < m.number
      BY <1>1, <1>2, <3>1
    <3>3. \A x \in Range(ms) : x.number = m.number => x = m
      <4> SUFFICES ASSUME NEW x \in Range(ms), x.number = m.number PROVE x = m
        OBVIOUS
      <4>1. PICK i \in 1..Len(ms) : ms[i] = x
        BY RangeIs
      <4>2. PICK j \in 1..Len(ms) : ms[j] = m
        BY <2>2, RangeIs
      <4>3. i = j
        BY <1>1, <4>1, <4>2
      <4> QED BY <4>1, <4>2, <4>3
    <3>4. \A x \in Range(outbox') : x.number = m.number => x = m
      BY <1>1, <1>2, <3>1, <3>2, <3>3
    <3>5. \A k : \A x \in Updates(k)' : x.number < m.number
      BY <1>3, <3>2 DEF Updates
    <3> QED BY <2>2, <3>1, <3>4, <3>5
  <2> QED BY <2>1, <2>2
<1>5. Requested'
  BY <1>4 DEF Requested
<1>6. Responded'
  BY PublishResponded
<1>7. Settled' \subseteq Settled
  BY DEF Settled, Open
<1>8. Agreed'
  BY <1>3, <1>7 DEF SInv, Agreed, Agrees
<1> QED BY <1>1, <1>5, <1>6, <1>8 DEF SInv

LEMMA OneOtherPublished ==
  ASSUME IInv, SInv, NEW type \in {"telemetry", "claim"},
         Publish(<<NewMessage(type, accepted + 1, {})>>),
         UNCHANGED <<values, exchange, attributesrequest_list>>
  PROVE  SInv'
<1> DEFINE m == NewMessage(type, accepted + 1, {})
<1>1. Len(<<m>>) = 1 /\ <<m>>[1] = m /\ m.type # "attributes"
  BY DEF NewMessage
<1>2. accepted + 1 \in 1..MaxAccepted
  BY <1>1, ClientAttributesAssumption DEF IInv, TypeOK, MessagesType, Publish
<1>3. m \in Message /\ m.number = accepted + 1
  BY <1>2, MessageType DEF IInv, TypeOK
<1> HIDE DEF m
<1>4. /\ <<m>> \in Seq(Message)
      /\ \A i \in 1..Len(<<m>>) : <<m>>[i].number = accepted + i /\ <<m>>[i].type # "attributes"
  BY <1>1, <1>3
<1>5. Publish(<<m>>)
  BY DEF m
<1> QED BY <1>4, <1>5, OthersPublished DEF values, exchange

\* A key is published with the value of the device.  An open request for it will
\* bring an older one.
LEMMA UpdateAgreed ==
  ASSUME IInv, SInv, NEW keys \in SUBSET Key, tbce_clientattributes_update(keys)
  PROVE  SInv'
<1> DEFINE found == Found(keys)
           m == NewMessage("attributes", accepted + 1, found)
<1>1. /\ Publish(<<m>>)
      /\ known' = known \cup found /\ dirty' = dirty \ found
      /\ raced' = (raced \ found) \cup (found \cap Open)
      /\ UNCHANGED <<server, device, attributesrequest_list>>
  BY DEF tbce_clientattributes_update, values
<1>2. Len(<<m>>) = 1 /\ <<m>>[1] = m /\ m.type = "attributes" /\ m.keys = found
  BY DEF NewMessage
<1>3. found \in SUBSET Key
  BY DEF Found
<1>4. accepted + 1 \in 1..MaxAccepted
  BY <1>1, <1>2, ClientAttributesAssumption DEF IInv, TypeOK, MessagesType, Publish
<1>5. m \in Message /\ m.number = accepted + 1
  BY <1>3, <1>4, MessageType DEF IInv, TypeOK
<1>6. \A k \in found : m.values[k] = device[k]
  BY <1>3 DEF NewMessage
<1> HIDE DEF m, found
<1>7. <<m>> \in Seq(Message) /\ \A i \in 1..Len(<<m>>) : <<m>>[i].number = accepted + i
  BY <1>2, <1>5
<1>8. /\ InOrder'
      /\ Range(outbox') = Range(outbox) \cup Range(<<m>>)
      /\ accepted \in Nat /\ accepted' \in Nat /\ accepted <= accepted'
      /\ \A x \in Range(outbox) : x \in Message /\ x.number <= accepted
      /\ \A x \in Range(<<m>>) : x \in Message /\ accepted < x.number /\ x.number <= accepted'
  BY <1>1, <1>7, PublishOrder
<1>9. Range(<<m>>) = {m}
  BY DEF Range
<1>10. /\ \A k : k \notin found => Updates(k)' = Updates(k)
       /\ \A k \in found : Updates(k)' = Updates(k) \cup {m}
  BY <1>2, <1>8, <1>9 DEF Updates
<1>11. \A x \in Message : x.number \in Nat
  BY DEF Message
<1>12. \A x \in Range(outbox) : x.number < m.number
  BY <1>5, <1>8, <1>11
<1>13. Open' = Open
  BY <1>1 DEF Open
<1>14. Requested'
  <2> SUFFICES ASSUME NEW q \in attributesrequest_list
               PROVE  /\ q.type = "request" /\ q.number <= accepted'
                      /\ \A x \in Range(outbox') : x.number = q.number => x = q
                      /\ \A k \in q.keys \ raced' : \A x \in Updates(k)' : x.number < q.number
    BY <1>1 DEF Requested
  <2>1. q.number \in Nat /\ q.number <= accepted
    BY <1>11 DEF SInv, Requested, IInv, TypeOK, ListsType
  <2>2. q.number # m.number /\ q.number <= accepted'
    BY <1>5, <1>8, <2>1
  <2>3. ASSUME NEW k \in q.keys \ raced' PROVE k \notin found /\ k \in q.keys \ raced
    BY <1>1, <2>3 DEF Open
  <2> QED BY <1>8, <1>9, <1>10, <2>2, <2>3 DEF SInv, Requested
<1>15. Responded'
  <2>1. Open \cap raced \subseteq raced'
    BY <1>1
  <2> QED BY <1>1, <1>7, <2>1, PublishResponded
<1>16. ASSUME NEW k \in Settled' PROVE Agrees(k)'
  <2>1. CASE k \in found
    <3>1. Updates(k)' = Updates(k) \cup {m} /\ \A x \in Updates(k) : x.number < m.number
      BY <1>10, <1>12, <2>1 DEF Updates
    <3>2. \A x \in Updates(k) : x.number \in Nat
      BY <1>8, <1>11 DEF Updates
    <3>3. \A x \in Updates(k) : ~(m.number <= x.number)
      BY <1>5, <1>8, <3>1, <3>2
    <3> QED BY <1>1, <1>6, <2>1, <3>1, <3>3 DEF Agrees
  <2>2. CASE k \notin found
    <3>1. k \in Settled
      BY <1>1, <1>13, <1>16, <2>2 DEF Settled
    <3> QED BY <1>1, <1>10, <2>2, <3>1 DEF SInv, Agreed, Agrees
  <2> QED BY <2>1, <2>2
<1> QED BY <1>8, <1>14, <1>15, <1>16 DEF SInv, Agreed

\* A change makes the key dirty, and races with an open request.
LEMMA ChangeAgreed ==
  ASSUME SInv, NEW k \in Key, Change(k)
  PROVE  SInv'
<1>1. /\ device' = [device EXCEPT ![k] = Kept + changes + 1]
      /\ dirty' = dirty \cup {k} /\ raced \subseteq raced'
      /\ UNCHANGED <<queue, outbox, accepted, server, known, attributesrequest_list>>
  BY DEF Change, network, messages
<1>2. Settled' \subseteq Settled \ {k} /\ \A l : Updates(l)' = Updates(l)
  BY <1>1 DEF Settled, Open, Updates
<1>3. InOrder' /\ Requested'
  BY <1>1, <1>2 DEF SInv, InOrder, Requested
<1>4. Responded'
  BY <1>1 DEF SInv, Responded, Fits
<1>5. Agreed'
  <2> SUFFICES ASSUME NEW l \in Settled' PROVE Agrees(l)'
    BY DEF Agreed
  <2>1. l \in Settled /\ device'[l] = device[l]
    BY <1>1, <1>2
  <2> QED BY <1>1, <1>2, <2>1 DEF SInv, Agreed, Agrees
<1> QED BY <1>3, <1>4, <1>5 DEF SInv

\* The first message has the least number.
LEMMA HeadIsFirst ==
  ASSUME IInv, SInv, outbox # << >>
  PROVE  /\ Head(outbox) \in Message /\ Tail(outbox) \in Seq(Message)
         /\ Range(outbox) = {Head(outbox)} \cup Range(Tail(outbox))
         /\ \A x \in Range(Tail(outbox)) : Head(outbox).number < x.number
         /\ \A i, j \in 1..Len(Tail(outbox)) :
              i < j => Tail(outbox)[i].number < Tail(outbox)[j].number
<1>1. outbox \in Seq(Message)
  BY DEF IInv, TypeOK, NetworkType
<1>2. /\ Tail(outbox) \in Seq(Message) /\ Head(outbox) = outbox[1] /\ 1 \in 1..Len(outbox)
      /\ \A i \in 1..Len(Tail(outbox)) : i + 1 \in 1..Len(outbox) /\ Tail(outbox)[i] = outbox[i + 1]
      /\ Len(Tail(outbox)) \in Nat
  <2>1. /\ Tail(outbox) \in Seq(Message) /\ Head(outbox) = outbox[1]
        /\ Len(outbox) \in Nat \ {0} /\ Len(Tail(outbox)) = Len(outbox) - 1
        /\ \A i \in 1..Len(Tail(outbox)) : Tail(outbox)[i] = outbox[i + 1]
    BY <1>1
  <2>2. /\ \A i \in 1..Len(Tail(outbox)) : i + 1 \in 1..Len(outbox)
        /\ 1 \in 1..Len(outbox) /\ Len(Tail(outbox)) \in Nat
    BY <2>1
  <2> QED BY <2>1, <2>2
<1>3. ASSUME NEW x \in Range(Tail(outbox)) PROVE Head(outbox).number < x.number
  <2>1. PICK i \in 1..Len(Tail(outbox)) : Tail(outbox)[i] = x
    <3> DEFINE t == Tail(outbox)
    <3>1. t \in Seq(Message) /\ x \in Range(t)
      BY <1>2, <1>3
    <3> HIDE DEF t
    <3>2. \E i \in 1..Len(t) : t[i] = x
      BY <3>1 DEF Range
    <3> QED BY <3>2 DEF t
  <2>2. i + 1 \in 1..Len(outbox) /\ 1 < i + 1 /\ x = outbox[i + 1]
    BY <1>2, <2>1
  <2> QED BY <1>2, <2>2 DEF SInv, InOrder
<1>4. ASSUME NEW i \in 1..Len(Tail(outbox)), NEW j \in 1..Len(Tail(outbox)), i < j
      PROVE  Tail(outbox)[i].number < Tail(outbox)[j].number
  <2>1. i + 1 \in 1..Len(outbox) /\ j + 1 \in 1..Len(outbox) /\ i + 1 < j + 1
    BY <1>2, <1>4
  <2> QED BY <1>2, <2>1 DEF SInv, InOrder
<1> QED BY <1>1, <1>3, <1>4, RangeOfTail

\* The server takes the next message; another update than the last changes nothing
\* that the last one would not.
LEMMA ArrivesAgreed ==
  ASSUME IInv, SInv, NEW acknowledged \in BOOLEAN, Arrives(acknowledged)
  PROVE  SInv'
<1> DEFINE m == Head(outbox)
           response == [type |-> "RESPONSE", number |-> m.number,
                        values |-> [k \in Key |-> IF k \in m.keys THEN server[k] ELSE Absent]]
<1>1. /\ outbox # << >>
      /\ server' = IF m.type = "attributes"
                   THEN [k \in Key |-> IF k \in m.keys THEN m.values[k] ELSE server[k]]
                   ELSE server
      /\ UNCHANGED <<attributesrequest_list, device, accepted, known, dirty, raced>>
  BY DEF Arrives, exchange
<1>2. \/ /\ outbox' = Tail(outbox)
         /\ queue' = queue \/ (m.type = "request" /\ Post(response))
      \/ outbox' = outbox /\ Post(Signal("DISCONNECTED"))
  BY DEF Arrives
<1>3. /\ m \in Message /\ Tail(outbox) \in Seq(Message)
      /\ Range(outbox) = {m} \cup Range(Tail(outbox))
      /\ \A x \in Range(Tail(outbox)) : m.number < x.number
      /\ \A i, j \in 1..Len(Tail(outbox)) :
           i < j => Tail(outbox)[i].number < Tail(outbox)[j].number
  BY <1>1, HeadIsFirst
<1>4. m.number \in 1..MaxAccepted /\ m.keys \subseteq Key /\ m.values \in [Key -> Value]
  BY <1>3 DEF Message
<1>5. server \in [Key -> Value] /\ queue \in Seq(Event)
  BY DEF IInv, TypeOK, NetworkType, ValuesType
<1>6. PICK r \in Event :
        /\ r = response /\ r.number = m.number
        /\ \A k \in m.keys : r.values[k] = server[k]
        /\ \A k \in Key \ m.keys : r.values[k] = Absent
  <2>1. [k \in Key |-> IF k \in m.keys THEN server[k] ELSE Absent] \in [Key -> Value]
    BY <1>5, ValuesAre
  <2>2. m.number \in 0..MaxAccepted
    BY <1>4, ClientAttributesAssumption
  <2>3. /\ response \in Event /\ response.number = m.number
        /\ \A k \in m.keys : response.values[k] = server[k]
        /\ \A k \in Key \ m.keys : response.values[k] = Absent
    BY <1>4, <2>1, <2>2 DEF Event
  <2> HIDE DEF response
  <2> QED BY <2>3
<1> HIDE DEF m, response
<1>7. Range(outbox') \subseteq Range(outbox)
  BY <1>2, <1>3
<1>8. InOrder'
  <2>1. \A x \in Range(outbox') : x.number <= accepted'
    BY <1>1, <1>7 DEF SInv, InOrder
  <2>2. \A i, j \in 1..Len(outbox') : i < j => outbox'[i].number < outbox'[j].number
    <3>1. CASE outbox' = outbox
      BY <3>1 DEF SInv, InOrder
    <3>2. CASE outbox' = Tail(outbox)
      BY <1>3, <3>2
    <3> QED BY <1>2, <3>1, <3>2
  <2> QED BY <2>1, <2>2 DEF InOrder
<1>9. \A k : Updates(k)' \subseteq Updates(k)
  BY <1>7 DEF Updates
<1>10. Requested'
  BY <1>1, <1>7, <1>9 DEF SInv, Requested
<1>11. m \in Range(outbox)
  BY <1>3
<1>12. ASSUME NEW k \in Key, m.type # "attributes" \/ k \notin m.keys
       PROVE  server'[k] = server[k] /\ Updates(k)' = Updates(k)
  <2>1. server'[k] = server[k]
    BY <1>1, <1>5, <1>12
  <2>2. m \notin Updates(k)
    BY <1>12 DEF Updates
  <2>3. \A x \in Updates(k) : x \in Range(outbox')
    BY <1>2, <1>3, <2>2 DEF Updates
  <2>4. Updates(k)' = Updates(k)
    BY <1>9, <2>3 DEF Updates
  <2> QED BY <2>1, <2>4
<1>13. ASSUME NEW e \in Range(queue), e.type = "RESPONSE" PROVE Fits(e)'
  <2>1. Fits(e) /\ e.number < m.number
    BY <1>11, <1>13 DEF SInv, Responded, Fits
  <2>2. e.number \in Nat
    <3>1. e \in Event
      BY <1>5, RangeIs
    <3> QED BY <3>1 DEF Event
  <2>3. ASSUME NEW q \in attributesrequest_list, q.number = e.number, NEW k \in q.keys \ raced
        PROVE  server'[k] = server[k]
    <3>1. k \in Key
      BY <2>3 DEF IInv, TypeOK, ListsType, Message
    <3>2. m \notin Updates(k)
      <4>1. m \in Updates(k) => m.number < e.number
        BY <2>3 DEF SInv, Requested
      <4> QED BY <1>4, <2>1, <2>2, <4>1
    <3>3. m.type # "attributes" \/ k \notin m.keys
      BY <1>11, <3>2 DEF Updates
    <3> QED BY <1>12, <3>1, <3>3
  <2> QED BY <1>1, <1>7, <2>1, <2>3 DEF Fits
<1>14. Responded'
  <2>1. CASE queue' = queue
    BY <1>13, <2>1 DEF Responded
  <2>2. CASE outbox' = outbox /\ Post(Signal("DISCONNECTED"))
    <3>1. Range(queue') \subseteq Range(queue) \cup {Signal("DISCONNECTED")}
      BY <1>5, <2>2, PostRange, SignalType
    <3> QED BY <1>13, <3>1 DEF Responded, Signal
  <2>3. CASE outbox' = Tail(outbox) /\ m.type = "request" /\ Post(response)
    <3>1. m.number <= accepted
      BY <1>11 DEF SInv, InOrder
    <3>2. \A q \in attributesrequest_list : q.number = m.number => q = m
      BY <1>11 DEF SInv, Requested
    <3>3. server' = server
      BY <1>1, <2>3
    <3>4. Fits(r)'
      BY <1>1, <1>3, <1>6, <2>3, <3>1, <3>2, <3>3 DEF Fits
    <3>5. Range(queue') \subseteq Range(queue) \cup {r}
      BY <1>5, <1>6, <2>3, PostRange
    <3> QED BY <1>13, <3>4, <3>5 DEF Responded
  <2> QED BY <1>2, <2>1, <2>2, <2>3
<1>15. ASSUME NEW k \in Settled' PROVE Agrees(k)'
  <2>1. k \in Settled /\ k \in Key /\ Agrees(k)
    BY <1>1, <1>15 DEF Settled, Open, SInv, Agreed, IInv, TypeOK, ExchangeType
  <2>2. CASE m.type # "attributes" \/ k \notin m.keys
    BY <1>1, <1>12, <2>1, <2>2 DEF Agrees
  <2>3. CASE m.type = "attributes" /\ k \in m.keys
    <3>1. m \in Updates(k) /\ server'[k] = m.values[k]
      BY <1>1, <1>11, <2>1, <2>3 DEF Updates
    <3>2. CASE outbox' = outbox
      <4>1. Updates(k)' = Updates(k)
        BY <3>2 DEF Updates
      <4> QED BY <1>1, <2>1, <3>1, <4>1 DEF Agrees
    <3>3. CASE outbox' = Tail(outbox)
      <4>1. Updates(k) \subseteq Updates(k)' \cup {m} /\ Updates(k)' \subseteq Updates(k)
        BY <1>3, <1>9, <3>3 DEF Updates
      <4>2. \A x \in Updates(k)' : m.number <= x.number
        <5> SUFFICES ASSUME NEW x \in Updates(k)' PROVE m.number <= x.number
          OBVIOUS
        <5>1. x \in Range(Tail(outbox)) /\ x \in Message
          BY <1>3, <3>3, RangeIs DEF Updates
        <5>2. m.number < x.number /\ x.number \in Nat
          BY <1>3, <5>1 DEF Message
        <5> QED BY <1>4, <5>2
      <4>3. ASSUME Updates(k)' = {} PROVE server'[k] = device'[k]
        <5>1. \A y \in Updates(k) : y.number <= m.number
          BY <1>4, <4>1, <4>3
        <5> QED BY <1>1, <2>1, <3>1, <5>1 DEF Agrees
      <4>4. ASSUME NEW x \in Updates(k)', \A y \in Updates(k)' : y.number <= x.number
            PROVE  x.values[k] = device'[k]
        <5>1. \A y \in Updates(k) : y.number <= x.number
          BY <4>1, <4>2, <4>4
        <5> QED BY <1>1, <2>1, <4>1, <4>4, <5>1 DEF Agrees
      <4> QED BY <4>3, <4>4 DEF Agrees
    <3> QED BY <1>2, <3>2, <3>3
  <2> QED BY <2>2, <2>3
<1> QED BY <1>8, <1>10, <1>14, <1>15 DEF SInv, Agreed

\* Each of a finite set of numbers has a rank of its own.
LEMMA RankIs ==
  ASSUME NEW S \in SUBSET Int, IsFiniteSet(S), NEW b \in S
  PROVE  /\ Cardinality({c \in S : c <= b}) \in 1..Cardinality(S)
         /\ \A a \in S : Cardinality({c \in S : c <= a}) = Cardinality({c \in S : c <= b}) => a = b
<1> DEFINE UpTo(a) == {c \in S : c <= a}
<1>1. \A a \in S : /\ UpTo(a) \subseteq S /\ IsFiniteSet(UpTo(a)) /\ a \in UpTo(a)
                   /\ Cardinality(UpTo(a)) \in Nat /\ Cardinality(UpTo(a)) <= Cardinality(S)
                   /\ Cardinality(UpTo(a)) # 0
  BY FS_Subset, FS_CardinalityType, FS_EmptySet
<1>2. Cardinality(S) \in Nat
  BY FS_CardinalityType
<1>3. ASSUME NEW a \in S, NEW d \in S, a < d
      PROVE  Cardinality(UpTo(a)) # Cardinality(UpTo(d))
  <2>0. a \in Int /\ d \in Int /\ ~(d <= a)
    BY <1>3
  <2>1. \A c \in S : c <= a => c <= d
    BY <1>3, <2>0
  <2>2. UpTo(a) \subseteq UpTo(d)
    BY <2>1
  <2>3. d \in UpTo(d)
    BY <1>1
  <2>4. d \notin UpTo(a)
    BY <2>0
  <2> HIDE DEF UpTo
  <2> QED BY <1>1, <2>2, <2>3, <2>4, FS_Subset
<1>4. \A a \in S : Cardinality(UpTo(a)) = Cardinality(UpTo(b)) => a = b
  BY <1>3
<1>5. Cardinality(UpTo(b)) \in 1..Cardinality(S)
  <2> HIDE DEF UpTo
  <2> QED BY <1>1, <1>2
<1> QED BY <1>4, <1>5

\* Every batch that is asked for has a request.
LEMMA BatchRequested ==
  ASSUME IInv, NEW made \in SUBSET Batches, NEW b \in made
  PROVE  \E i \in 1..Cardinality(made) : Requests(made)[i].keys = KeysOf({b})
<1>1. Batches \subseteq Int /\ IsFiniteSet(made)
  <2>1. IsFiniteSet(Batches)
    BY BatchesFinite DEF IInv, TypeOK
  <2>2. IsFiniteSet(Settable)
    <3>1. IsFiniteSet(1..Len(key)) /\ Settable \subseteq 1..Len(key)
      BY FS_Interval DEF IInv, TypeOK, ListsType, Settable
    <3> QED BY <3>1, FS_Subset
  <2>3. ASSUME NEW n \in Settable PROVE Batch(n) \in Int
    <3>1. Cardinality({m \in Settable : m <= n}) \in Nat
      BY <2>2, FS_Subset, FS_CardinalityType
    <3> HIDE DEF Settable
    <3> QED BY <3>1, ClientAttributesAssumption DEF Batch
  <2> QED BY <2>1, <2>3, FS_Subset DEF Batches
<1> DEFINE i == Cardinality({c \in made : c <= b})
           a == CHOOSE x \in made : Cardinality({c \in made : c <= x}) = i
<1>2. i \in 1..Cardinality(made)
  BY <1>1, RankIs
<1>3. a \in made /\ Cardinality({c \in made : c <= a}) = i
  OBVIOUS
<1>4. a = b
  BY <1>1, <1>3, RankIs
<1>5. Requests(made)[i] = NewMessage("request", accepted + i, KeysOf({a}))
  BY <1>2 DEF Requests
<1> HIDE DEF i, a
<1>6. Requests(made)[i].keys = KeysOf({b})
  BY <1>4, <1>5 DEF NewMessage
<1> QED BY <1>2, <1>6

\* The requests of an initialization come after all updates.
LEMMA InitializeAgreed ==
  ASSUME IInv, SInv, tbce_clientattributes_initialize
  PROVE  SInv'
<1>1. PICK made \in SUBSET Batches :
        /\ Initializes(made)
        /\ Requests(made) \in Seq(Message) /\ Len(Requests(made)) = Cardinality(made)
        /\ \A i \in 1..Cardinality(made) : /\ Requests(made)[i].number = accepted + i
                                           /\ Requests(made)[i].type = "request"
  BY InitializeIs
<1> DEFINE ms == Requests(made)
<1>2. \A x \in Range(ms) : x.type = "request"
  BY <1>1, RangeIs
<1>3. KeysOf(made) \subseteq Open'
  <2> SUFFICES ASSUME NEW k \in KeysOf(made) PROVE k \in Open'
    OBVIOUS
  <2>1. PICK b \in made : k \in KeysOf({b})
    BY DEF KeysOf
  <2>2. PICK i \in 1..Cardinality(made) : ms[i].keys = KeysOf({b})
    BY BatchRequested
  <2>3. ms[i] \in attributesrequest_list'
    BY <1>1, <2>2, RangeIs DEF Initializes
  <2> QED BY <2>1, <2>2, <2>3 DEF Open
<1> HIDE DEF ms
<1> QED BY <1>1, <1>2, <1>3, OthersPublished DEF Initializes, values, ms

Less == {p \in Nat \X Nat : p[1] < p[2]}

\* The first of some attributes is one of them.
LEMMA FirstIs ==
  ASSUME NEW S \in SUBSET Nat, S # {}
  PROVE  First(S) \in S
<1>1. IsWellFoundedOn(Less, Nat)
  BY NatLessThanWellFounded DEF Less, OpToRel
<1>2. PICK n \in S : \A m \in S : <<m, n>> \notin Less
  BY <1>1, WFMin
<1>3. ASSUME NEW m \in S PROVE n <= m
  <2>1. n \in Nat /\ m \in Nat
    OBVIOUS
  <2>2. m < n => <<m, n>> \in Less
    BY <2>1 DEF Less
  <2> QED BY <1>2, <2>1, <2>2
<1> QED BY <1>3 DEF First

\* All on_set are called, or the last of them has unregistered an attribute.
LEMMA ResponseIs ==
  ASSUME IInv, OnResponse
  PROVE  LET v == Head(queue).values
         IN \E m \in attributesrequest_list, S \in SUBSET Hits(v) :
              /\ m.number = Head(queue).number
              /\ attributesrequest_list' = attributesrequest_list \ {m}
              /\ device' = [k \in Key |-> IF k \in {key[n] : n \in S} THEN v[k] ELSE device[k]]
              /\ dirty' = dirty \ {key[n] : n \in S}
              /\ \/ known' = known \ (m.keys \ {key[n] : n \in S})
                 \/ known' = known \ (m.keys \ {key[n] : n \in Settable}) /\ S = Hits(v)
<1> DEFINE v == Head(queue).values
<1>1. PICK m \in attributesrequest_list, S \in SUBSET Hits(v) :
        /\ m.number = Head(queue).number
        /\ attributesrequest_list' = attributesrequest_list \ {m}
        /\ \/ S = Hits(v) /\ UNCHANGED clientattribute_list
           \/ \E k \in Key :
                /\ Registered(k) # {}
                /\ clientattribute_list' = clientattribute_list \ {First(Registered(k))}
        /\ device' = [k \in Key |-> IF k \in {key[n] : n \in S} THEN v[k] ELSE device[k]]
        /\ dirty' = dirty \ {key[n] : n \in S}
        /\ known' = known \ (m.keys \ {key[n] : n \in IF clientattribute_list' = clientattribute_list
                                                     THEN Settable ELSE S})
  BY Zenon DEF OnResponse
<1> HIDE DEF v
<1>2. ASSUME NEW k \in Key, Registered(k) # {},
             clientattribute_list' = clientattribute_list \ {First(Registered(k))}
      PROVE  clientattribute_list' # clientattribute_list
  <2>1. Registered(k) \in SUBSET Nat /\ Registered(k) \subseteq clientattribute_list
    BY DEF IInv, TypeOK, ListsType, Registered
  <2>2. First(Registered(k)) \in clientattribute_list
    BY <1>2, <2>1, FirstIs
  <2> QED BY <1>2, <2>2
<1>3. CASE clientattribute_list' = clientattribute_list
  <2>1. S = Hits(v)
    BY <1>1, <1>2, <1>3
  <2>2. known' = known \ (m.keys \ {key[n] : n \in Settable})
    BY <1>1, <1>3
  <2> QED BY <1>1, <2>1, <2>2 DEF v
<1>4. CASE clientattribute_list' # clientattribute_list
  <2>1. known' = known \ (m.keys \ {key[n] : n \in S})
    BY <1>1, <1>4
  <2> QED BY <1>1, <2>1 DEF v
<1> QED BY <1>3, <1>4

\* A response sets the values that the server still has.
LEMMA ResponseAgreed ==
  ASSUME IInv, SInv, OnResponse
  PROVE  SInv'
<1> DEFINE e == Head(queue)
           v == e.values
<1>1. /\ Receive("RESPONSE")
      /\ UNCHANGED <<outbox, accepted, server, raced>>
  BY DEF OnResponse, messages
<1>2. /\ Range(queue') \subseteq Range(queue) /\ e \in Range(queue)
      /\ e \in Event /\ e.type = "RESPONSE"
  BY <1>1, ReceiveRange DEF IInv, TypeOK, NetworkType
<1>3. PICK m \in attributesrequest_list, S \in SUBSET Hits(v) :
        /\ m.number = e.number
        /\ attributesrequest_list' = attributesrequest_list \ {m}
        /\ device' = [k \in Key |-> IF k \in {key[n] : n \in S} THEN v[k] ELSE device[k]]
        /\ dirty' = dirty \ {key[n] : n \in S}
        /\ \/ known' = known \ (m.keys \ {key[n] : n \in S})
           \/ known' = known \ (m.keys \ {key[n] : n \in Settable}) /\ S = Hits(v)
  BY ResponseIs, Zenon
<1>4. /\ Fits(e) /\ e.number \in Nat
      /\ \A x \in Range(outbox) : x.number \in Nat
  <2>1. outbox \in Seq(Message)
    BY DEF IInv, TypeOK, NetworkType
  <2>2. \A x \in Range(outbox) : x.number \in Nat
    <3>1. \A x \in Message : x.number \in Nat
      BY DEF Message
    <3> QED BY <2>1, <3>1, RangeIs
  <2> QED BY <1>2, <2>2 DEF SInv, Responded, Event
<1>5. \A k : Updates(k)' = Updates(k)
  BY <1>1 DEF Updates
<1>6. InOrder' /\ Requested'
  BY <1>1, <1>3, <1>5 DEF SInv, InOrder, Requested
<1>7. Responded'
  BY <1>1, <1>2, <1>3 DEF SInv, Responded, Fits
<1>8. \A n \in S : n \in Settable /\ v[key[n]] # Absent
  BY <1>3 DEF Hits
<1>9. device \in [Key -> Value] /\ server \in [Key -> Value]
  BY DEF IInv, TypeOK, ValuesType
<1> HIDE DEF e, v
<1>10. ASSUME NEW k \in Settled' PROVE Agrees(k)'
  <2>1. k \in Key /\ k \in known
    BY <1>3, <1>10 DEF Settled, IInv, TypeOK, ExchangeType
  <2>2. CASE k \in m.keys
    <3>1. /\ k \notin raced
          /\ k \in {key[n] : n \in S} \/ (k \in {key[n] : n \in Settable} /\ S = Hits(v))
      BY <1>1, <1>3, <1>10, <2>2 DEF Settled
    <3>2. Updates(k) = {}
      <4>1. ASSUME NEW x \in Updates(k) PROVE FALSE
        <5>1. x \in Range(outbox) /\ x.number < m.number /\ e.number < x.number
          BY <1>4, <2>2, <3>1, <4>1 DEF SInv, Requested, Updates, Fits
        <5> QED BY <1>3, <1>4, <5>1
      <4> QED BY <4>1
    <3>3. v[k] = server[k]
      BY <1>3, <1>4, <2>2, <3>1 DEF Fits, v
    <3>4. server[k] = Absent \/ device'[k] = server[k]
      <4>1. CASE k \in {key[n] : n \in S}
        BY <1>3, <2>1, <3>3, <4>1
      <4>2. CASE k \notin {key[n] : n \in S}
        <5>1. v[k] = Absent
          BY <3>1, <4>2 DEF Hits
        <5> QED BY <3>3, <5>1
      <4> QED BY <4>1, <4>2
    <3> QED BY <1>1, <1>5, <3>2, <3>4 DEF Agrees
  <2>3. CASE k \notin m.keys
    <3>1. v[k] = Absent
      BY <1>3, <1>4, <2>1, <2>3 DEF Fits, v
    <3>2. k \notin {key[n] : n \in S}
      BY <1>8, <3>1
    <3>3. device'[k] = device[k]
      BY <1>3, <2>1, <3>2
    <3>4. k \in Settled
      BY <1>1, <1>3, <1>10, <2>1, <2>3, <3>2 DEF Settled, Open
    <3> QED BY <1>1, <1>5, <3>3, <3>4 DEF SInv, Agreed, Agrees
  <2> QED BY <2>2, <2>3
<1> QED BY <1>6, <1>7, <1>10 DEF SInv, Agreed

LEMMA AgreedStep == IInv /\ SInv /\ [Next]_vars => SInv'
<1> SUFFICES ASSUME IInv, SInv, [Next]_vars PROVE SInv'
  OBVIOUS
<1>1. ASSUME NEW type \in {"CONNECTED", "DISCONNECTED"}, Post(Signal(type)),
             UNCHANGED <<outbox, accepted, server, device, known, dirty, raced,
                         attributesrequest_list>>
      PROVE  SInv'
  <2>1. Range(queue') \subseteq Range(queue) \cup {Signal(type)}
    BY <1>1, PostRange, SignalType DEF IInv, TypeOK, NetworkType
  <2>2. Signal(type).type # "RESPONSE"
    BY <1>1 DEF Signal
  <2> QED BY <1>1, <2>1, <2>2, SameAgreed
<1>2. CASE Connected \/ Disconnected
  BY <1>1, <1>2 DEF Connected, Disconnected, Qos, values, messages, exchange
<1>3. ASSUME UNCHANGED <<outbox, accepted, server, device, known, dirty, raced,
                         attributesrequest_list>>,
             Range(queue') \subseteq Range(queue)
      PROVE  SInv'
  BY <1>3, SameAgreed
<1>4. CASE tbcmh_connect
  BY <1>3, <1>4 DEF tbcmh_connect, values, messages, exchange
<1>5. CASE tbcmh_disconnect
  BY <1>5, DisconnectAgreed
<1>6. ASSUME NEW acknowledged \in BOOLEAN, Arrives(acknowledged) PROVE SInv'
  BY <1>6, ArrivesAgreed
<1>7. ASSUME NEW k \in Key, NEW with_set \in BOOLEAN, tbce_clientattributes_register(k, with_set)
      PROVE  SInv'
  BY <1>3, <1>7 DEF tbce_clientattributes_register, network, values, messages, exchange
<1>8. ASSUME NEW k \in Key, tbce_clientattributes_unregister(k) PROVE SInv'
  BY <1>3, <1>8 DEF tbce_clientattributes_unregister, network, values, messages, exchange
<1>9. CASE Attributes
  BY <1>7, <1>8, <1>9, ChangeAgreed, UpdateAgreed, InitializeAgreed DEF Attributes
<1>10. ASSUME NEW a \in Axis,
              tbce_timeseriesdata_register(a) \/ tbce_timeseriesdata_unregister(a)
       PROVE  SInv'
  BY <1>3, <1>10 DEF tbce_timeseriesdata_register, tbce_timeseriesdata_unregister, network,
                     values, messages, exchange
<1>11. CASE Others
  BY <1>10, <1>11, OneOtherPublished
  DEF Others, tbce_timeseriesdata_upload, tbcmh_claiming_device_initiate_using_device_side_key
<1>12. CASE OnConnected \/ OnStaleResponse
  <2>1. Range(queue') \subseteq Range(queue)
    BY <1>12, ReceiveRange DEF OnConnected, OnStaleResponse, IInv, TypeOK, NetworkType
  <2> QED BY <1>3, <1>12, <2>1 DEF OnConnected, OnStaleResponse, values, messages, exchange
<1>13. CASE Run
  BY <1>12, <1>13, TimedOutAgreed, ResponseAgreed DEF Run
<1>14. CASE UNCHANGED vars
  BY <1>3, <1>14 DEF vars, network, values, messages, exchange
<1> QED
  BY <1>2, <1>4, <1>5, <1>6, <1>9, <1>11, <1>13, <1>14 DEF Next, Network

LEMMA AgreedInit == Init => SInv
<1> SUFFICES ASSUME Init PROVE SInv
  OBVIOUS
<1>1. outbox = << >> /\ queue = << >> /\ attributesrequest_list = {} /\ known = {}
  BY DEF Init
<1>2. Range(outbox) = {} /\ Range(queue) = {} /\ \A i \in 1..Len(outbox) : FALSE
  BY <1>1 DEF Range
<1> QED BY <1>1, <1>2 DEF SInv, InOrder, Requested, Responded, Agreed, Settled

\* Once nothing is on its way, device and server agree on all attributes that were
\* published or asked for, except those that raced: whatever was lost, repeated or
\* timed out before, and whatever values the server has kept from before a restart
\* of the device (_tbce_clientattributes_on_initialized).
THEOREM DeviceAgrees == Spec => []SettledAgrees
<1>1. SInv => SettledAgrees
  <2> SUFFICES ASSUME SInv, outbox = << >>, attributesrequest_list = {},
                      NEW k \in known \ (dirty \cup raced), server[k] # Absent
               PROVE  device[k] = server[k]
    BY DEF SettledAgrees
  <2>1. k \in Settled /\ Updates(k) = {}
    BY DEF Settled, Open, Updates, Range
  <2> QED BY <2>1 DEF SInv, Agreed, Agrees
<1> QED BY <1>1, InitInv, StepInv, AgreedInit, AgreedStep, PTL DEF Spec
=============================================================================
