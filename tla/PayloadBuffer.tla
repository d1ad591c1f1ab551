--------------------------- MODULE PayloadBuffer ---------------------------
(***************************************************************************)
(* Reassembly of MQTT messages, wapper/tbc_mqtt_payload_buffer.c.          *)
(*                                                                         *)
(* esp-mqtt hands a long PUBLISH to the wrapper as several MQTT_EVENT_DATA *)
(* events.  Only the first one carries the topic; every one carries the    *)
(* total length and the offset of its piece.  A lost connection cuts a     *)
(* message short, and nobody tells the buffer.  Every malloc may fail.     *)
(*                                                                         *)
(* The n-th message of the broker is sent[n].  Its bytes are abstracted to *)
(* n itself, so a payload is a function from byte positions to the number  *)
(* of the message that byte came from, or Garbage for memory malloc()      *)
(* returned and nobody has written.                                        *)
(***************************************************************************)
EXTENDS Integers, Sequences

CONSTANTS
  Topic,        \* topics the broker publishes on
  NULL,         \* the C null pointer
  MaxLength,    \* MAX_TBCM_RX_MSG_LENGTH, 128 K in the code
  MaxTotal,     \* bound: the longest message the broker sends
  MaxMessages   \* bound: how many messages the broker sends

Garbage == 0
Malloc == {"topic", "payload"}
Message == [topic : Topic, total : 0..MaxTotal]
Payload == UNION {[0..n - 1 -> 0..MaxMessages] : n \in 0..MaxTotal}

ASSUME PayloadBufferAssumption ==
  /\ MaxLength \in Nat
  /\ MaxTotal \in Nat
  /\ MaxMessages \in Nat
  /\ NULL \notin Topic
  /\ NULL \notin Payload

VARIABLES
  sent,       \* history: the messages the broker has begun to send
  phase,      \* where the latest message is on the wire
  offset,     \* bytes of it esp-mqtt has handed over
  starved,    \* history: a malloc failed while it was received
  buffer,     \* client->buffer, tbcm_payload_buffer_t
  delivered   \* history: what on_payload_process was called with

vars == <<sent, phase, offset, starved, buffer, delivered>>

Current == Len(sent)

\* _tbcm_payload_buffer_free: topic and payload released, lengths zeroed.
Freed == [topic |-> NULL, payload |-> NULL, total_payload_len |-> 0, received_len |-> 0]

Init ==
  /\ sent = << >>
  /\ phase = "none"
  /\ offset = 0
  /\ starved = FALSE
  /\ buffer = Freed
  /\ delivered = << >>

-----------------------------------------------------------------------------
(* The handler, on the event rx and the set of its two mallocs that fail.   *)

\* memcpy of one piece into the payload, at its offset.
Write(payload, rx) ==
  [i \in DOMAIN payload |->
     IF rx.current_payload_offset <= i /\ i < rx.current_payload_offset + rx.payload_len
     THEN Current ELSE payload[i]]

CopyTopic(b, rx, failing) ==
  IF rx.topic = NULL THEN b
  ELSE [b EXCEPT !.topic = IF "topic" \in failing THEN NULL ELSE rx.topic]

CopyPayload(b, rx, failing) ==
  IF b.payload = NULL THEN
    IF "payload" \in failing
    THEN [b EXCEPT !.total_payload_len = 0, !.received_len = 0]
    ELSE [b EXCEPT
            !.payload = Write([i \in 0..rx.total_payload_len - 1 |-> Garbage], rx),
            !.total_payload_len = rx.total_payload_len,
            !.received_len = rx.payload_len]
  ELSE IF b.total_payload_len # rx.total_payload_len THEN b
  ELSE [b EXCEPT !.payload = Write(b.payload, rx), !.received_len = @ + rx.payload_len]

\* _tbcm_payload_buffer_feed: without its topic nothing else is copied.
Feed(b, rx, failing) ==
  LET titled == CopyTopic(b, rx, failing) IN
  IF (rx.topic # NULL /\ "topic" \in failing) \/ rx.payload_len = 0 \/ rx.total_payload_len = 0
  THEN titled
  ELSE CopyPayload(titled, rx, failing)

\* _tbcm_rx_msg_is_completion
RxIsWhole(rx) == rx.topic # NULL /\ rx.payload_len >= rx.total_payload_len

\* Mutant: waits for more bytes than the message has.
BufferIsWholeTooLate(b) ==
  b.topic # NULL /\ b.payload # NULL /\ b.received_len > b.total_payload_len

\* _tbcm_payload_buffer_is_completion
BufferIsWhole(b) ==
  /\ b.topic # NULL
  /\ b.payload # NULL
  /\ b.received_len >= b.total_payload_len

\* Mutant: the longest admissible message counts as too long.
RejectedOneShort(rx) == rx.total_payload_len >= MaxLength

Rejected(rx) ==
  \/ rx.total_payload_len > MaxLength
  \/ rx.current_payload_offset > 0 /\ rx.current_payload_offset >= rx.total_payload_len

\* on_payload_process: the number of the message on the wire is history.
Deliver(topic, payload) ==
  delivered' = Append(delivered, [id |-> Current, topic |-> topic, payload |-> payload])

DeliverBuffer(b) ==
  Deliver(b.topic, [i \in 0..b.received_len - 1 |->
                      IF i \in DOMAIN b.payload THEN b.payload[i] ELSE Garbage])

\* Mutant: a new topic does not clear what an earlier message left behind.
ProcessOntoLeftovers(rx, failing) ==
  LET fed == Feed(buffer, rx, failing) IN
  IF Rejected(rx) THEN UNCHANGED <<buffer, delivered>>
  ELSE IF RxIsWhole(rx) THEN /\ Deliver(rx.topic, [i \in 0..rx.payload_len - 1 |-> Current])
                             /\ UNCHANGED buffer
  ELSE IF BufferIsWhole(fed) THEN DeliverBuffer(fed) /\ buffer' = Freed
  ELSE buffer' = fed /\ UNCHANGED delivered

\* Mutant: no return after a message that came in one piece.
ProcessFallingThrough(rx, failing) ==
  LET old == IF rx.topic # NULL THEN Freed ELSE buffer
      fed == Feed(old, rx, failing)
      d   == [id |-> Current, topic |-> rx.topic, payload |-> fed.payload]
  IN IF Rejected(rx) THEN UNCHANGED <<buffer, delivered>>
     ELSE IF BufferIsWhole(fed)
     THEN /\ buffer' = Freed
          /\ IF RxIsWhole(rx) THEN delivered' = delivered \o <<d, d>> ELSE DeliverBuffer(fed)
     ELSE buffer' = fed /\ UNCHANGED delivered

\* tbcm_payload_buffer_pocess: reject, clear on a topic, deliver a whole
\* message at once, else feed the buffer and deliver it when it is whole.
Process(rx, failing) ==
  LET old == IF rx.topic # NULL THEN Freed ELSE buffer
      fed == Feed(old, rx, failing)
  IN \/ /\ Rejected(rx)
        /\ UNCHANGED <<buffer, delivered>>
     \/ /\ ~Rejected(rx) /\ RxIsWhole(rx)
        /\ Deliver(rx.topic, [i \in 0..rx.payload_len - 1 |-> Current])
        /\ buffer' = old
     \/ /\ ~Rejected(rx) /\ ~RxIsWhole(rx) /\ BufferIsWhole(fed)
        /\ DeliverBuffer(fed)
        /\ buffer' = Freed
     \/ /\ ~Rejected(rx) /\ ~RxIsWhole(rx) /\ ~BufferIsWhole(fed)
        /\ buffer' = fed
        /\ UNCHANGED delivered

-----------------------------------------------------------------------------
(* esp-mqtt and the network.                                               *)

OnTheWire == phase \in {"announced", "reading"}

\* The broker begins its next message.
BrokerSends(m) ==
  /\ ~OnTheWire
  /\ Len(sent) < MaxMessages
  /\ sent' = Append(sent, m)
  /\ phase' = "announced"
  /\ offset' = 0
  /\ starved' = FALSE
  /\ UNCHANGED <<buffer, delivered>>

\* One MQTT_EVENT_DATA of len bytes.  The first event has the topic and may
\* be empty; a later one has at least one byte.
MqttData(len, failing) ==
  LET m  == sent[Current]
      rx == [topic |-> IF phase = "announced" THEN m.topic ELSE NULL,
             payload_len |-> len,
             total_payload_len |-> m.total,
             current_payload_offset |-> offset]
  IN /\ OnTheWire
     /\ offset + len <= m.total
     /\ len > 0 \/ phase = "announced"
     /\ Process(rx, failing)
     /\ offset' = offset + len
     /\ phase' = IF offset + len = m.total THEN "whole" ELSE "reading"
     /\ starved' = (starved \/ failing # {})
     /\ UNCHANGED sent

\* The connection goes down inside a message; the rest never arrives.
ConnectionLost ==
  /\ OnTheWire
  /\ phase' = "cut"
  /\ UNCHANGED <<sent, offset, starved, buffer, delivered>>

\* tbcm_payload_buffer_clear, when the wrapper is destroyed: esp-mqtt has
\* been stopped, and a later client starts with an empty buffer.
Clear ==
  /\ phase' = IF OnTheWire THEN "cut" ELSE phase
  /\ buffer' = Freed
  /\ UNCHANGED <<sent, offset, starved, delivered>>

Next ==
  \/ \E m \in Message : BrokerSends(m)
  \/ \E len \in 0..MaxTotal, failing \in SUBSET Malloc :
        MqttData(len, failing)
  \/ ConnectionLost
  \/ Clear

Spec == Init /\ [][Next]_vars

-----------------------------------------------------------------------------
\* Types of the variables.  Between two events the buffer never holds a
\* complete message: it would have been delivered and freed.
TypeOK ==
  /\ sent \in Seq(Message)
  /\ Len(sent) <= MaxMessages
  /\ phase \in {"none", "announced", "reading", "whole", "cut"}
  /\ OnTheWire => sent # << >> /\ offset <= sent[Current].total
  /\ offset \in 0..MaxTotal
  /\ starved \in BOOLEAN
  /\ buffer \in [topic : Topic \cup {NULL}, payload : {NULL} \cup Payload,
                 total_payload_len : 0..MaxTotal, received_len : 0..MaxTotal]
  /\ buffer.payload = NULL => buffer.received_len = 0 /\ buffer.total_payload_len = 0
  /\ buffer.payload # NULL =>
        /\ buffer.payload \in [0..buffer.total_payload_len - 1 -> 0..MaxMessages]
        /\ buffer.received_len \in 1..buffer.total_payload_len
        /\ buffer.topic # NULL => buffer.received_len < buffer.total_payload_len
  /\ delivered \in Seq([id : 1..MaxMessages, topic : Topic, payload : Payload])

\* What d claims to be: the whole of message d.id and nothing else.
IsFaithful(d) ==
  /\ d.id \in 1..Len(sent)
  /\ d.topic = sent[d.id].topic
  /\ d.payload = [i \in 0..sent[d.id].total - 1 |-> d.id]

\* tbc_mqtt_payload_buffer.c delivers only whole messages: never a mix of two
\* messages, never a hole of unwritten memory, never a topic of another
\* message, whatever mallocs fail and wherever connections are lost.
NoMixedDelivery == \A n \in 1..Len(delivered) : IsFaithful(delivered[n])

\* No message is delivered twice, and messages are delivered in the order in
\* which the broker sent them: a piece left in the buffer never completes a
\* message that has been delivered already.
DeliveredInOrderOnce ==
  \A m, n \in 1..Len(delivered) : m < n => delivered[m].id < delivered[n].id

\* A message that arrived to its last byte, is not longer than
\* MAX_TBCM_RX_MSG_LENGTH and met no failing malloc has been delivered, even
\* if the message before it was cut short and left its pieces in the buffer.
WholeMessageIsDelivered ==
  (phase = "whole" /\ ~starved /\ sent[Current].total <= MaxLength)
     => \E n \in 1..Len(delivered) : delivered[n].id = Current
=============================================================================
