------------------------ MODULE PayloadBufferProofs ------------------------
(***************************************************************************)
(* Proofs about PayloadBuffer: for every set of topics and all bounds.     *)
(***************************************************************************)
EXTENDS PayloadBuffer, TLAPS

CMessage == sent[Current]

\* What a buffer value always is.
BufferType(b) ==
  /\ b \in [topic : Topic \cup {NULL}, payload : {NULL} \cup Payload,
            total_payload_len : 0..MaxTotal, received_len : 0..MaxTotal]
  /\ b.payload = NULL => b.received_len = 0 /\ b.total_payload_len = 0
  /\ b.payload # NULL => /\ b.payload \in [0..b.total_payload_len - 1 -> 0..MaxMessages]
                         /\ b.received_len \in 1..b.total_payload_len

\* b holds the last received_len of the first off bytes of message n.
Holds(b, n, m, off) ==
  /\ b.topic \in {NULL, m.topic}
  /\ b.payload # NULL =>
       /\ b.total_payload_len = m.total
       /\ b.received_len <= off
       /\ \A i \in 0..m.total - 1 :
             off - b.received_len <= i /\ i < off => b.payload[i] = n

\* b missed nothing of the first off bytes.
HoldsAll(b, m, off) ==
  /\ b.topic = m.topic
  /\ off = 0 => b.payload = NULL
  /\ off > 0 => b.payload # NULL /\ b.received_len = off

BufferTracks ==
  (phase = "reading" /\ CMessage.total <= MaxLength) =>
    /\ offset < CMessage.total
    /\ Holds(buffer, Current, CMessage, offset)
    /\ starved \/ HoldsAll(buffer, CMessage, offset)

\* While a message is on the wire nothing of it has been delivered.
NotYetDelivered == OnTheWire => \A n \in 1..Len(delivered) : delivered[n].id < Current

AnnouncedAtZero == phase = "announced" => offset = 0

IInv ==
  /\ TypeOK
  /\ AnnouncedAtZero
  /\ BufferTracks
  /\ NotYetDelivered
  /\ NoMixedDelivery
  /\ DeliveredInOrderOnce
  /\ WholeMessageIsDelivered

-----------------------------------------------------------------------------
(* Values of payloads and buffers.                                         *)

\* A function from n byte positions is a payload, never the null pointer.
LEMMA IsPayload ==
  ASSUME NEW n \in 0..MaxTotal, NEW p \in [0..n - 1 -> 0..MaxMessages]
  PROVE  p \in Payload /\ p # NULL
<1>1. p \in Payload
  BY DEF Payload
<1>2. NULL \notin Payload
  BY PayloadBufferAssumption
<1> QED
  BY <1>1, <1>2

LEMMA FreedType == BufferType(Freed)
<1>1. 0 \in 0..MaxTotal
  BY PayloadBufferAssumption
<1> QED
  BY <1>1 DEF BufferType, Freed

\* What memcpy leaves in the payload.
LEMMA WriteType ==
  ASSUME NEW n \in 0..MaxTotal, NEW p \in [0..n - 1 -> 0..MaxMessages], NEW rx,
         Current \in 0..MaxMessages
  PROVE  Write(p, rx) \in [0..n - 1 -> 0..MaxMessages]
BY DEF Write

LEMMA Fresh ==
  ASSUME NEW n \in 0..MaxTotal
  PROVE  [i \in 0..n - 1 |-> Garbage] \in [0..n - 1 -> 0..MaxMessages]
BY PayloadBufferAssumption DEF Garbage

-----------------------------------------------------------------------------
(* One piece of a message.                                                 *)

\* rx is the event for len bytes of message m at offset off.
IsPiece(rx, m, off, len) ==
  /\ m \in Message
  /\ off \in 0..MaxTotal
  /\ len \in 0..MaxTotal
  /\ off + len <= m.total
  /\ rx.topic \in {NULL, m.topic}
  /\ rx.payload_len = len
  /\ rx.total_payload_len = m.total
  /\ rx.current_payload_offset = off

LEMMA CopyTopicKeeps ==
  ASSUME NEW b, NEW m, NEW off, NEW len, NEW rx, IsPiece(rx, m, off, len),
         BufferType(b), Holds(b, Current, m, off), NEW failing
  PROVE  /\ BufferType(CopyTopic(b, rx, failing))
         /\ Holds(CopyTopic(b, rx, failing), Current, m, off)
BY DEF CopyTopic, BufferType, Holds, IsPiece, Message

LEMMA CopyPayloadType ==
  ASSUME NEW b, NEW m, NEW off, NEW len, NEW rx, IsPiece(rx, m, off, len),
         BufferType(b), Holds(b, Current, m, off), NEW failing,
         Current \in 0..MaxMessages, len > 0
  PROVE  BufferType(CopyPayload(b, rx, failing))
<1> DEFINE fresh == [i \in 0..m.total - 1 |-> Garbage]
<1> SUFFICES ASSUME NEW c, c = CopyPayload(b, rx, failing)
             PROVE  BufferType(c)
  OBVIOUS
<1> USE PayloadBufferAssumption DEF PayloadBufferAssumption
<1>0. m.total \in 0..MaxTotal
  BY DEF IsPiece, Message
<1>1. CASE b.payload = NULL /\ "payload" \notin failing
  <2>1. Write(fresh, rx) \in [0..m.total - 1 -> 0..MaxMessages]
    BY <1>0, Fresh, WriteType
  <2>2. Write(fresh, rx) \in Payload /\ Write(fresh, rx) # NULL
    BY <1>0, <2>1, IsPayload
  <2>3. c = [b EXCEPT !.payload = Write(fresh, rx), !.total_payload_len = m.total,
                      !.received_len = len]
    BY <1>1 DEF CopyPayload, IsPiece
  <2>4. len \in 1..m.total
    BY <1>0 DEF IsPiece
  <2> HIDE DEF fresh
  <2> QED
    BY <1>0, <2>1, <2>2, <2>3, <2>4 DEF BufferType, IsPiece
<1>2. CASE b.payload = NULL /\ "payload" \in failing
  BY <1>2 DEF CopyPayload, BufferType
<1>3. CASE b.payload # NULL
  <2>1. /\ b.total_payload_len = m.total
        /\ b.received_len \in 1..m.total
        /\ b.received_len <= off
        /\ b.payload \in [0..m.total - 1 -> 0..MaxMessages]
    BY <1>3 DEF Holds, BufferType
  <2>2. Write(b.payload, rx) \in [0..m.total - 1 -> 0..MaxMessages]
    BY <1>0, <2>1, WriteType
  <2>3. Write(b.payload, rx) \in Payload /\ Write(b.payload, rx) # NULL
    BY <1>0, <2>2, IsPayload
  <2>4. c = [b EXCEPT !.payload = Write(b.payload, rx), !.received_len = @ + len]
    BY <1>3, <2>1 DEF CopyPayload, IsPiece
  <2>5. b.received_len + len \in 1..m.total
    BY <1>0, <2>1 DEF IsPiece
  <2> QED
    <3>1. b.received_len + len \in 0..MaxTotal
      BY <1>0, <2>5
    <3>2. c \in [topic : Topic \cup {NULL}, payload : {NULL} \cup Payload,
                 total_payload_len : 0..MaxTotal, received_len : 0..MaxTotal]
      BY <2>3, <2>4, <3>1 DEF BufferType
    <3>3. /\ c.payload = Write(b.payload, rx)
          /\ c.total_payload_len = m.total
          /\ c.received_len = b.received_len + len
      BY <2>1, <2>4 DEF BufferType
    <3> QED
      BY <2>2, <2>3, <2>5, <3>2, <3>3 DEF BufferType
<1> QED
  BY <1>1, <1>2, <1>3

LEMMA CopyPayloadHolds ==
  ASSUME NEW b, NEW m, NEW off, NEW len, NEW rx, IsPiece(rx, m, off, len),
         BufferType(b), Holds(b, Current, m, off), NEW failing,
         Current \in 0..MaxMessages, len > 0
  PROVE  Holds(CopyPayload(b, rx, failing), Current, m, off + len)
<1> DEFINE fresh == [i \in 0..m.total - 1 |-> Garbage]
<1> SUFFICES ASSUME NEW c, c = CopyPayload(b, rx, failing)
             PROVE  Holds(c, Current, m, off + len)
  OBVIOUS
<1> USE PayloadBufferAssumption DEF PayloadBufferAssumption
<1>0. m.total \in 0..MaxTotal
  BY DEF IsPiece, Message
<1>1. CASE b.payload = NULL /\ "payload" \notin failing
  <2>1. c = [b EXCEPT !.payload = Write(fresh, rx), !.total_payload_len = m.total,
                      !.received_len = len]
    BY <1>1 DEF CopyPayload, IsPiece
  <2>2. \A i \in 0..m.total - 1 :
           off <= i /\ i < off + len => Write(fresh, rx)[i] = Current
    BY DEF Write, IsPiece
  <2> HIDE DEF fresh
  <2> QED
    BY <1>0, <2>1, <2>2 DEF BufferType, IsPiece, Holds
<1>2. CASE b.payload = NULL /\ "payload" \in failing
  BY <1>2 DEF CopyPayload, BufferType, Holds
<1>3. CASE b.payload # NULL
  <2>1. /\ b.total_payload_len = m.total
        /\ b.received_len \in 1..m.total
        /\ b.received_len <= off
        /\ b.payload \in [0..m.total - 1 -> 0..MaxMessages]
        /\ \A i \in 0..m.total - 1 :
              off - b.received_len <= i /\ i < off => b.payload[i] = Current
    BY <1>3 DEF Holds, BufferType
  <2>2. \A i \in 0..m.total - 1 : off - b.received_len <= i /\ i < off + len
           => Write(b.payload, rx)[i] = Current
    BY <1>0, <2>1 DEF Write, IsPiece
  <2>3. c = [b EXCEPT !.payload = Write(b.payload, rx), !.received_len = @ + len]
    BY <1>3, <2>1 DEF CopyPayload, IsPiece
  <2> QED
    BY <1>0, <2>1, <2>2, <2>3 DEF BufferType, Holds, IsPiece
<1> QED
  BY <1>1, <1>2, <1>3

\* The topic comes with the first piece, into an empty buffer.
LEMMA FeedKeeps ==
  ASSUME NEW b, NEW m, NEW off, NEW len, NEW rx, IsPiece(rx, m, off, len),
         BufferType(b), Holds(b, Current, m, off), rx.topic # NULL => b.payload = NULL,
         NEW failing,
         Current \in 0..MaxMessages
  PROVE  /\ BufferType(Feed(b, rx, failing))
         /\ Holds(Feed(b, rx, failing), Current, m, off + len)
<1> DEFINE titled == CopyTopic(b, rx, failing)
<1>1. BufferType(titled) /\ Holds(titled, Current, m, off)
  BY CopyTopicKeeps
<1>2. titled.payload = b.payload
  BY DEF CopyTopic, BufferType
<1>3. CASE rx.topic # NULL /\ "topic" \in failing
  BY <1>1, <1>2, <1>3 DEF Feed, Holds
<1>4. CASE len = 0 /\ ~(rx.topic # NULL /\ "topic" \in failing)
  BY <1>1, <1>4 DEF Feed, IsPiece
<1>5. CASE len > 0 /\ ~(rx.topic # NULL /\ "topic" \in failing)
  <2>1. Feed(b, rx, failing) = CopyPayload(titled, rx, failing)
    BY <1>5 DEF Feed, IsPiece, Message
  <2> HIDE DEF titled
  <2> QED
    BY <1>1, <1>5, <2>1, CopyPayloadType, CopyPayloadHolds
<1> QED
  BY <1>3, <1>4, <1>5 DEF IsPiece

\* When no malloc fails nothing of the message is missed.
LEMMA FeedMissesNothing ==
  ASSUME NEW b, NEW m, NEW off, NEW len, NEW rx, IsPiece(rx, m, off, len),
         BufferType(b), Holds(b, Current, m, off), Current \in 0..MaxMessages,
         \/ off = 0 /\ b = Freed /\ rx.topic = m.topic
         \/ len > 0 /\ rx.topic = NULL /\ HoldsAll(b, m, off)
  PROVE  HoldsAll(Feed(b, rx, {}), m, off + len)
<1> DEFINE titled == CopyTopic(b, rx, {})
           fresh == [i \in 0..m.total - 1 |-> Garbage]
<1> USE PayloadBufferAssumption DEF PayloadBufferAssumption
<1>0. m.total \in 0..MaxTotal /\ m.topic \in Topic /\ m.topic # NULL
  BY DEF IsPiece, Message
<1>1. /\ BufferType(titled)
      /\ Holds(titled, Current, m, off)
      /\ titled.topic = m.topic
      /\ titled.payload = b.payload
      /\ titled.received_len = b.received_len
  <2>1. BufferType(titled) /\ Holds(titled, Current, m, off)
    BY CopyTopicKeeps
  <2>2. titled.topic = m.topic
    BY <1>0 DEF CopyTopic, BufferType, HoldsAll
  <2>3. titled.payload = b.payload /\ titled.received_len = b.received_len
    BY DEF CopyTopic, BufferType
  <2> QED
    BY <2>1, <2>2, <2>3
<1>2. CASE len = 0
  BY <1>0, <1>1, <1>2 DEF Feed, IsPiece, HoldsAll, Freed
<1>3. CASE len > 0
  <2>1. Feed(b, rx, {}) = CopyPayload(titled, rx, {})
    BY <1>0, <1>3 DEF Feed, IsPiece
  <2>2. CASE titled.payload = NULL
    <3>1. CopyPayload(titled, rx, {})
             = [titled EXCEPT !.payload = Write(fresh, rx), !.total_payload_len = m.total,
                              !.received_len = len]
      BY <2>2 DEF CopyPayload, IsPiece
    <3>2. Write(fresh, rx) # NULL
      BY <1>0, Fresh, WriteType, IsPayload
    <3>3. off = 0
      BY <1>1, <2>2 DEF HoldsAll, IsPiece
    <3> HIDE DEF titled, fresh
    <3>4. PICK c : c = Feed(b, rx, {})
      OBVIOUS
    <3>5. c.topic = m.topic /\ c.payload # NULL /\ c.received_len = len
      <4>1. titled \in [topic : Topic \cup {NULL}, payload : {NULL} \cup Payload,
                        total_payload_len : 0..MaxTotal, received_len : 0..MaxTotal]
        BY <1>1 DEF BufferType
      <4> QED
        BY ONLY <1>1, <2>1, <3>1, <3>2, <3>4, <4>1
    <3> QED
      BY <1>1, <1>3, <3>3, <3>4, <3>5 DEF HoldsAll, IsPiece
  <2>3. CASE titled.payload # NULL
    <3>1. off > 0 /\ b.received_len = off
      BY <1>1, <2>3 DEF HoldsAll, IsPiece, Freed
    <3>2. CopyPayload(titled, rx, {})
             = [titled EXCEPT !.payload = Write(titled.payload, rx), !.received_len = @ + len]
      BY <1>1, <2>3 DEF CopyPayload, IsPiece, Holds
    <3>3. Write(titled.payload, rx) # NULL
      BY <1>0, <1>1, <2>3, WriteType, IsPayload DEF BufferType, Holds
    <3> HIDE DEF titled
    <3>4. PICK c : c = Feed(b, rx, {})
      OBVIOUS
    <3>5. c.topic = m.topic /\ c.payload # NULL /\ c.received_len = titled.received_len + len
      <4>1. titled \in [topic : Topic \cup {NULL}, payload : {NULL} \cup Payload,
                        total_payload_len : 0..MaxTotal, received_len : 0..MaxTotal]
        BY <1>1 DEF BufferType
      <4> QED
        BY ONLY <1>1, <2>1, <3>2, <3>3, <3>4, <4>1
    <3> QED
      BY <1>1, <1>3, <3>1, <3>4, <3>5 DEF HoldsAll, IsPiece
  <2> QED
    BY <2>2, <2>3
<1> QED
  BY <1>2, <1>3 DEF IsPiece

\* A whole buffer is a whole message.
LEMMA WholeBuffer ==
  ASSUME NEW b, NEW m \in Message, NEW off \in 0..m.total, BufferType(b),
         Holds(b, Current, m, off), BufferIsWhole(b)
  PROVE  /\ off = m.total
         /\ b.topic = m.topic
         /\ [i \in 0..b.received_len - 1 |->
               IF i \in DOMAIN b.payload THEN b.payload[i] ELSE Garbage]
              = [i \in 0..m.total - 1 |-> Current]
<1>1. /\ b.payload \in [0..m.total - 1 -> 0..MaxMessages]
      /\ b.received_len = m.total
      /\ off = m.total
      /\ b.topic = m.topic
      /\ \A i \in 0..m.total - 1 : b.payload[i] = Current
  BY DEF BufferType, Holds, BufferIsWhole, Message
<1> QED
  BY <1>1

-----------------------------------------------------------------------------
(* The inductive invariant.                                                *)

LEMMA TypeOfBuffer ==
  ASSUME TypeOK
  PROVE  BufferType(buffer)
BY DEF TypeOK, BufferType

LEMMA TypeOfMessage ==
  ASSUME TypeOK, OnTheWire
  PROVE  CMessage \in Message /\ Current \in 1..MaxMessages /\ offset \in 0..CMessage.total
<1>1. sent \in Seq(Message) /\ sent # << >> /\ Len(sent) <= MaxMessages
  BY DEF TypeOK
<1>2. Len(sent) \in 1..MaxMessages
  BY <1>1, PayloadBufferAssumption
<1>3. sent[Len(sent)] \in Message
  BY <1>1, <1>2
<1>4. offset \in 0..MaxTotal /\ offset <= sent[Len(sent)].total
  BY DEF TypeOK, Current
<1> QED
  BY <1>2, <1>3, <1>4 DEF CMessage, Current, Message

\* The record of a faithful delivery of the message on the wire.
Faithful(n, m) == [id |-> n, topic |-> m.topic, payload |-> [i \in 0..m.total - 1 |-> n]]

\* Appending the message on the wire keeps the deliveries faithful and ordered.
LEMMA DeliverCurrent ==
  ASSUME IInv, OnTheWire, UNCHANGED sent,
         delivered' = Append(delivered, Faithful(Current, CMessage))
  PROVE  /\ delivered' \in Seq([id : 1..MaxMessages, topic : Topic, payload : Payload])
         /\ NoMixedDelivery'
         /\ DeliveredInOrderOnce'
         /\ \E n \in 1..Len(delivered') : delivered'[n].id = Current
<1> DEFINE d == Faithful(Current, CMessage)
           L == Len(delivered)
<1> USE DEF IInv
<1>1. CMessage \in Message /\ Current \in 1..MaxMessages /\ Current = Len(sent)
  BY TypeOfMessage DEF Current
<1>2. [i \in 0..CMessage.total - 1 |-> Current] \in Payload
  BY <1>1, IsPayload DEF Message
<1>3. /\ d \in [id : 1..MaxMessages, topic : Topic, payload : Payload]
      /\ d.id = Current
      /\ IsFaithful(d)
  BY <1>1, <1>2 DEF Faithful, IsFaithful, CMessage, Message
<1>4. /\ delivered \in Seq([id : 1..MaxMessages, topic : Topic, payload : Payload])
      /\ L \in Nat
      /\ Len(delivered') = L + 1
      /\ delivered'[L + 1] = d
      /\ \A n \in 1..L : delivered'[n] = delivered[n]
  BY DEF TypeOK
<1>5. \A n \in 1..L : IsFaithful(delivered[n]) /\ delivered[n].id < Current
  BY DEF NoMixedDelivery, NotYetDelivered
<1> HIDE DEF d, IInv
<1>6. delivered' \in Seq([id : 1..MaxMessages, topic : Topic, payload : Payload])
  BY <1>3, <1>4 DEF d
<1>7. \A n \in 1..L + 1 : IsFaithful(delivered'[n])
  BY <1>3, <1>4, <1>5
<1>8. NoMixedDelivery'
  BY <1>4, <1>7 DEF NoMixedDelivery, IsFaithful
<1>9. DeliveredInOrderOnce'
  BY <1>1, <1>3, <1>4, <1>5 DEF IInv, DeliveredInOrderOnce
<1> QED
  BY <1>3, <1>4, <1>6, <1>8, <1>9

LEMMA InitIInv == Init => IInv
<1> SUFFICES ASSUME Init PROVE IInv
  OBVIOUS
<1> USE PayloadBufferAssumption DEF Init
<1>1. BufferType(buffer)
  BY FreedType
<1>2. Freed.payload = NULL /\ Freed.received_len = 0 /\ Freed.total_payload_len = 0
  BY DEF Freed
<1>3. TypeOK
  <2>1. sent \in Seq(Message) /\ Len(sent) <= MaxMessages
    BY PayloadBufferAssumption
  <2>2. ~OnTheWire
    BY DEF OnTheWire
  <2>3. delivered \in Seq([id : 1..MaxMessages, topic : Topic, payload : Payload])
    OBVIOUS
  <2> QED
    BY <1>1, <1>2, <2>1, <2>2, <2>3 DEF TypeOK, BufferType
<1>4. delivered = << >> /\ Len(delivered) = 0
  OBVIOUS
<1> QED
  BY <1>3, <1>4 DEF IInv, AnnouncedAtZero, BufferTracks, NotYetDelivered, OnTheWire,
     NoMixedDelivery, DeliveredInOrderOnce, WholeMessageIsDelivered

\* One event of a message in its context.
Rx(len) == [topic |-> IF phase = "announced" THEN CMessage.topic ELSE NULL,
            payload_len |-> len,
            total_payload_len |-> CMessage.total,
            current_payload_offset |-> offset]
OldBuffer(rx) == IF rx.topic # NULL THEN Freed ELSE buffer

LEMMA MqttDataFacts ==
  ASSUME IInv, NEW len \in 0..MaxTotal, NEW failing \in SUBSET Malloc,
         MqttData(len, failing), ~Rejected(Rx(len))
  PROVE  LET rx  == Rx(len)
             fed == Feed(OldBuffer(rx), rx, failing)
         IN /\ IsPiece(rx, CMessage, offset, len)
            /\ BufferType(fed)
            /\ Holds(fed, Current, CMessage, offset + len)
            /\ (failing = {} /\ ~starved) => HoldsAll(fed, CMessage, offset + len)
<1> DEFINE rx == Rx(len)
           m == CMessage
           b == OldBuffer(rx)
<1> USE PayloadBufferAssumption DEF IInv
<1>1. OnTheWire /\ offset + len <= m.total /\ (len > 0 \/ phase = "announced")
  BY DEF MqttData, CMessage
<1>2. m \in Message /\ m.total \in 0..MaxTotal /\ m.topic \in Topic /\ m.topic # NULL
      /\ Current \in 0..MaxMessages /\ offset \in 0..m.total
  BY <1>1, TypeOfMessage DEF Message
<1>3. IsPiece(rx, m, offset, len)
  BY <1>1, <1>2, PayloadBufferAssumption DEF IsPiece, Rx
<1>4. m.total <= MaxLength
  BY <1>2, PayloadBufferAssumption DEF Rejected, Rx
<1>5. CASE phase = "announced"
  <2>1. b = Freed /\ offset = 0 /\ rx.topic = m.topic
    BY <1>2, <1>5 DEF OldBuffer, Rx, AnnouncedAtZero
  <2>2. b.payload = NULL /\ BufferType(b) /\ Holds(b, Current, m, offset)
    BY <2>1, FreedType DEF Freed, Holds
  <2> HIDE DEF rx, m, b
  <2>3. BufferType(Feed(b, rx, failing)) /\ Holds(Feed(b, rx, failing), Current, m, offset + len)
    BY <1>2, <1>3, <2>2, FeedKeeps
  <2>4. HoldsAll(Feed(b, rx, {}), m, offset + len)
    BY <1>2, <1>3, <2>1, <2>2, FeedMissesNothing
  <2> QED
    BY <1>3, <2>3, <2>4 DEF rx, m, b
<1>6. CASE phase = "reading"
  <2>1. b = buffer /\ rx.topic = NULL
    BY <1>6 DEF OldBuffer, Rx
  <2>2. /\ BufferType(b)
        /\ Holds(b, Current, m, offset)
        /\ starved \/ HoldsAll(b, m, offset)
    BY <1>4, <1>6, <2>1, TypeOfBuffer DEF BufferTracks
  <2>3. len > 0
    BY <1>1, <1>6
  <2> HIDE DEF rx, m, b
  <2>4. BufferType(Feed(b, rx, failing)) /\ Holds(Feed(b, rx, failing), Current, m, offset + len)
    BY <1>2, <1>3, <2>1, <2>2, FeedKeeps
  <2>5. ~starved => HoldsAll(Feed(b, rx, {}), m, offset + len)
    BY <1>2, <1>3, <2>1, <2>2, <2>3, FeedMissesNothing
  <2> QED
    BY <1>3, <2>4, <2>5 DEF rx, m, b
<1> QED
  BY <1>1, <1>5, <1>6 DEF OnTheWire

\* What remains of IInv once the buffer and the deliveries are settled.
LEMMA MqttDataKeepsIInv ==
  ASSUME IInv, NEW len \in 0..MaxTotal, NEW failing \in SUBSET Malloc,
         MqttData(len, failing)
  PROVE  IInv'
<1> DEFINE rx  == Rx(len)
           m   == CMessage
           fed == Feed(OldBuffer(rx), rx, failing)
           end == offset + len
<1> USE DEF IInv
<1>1. /\ OnTheWire
      /\ end <= m.total
      /\ len > 0 \/ phase = "announced"
      /\ UNCHANGED sent
      /\ offset' = end
      /\ phase' = IF end = m.total THEN "whole" ELSE "reading"
      /\ starved' = (starved \/ failing # {})
      /\ Process(rx, failing)
  BY DEF MqttData, CMessage, Rx
<1>2. /\ m \in Message
      /\ m.total \in 0..MaxTotal
      /\ m.topic \in Topic
      /\ Current \in 1..MaxMessages
      /\ offset \in 0..m.total
      /\ end \in 0..MaxTotal
  BY <1>1, TypeOfMessage, PayloadBufferAssumption DEF Message
<1>3. CMessage' = m /\ Current' = Current
  BY <1>1 DEF CMessage, Current
<1>4. AnnouncedAtZero'
  BY <1>1 DEF AnnouncedAtZero
<1>5. /\ sent' \in Seq(Message) /\ Len(sent') <= MaxMessages
      /\ phase' \in {"whole", "reading"}
      /\ OnTheWire' => sent' # << >> /\ offset' <= sent'[Current'].total
      /\ offset' \in 0..MaxTotal
      /\ starved' \in BOOLEAN
  BY <1>1, <1>2 DEF TypeOK, OnTheWire, CMessage, Current
<1>6. ASSUME BufferType(buffer'),
             buffer'.payload # NULL /\ buffer'.topic # NULL
                => buffer'.received_len < buffer'.total_payload_len,
             delivered' \in Seq([id : 1..MaxMessages, topic : Topic, payload : Payload])
      PROVE  TypeOK'
  BY <1>5, <1>6 DEF TypeOK, BufferType
<1>7. ASSUME UNCHANGED delivered
      PROVE  NotYetDelivered' /\ NoMixedDelivery' /\ DeliveredInOrderOnce'
  BY <1>1, <1>3, <1>7 DEF NotYetDelivered, NoMixedDelivery, DeliveredInOrderOnce, IsFaithful
<1>8. CASE Rejected(rx)
  <2>1. UNCHANGED <<buffer, delivered>>
    BY <1>1, <1>8 DEF Process
  <2>2. TypeOK'
    BY <1>6, <2>1, TypeOfBuffer DEF TypeOK, BufferType
  <2>3. m.total > MaxLength
    BY <1>1, <1>2, <1>8 DEF Rejected, Rx, AnnouncedAtZero
  <2>4. BufferTracks' /\ WholeMessageIsDelivered'
    BY <1>2, <1>3, <2>3, PayloadBufferAssumption
    DEF BufferTracks, WholeMessageIsDelivered, CMessage
  <2> QED
    BY <1>4, <1>7, <2>1, <2>2, <2>4
<1>9. ASSUME delivered' = Append(delivered, Faithful(Current, m)), end = m.total,
             buffer' = Freed
      PROVE  IInv'
  <2>1. /\ delivered' \in Seq([id : 1..MaxMessages, topic : Topic, payload : Payload])
        /\ NoMixedDelivery' /\ DeliveredInOrderOnce'
        /\ \E n \in 1..Len(delivered') : delivered'[n].id = Current'
    BY <1>1, <1>3, <1>9, DeliverCurrent
  <2>2. phase' = "whole"
    BY <1>1, <1>9
  <2>3. BufferType(buffer') /\ buffer'.payload = NULL
    BY <1>9, FreedType DEF Freed
  <2>4. TypeOK'
    BY <1>6, <2>1, <2>3
  <2>5. BufferTracks' /\ NotYetDelivered' /\ WholeMessageIsDelivered'
    BY <2>1, <2>2 DEF BufferTracks, NotYetDelivered, WholeMessageIsDelivered, OnTheWire
  <2> QED
    BY <1>4, <2>1, <2>4, <2>5
<1>10. CASE ~Rejected(rx)
  <2>1. /\ IsPiece(rx, m, offset, len)
        /\ BufferType(fed)
        /\ Holds(fed, Current, m, end)
        /\ (failing = {} /\ ~starved) => HoldsAll(fed, m, end)
    BY <1>10, MqttDataFacts
  <2>2. CASE RxIsWhole(rx)
    <3>1. phase = "announced" /\ rx.topic = m.topic /\ rx.payload_len = len
          /\ len = m.total /\ end = m.total
      BY <1>1, <1>2, <2>2 DEF RxIsWhole, Rx, AnnouncedAtZero
    <3>2. /\ delivered' = Append(delivered, Faithful(Current, m))
          /\ buffer' = Freed
      BY <1>1, <1>2, <1>10, <2>2, <3>1, PayloadBufferAssumption
      DEF Process, Deliver, Faithful, Message
    <3> QED
      BY <1>9, <3>1, <3>2
  <2>3. CASE ~RxIsWhole(rx) /\ BufferIsWhole(fed)
    <3>1. DeliverBuffer(fed) /\ buffer' = Freed
      BY <1>1, <1>10, <2>3 DEF Process, OldBuffer
    <3> HIDE DEF rx, m, end, fed
    <3>2. end \in 0..m.total
      BY <1>1, <1>2
    <3>3. /\ end = m.total
          /\ fed.topic = m.topic
          /\ [i \in 0..fed.received_len - 1 |->
                IF i \in DOMAIN fed.payload THEN fed.payload[i] ELSE Garbage]
               = [i \in 0..m.total - 1 |-> Current]
      BY <1>2, <2>1, <2>3, <3>2, WholeBuffer
    <3>4. delivered' = Append(delivered, Faithful(Current, m))
      BY <3>1, <3>3 DEF DeliverBuffer, Deliver, Faithful
    <3> QED
      BY <1>9, <3>1, <3>3, <3>4
  <2>4. CASE ~RxIsWhole(rx) /\ ~BufferIsWhole(fed)
    <3>1. buffer' = fed /\ UNCHANGED delivered
      BY <1>1, <1>10, <2>4 DEF Process, OldBuffer
    <3> HIDE DEF rx, m, end, fed
    <3>2. TypeOK'
      BY <1>6, <2>1, <2>4, <3>1 DEF BufferIsWhole, BufferType, TypeOK
    <3>3. ASSUME end = m.total, ~starved, failing = {} PROVE FALSE
      <4>1. HoldsAll(fed, m, end)
        BY <2>1, <3>3
      <4>2. m.total > 0
        <5>1. SUFFICES ASSUME m.total = 0 PROVE FALSE
          BY <1>2
        <5>2. offset = 0 /\ len = 0
          BY <1>2, <3>3, <5>1 DEF end
        <5>3. rx.topic # NULL /\ rx.payload_len >= rx.total_payload_len
          BY <1>1, <1>2, <5>1, <5>2, PayloadBufferAssumption DEF rx, Rx, m
        <5> QED
          BY <2>4, <5>3 DEF RxIsWhole
      <4>3. fed.topic # NULL /\ fed.payload # NULL /\ fed.received_len = m.total
        BY <1>2, <3>3, <4>1, <4>2, PayloadBufferAssumption DEF HoldsAll
      <4>4. fed.total_payload_len = m.total
        BY <2>1, <4>3 DEF Holds
      <4> QED
        BY <1>2, <2>4, <4>3, <4>4 DEF BufferIsWhole
    <3>4. BufferTracks'
      <4>1. Holds(buffer', Current', CMessage', offset')
        BY <1>1, <1>3, <2>1, <3>1 DEF end
      <4>2. starved' \/ HoldsAll(buffer', CMessage', offset')
        BY <1>1, <1>3, <2>1, <3>1 DEF end
      <4>3. phase' = "reading" => offset' < m.total
        BY <1>1, <1>2 DEF end
      <4> QED
        BY <1>3, <4>1, <4>2, <4>3 DEF BufferTracks, Holds, HoldsAll
    <3>5. WholeMessageIsDelivered'
      BY <1>1, <3>3 DEF WholeMessageIsDelivered
    <3> QED
      BY <1>4, <1>7, <3>1, <3>2, <3>4, <3>5
  <2> QED
    BY <2>2, <2>3, <2>4
<1> QED
  BY <1>8, <1>10

LEMMA BrokerSendsKeepsIInv ==
  ASSUME IInv, NEW m \in Message, BrokerSends(m)
  PROVE  IInv'
<1> USE DEF IInv
<1>1. /\ sent' = Append(sent, m) /\ phase' = "announced" /\ offset' = 0 /\ starved' = FALSE
      /\ UNCHANGED <<buffer, delivered>> /\ Len(sent) < MaxMessages
  BY DEF BrokerSends
<1>2. sent \in Seq(Message) /\ Len(sent) \in Nat
  BY DEF TypeOK
<1>3. /\ sent' \in Seq(Message) /\ Len(sent') = Len(sent) + 1 /\ sent' # << >>
      /\ sent'[Len(sent')] = m
      /\ \A n \in 1..Len(sent) : sent'[n] = sent[n]
  BY <1>1, <1>2
<1>4. m.total \in 0..MaxTotal /\ Len(sent') <= MaxMessages
  BY <1>1, <1>2, <1>3, PayloadBufferAssumption DEF Message
<1>5. TypeOK'
  <2>1. offset' \in 0..MaxTotal /\ offset' <= sent'[Current'].total
    BY <1>1, <1>3, <1>4, PayloadBufferAssumption DEF Current
  <2>2. BufferType(buffer') /\ (buffer'.payload # NULL /\ buffer'.topic # NULL
           => buffer'.received_len < buffer'.total_payload_len)
    BY <1>1, TypeOfBuffer DEF TypeOK
  <2>3. delivered' \in Seq([id : 1..MaxMessages, topic : Topic, payload : Payload])
    BY <1>1 DEF TypeOK
  <2> QED
    BY <1>1, <1>3, <1>4, <2>1, <2>2, <2>3 DEF TypeOK, BufferType
<1>6. \A n \in 1..Len(delivered) : IsFaithful(delivered[n])
  BY DEF NoMixedDelivery
<1>7. NoMixedDelivery' /\ NotYetDelivered'
  <2>1. \A n \in 1..Len(delivered) : delivered[n].id \in 1..Len(sent)
    BY <1>6 DEF IsFaithful
  <2>2. \A n \in 1..Len(delivered) : delivered[n].id \in 1..Len(sent')
           /\ sent'[delivered[n].id] = sent[delivered[n].id] /\ delivered[n].id < Len(sent')
    BY <1>2, <1>3, <2>1
  <2>3. NoMixedDelivery'
    BY <1>1, <1>6, <2>2 DEF NoMixedDelivery, IsFaithful
  <2> QED
    BY <1>1, <2>2, <2>3 DEF NotYetDelivered, Current
<1> QED
  BY <1>1, <1>5, <1>7
  DEF AnnouncedAtZero, BufferTracks, DeliveredInOrderOnce, WholeMessageIsDelivered

LEMMA ConnectionLostKeepsIInv ==
  ASSUME IInv, ConnectionLost
  PROVE  IInv'
BY DEF IInv, ConnectionLost, TypeOK, AnnouncedAtZero, BufferTracks, NotYetDelivered,
       NoMixedDelivery, IsFaithful, DeliveredInOrderOnce, WholeMessageIsDelivered,
       OnTheWire, Current

LEMMA ClearKeepsIInv ==
  ASSUME IInv, Clear
  PROVE  IInv'
<1> USE DEF IInv
<1>1. /\ phase' \in {"none", "whole", "cut"} /\ (phase' = "whole" => phase = "whole")
      /\ buffer' = Freed /\ UNCHANGED <<sent, offset, starved, delivered>>
  BY DEF Clear, TypeOK, OnTheWire
<1>2. BufferType(buffer') /\ buffer'.payload = NULL
  BY <1>1, FreedType DEF Freed
<1>3. TypeOK'
  BY <1>1, <1>2 DEF TypeOK, BufferType, OnTheWire
<1> QED
  BY <1>1, <1>3 DEF AnnouncedAtZero, BufferTracks, NotYetDelivered, NoMixedDelivery,
     IsFaithful, DeliveredInOrderOnce, WholeMessageIsDelivered, OnTheWire, Current

LEMMA NextKeepsIInv == IInv /\ [Next]_vars => IInv'
<1> SUFFICES ASSUME IInv, [Next]_vars PROVE IInv'
  OBVIOUS
<1>1. ASSUME NEW m \in Message, BrokerSends(m) PROVE IInv'
  BY <1>1, BrokerSendsKeepsIInv
<1>2. ASSUME NEW len \in 0..MaxTotal, NEW failing \in SUBSET Malloc, MqttData(len, failing)
      PROVE  IInv'
  BY <1>2, MqttDataKeepsIInv
<1>3. CASE ConnectionLost
  BY <1>3, ConnectionLostKeepsIInv
<1>4. CASE Clear
  BY <1>4, ClearKeepsIInv
<1>5. CASE UNCHANGED vars
  BY <1>5 DEF vars, IInv, TypeOK, AnnouncedAtZero, BufferTracks, CMessage, NotYetDelivered,
     NoMixedDelivery, IsFaithful, DeliveredInOrderOnce, WholeMessageIsDelivered,
     OnTheWire, Current
<1> QED
  BY <1>1, <1>2, <1>3, <1>4, <1>5 DEF Next

THEOREM Invariance == Spec => []IInv
BY InitIInv, NextKeepsIInv, PTL DEF Spec

-----------------------------------------------------------------------------
\* TypeOK: the C buffer keeps its types, and between two events it is never
\* complete: tbcm_payload_buffer_pocess would have delivered and freed it.
THEOREM TypeCorrect == Spec => []TypeOK
<1>1. IInv => TypeOK
  BY DEF IInv
<1> QED
  BY <1>1, Invariance, PTL

\* NoMixedDelivery: what on_payload_process is called with is one whole
\* message of the broker, under that message's topic.
THEOREM DeliveriesAreFaithful == Spec => []NoMixedDelivery
<1>1. IInv => NoMixedDelivery
  BY DEF IInv
<1> QED
  BY <1>1, Invariance, PTL

\* DeliveredInOrderOnce: no message is delivered twice or out of order.
THEOREM DeliveriesAreOrdered == Spec => []DeliveredInOrderOnce
<1>1. IInv => DeliveredInOrderOnce
  BY DEF IInv
<1> QED
  BY <1>1, Invariance, PTL

\* WholeMessageIsDelivered: the buffer loses no message that arrived whole,
\* is not too long and met no failing malloc.
THEOREM NothingWholeIsLost == Spec => []WholeMessageIsDelivered
<1>1. IInv => WholeMessageIsDelivered
  BY DEF IInv
<1> QED
  BY <1>1, Invariance, PTL
=============================================================================
